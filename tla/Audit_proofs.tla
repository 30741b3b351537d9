----------------------------- MODULE Audit_proofs -----------------------------
(***************************************************************************)
(* Proofs about the two ends of the audit channel, for every value of      *)
(* their constants.  Of AuditStore: wherever crashes fall and whatever the *)
(* date does, a running store stands at the end of the one chain on disk,  *)
(* and the segments implement Journal.  Of AuditQueue, below as Queue:     *)
(* records go out in order, those that are missing without a marker were   *)
(* in a socket that policyd closed, and a request let through is out.      *)
(***************************************************************************)
EXTENDS AuditStore, AuditEntries, TLAPS, SequenceTheorems, FiniteSetTheorems, WellFoundedInduction

-----------------------------------------------------------------------------
(* Reading the files back.                                                 *)

(* A sequence can be flattened from the front: the recursion FlattenSeq is *)
(* defined by has a solution.                                              *)
Concats(S, n, f) ==
  f = [ i \in 1..n |-> IF i = 1 THEN S[i] ELSE f[i-1] \o S[i] ]

(* The partial concatenations of a sequence of any length exist.           *)
LEMMA ConcatsExist ==
  ASSUME NEW S, NEW n \in Nat
  PROVE  \E f : Concats(S, n, f)
<1> SUFFICES ASSUME ~\E f : Concats(S, n, f) PROVE FALSE
  OBVIOUS
<1> DEFINE T == { k \in Nat : ~\E f : Concats(S, k, f) }
<1>1. PICK m \in T : \A y \in T : <<y, m>> \notin OpToRel(<, Nat)
  BY NatLessThanWellFounded, WFMin, Zenon
<1>2. \A y \in T : ~(y < m)
  BY <1>1 DEF OpToRel
<1>3. m # 0
  <2>1. Concats(S, 0, [i \in 1..0 |-> i])
    BY DEF Concats
  <2> QED BY <2>1
<1>4. PICK f : Concats(S, m - 1, f)
  BY <1>2, <1>3
<1> DEFINE g == [ i \in 1..m |-> IF i < m THEN f[i]
                                 ELSE IF i = 1 THEN S[i] ELSE f[i-1] \o S[i] ]
<1>5. Concats(S, m, g)
  <2>1. \A i \in 1..m : g[i] = IF i = 1 THEN S[i] ELSE g[i-1] \o S[i]
    <3> TAKE i \in 1..m
    <3>1. CASE i = m
      <4>1. i # 1 => i - 1 \in 1..m /\ i - 1 < m
        BY <1>3
      <4> QED BY <3>1, <4>1
    <3>2. CASE i < m
      <4>1. i \in 1..(m - 1) /\ (i # 1 => i - 1 \in 1..m /\ i - 1 < m)
        BY <1>3, <3>2
      <4>2. f[i] = IF i = 1 THEN S[i] ELSE f[i-1] \o S[i]
        BY <1>4, <4>1 DEF Concats
      <4> QED BY <3>2, <4>1, <4>2
    <3> QED BY <3>1, <3>2
  <2> QED BY <2>1 DEF Concats
<1> QED BY <1>5

(* FlattenSeq is the last of the partial concatenations.                   *)
LEMMA FlattenIs ==
  ASSUME NEW V, NEW n \in Nat \ {0}, NEW S \in [1..n -> V]
  PROVE  \E f : Concats(S, n, f) /\ FlattenSeq(S) = f[n]
<1>1. Len(S) = n
  OBVIOUS
<1>2. PICK f : Concats(S, n, f)
  BY ConcatsExist
<1> DEFINE P(g) == g = [ i \in 1..Len(S) |-> IF i = 1 THEN S[i] ELSE g[i-1] \o S[i] ]
<1> DEFINE h == CHOOSE g : P(g)
<1>3. P(f)
  BY <1>1, <1>2, Zenon DEF Concats
<1>4. P(h)
  BY <1>3
<1>5. FlattenSeq(S) = h[Len(S)]
  BY <1>1 DEF FlattenSeq
<1> QED BY <1>1, <1>4, <1>5 DEF Concats

(* One step of a partial concatenation.                                    *)
LEMMA ConcatsAt ==
  ASSUME NEW S, NEW n \in Nat, NEW f, Concats(S, n, f), NEW i \in 1..n
  PROVE  f[i] = IF i = 1 THEN S[i] ELSE f[i-1] \o S[i]
BY DEF Concats

-----------------------------------------------------------------------------
(* Sets of records: the log in one, and how much of it a disk has.         *)

(* A set of naturals with a member has a least one.                        *)
LEMMA MinNat ==
  ASSUME NEW S \in SUBSET Nat, S # {}
  PROVE  Min(S) \in S /\ \A y \in S : Min(S) <= y
<1>1. PICK m \in S : \A y \in S : <<y, m>> \notin OpToRel(<, Nat)
  BY NatLessThanWellFounded, WFMin, Zenon
<1>2. \A y \in S : ~(y < m)
  BY <1>1 DEF OpToRel
<1>3. \A y \in S : m <= y
  BY <1>2
<1> QED BY <1>3 DEF Min

One(S)    == \A r, s \in S : r.seq = s.seq => r = s
Linked(S) ==
  \A r \in S : /\ r.seq = 0 => r.prev = Genesis
               /\ \A s \in S : s.seq = r.seq + 1 => s.prev = r.hash
Below(S, n) == \A r \in S : r.seq < n

(* L is what S has from the first record on.                               *)
IsLog(S, L) ==
  /\ L \in Seq(Records)
  /\ \A i \in 1..Len(L) : L[i] \in S /\ L[i].seq = i - 1
  /\ \A r \in S : r.seq # Len(L)

(* LogIn is that log, and no other is.                                     *)
LEMMA LogIs ==
  ASSUME NEW S \in SUBSET Records, One(S), Below(S, MaxHash)
  PROVE  /\ IsLog(S, LogIn(S))
         /\ \A L : IsLog(S, L) => L = LogIn(S)
<1> DEFINE N == { n \in 0..MaxHash : \A r \in S : r.seq # n }
           u == Upto(S)
<1>1. MaxHash \in Nat /\ MaxHash \in N
  BY AuditAssumption DEF Below, Records
<1>2. u \in N /\ \A n \in N : u <= n
  <2>1. N \in SUBSET Nat /\ N # {}
    BY <1>1
  <2> HIDE DEF N
  <2>2. Min(N) \in N /\ \A n \in N : Min(N) <= n
    BY <2>1, MinNat
  <2> QED BY <2>2 DEF Upto, N
<1>3. u \in 0..MaxHash /\ \A r \in S : r.seq # u
  BY <1>2
<1>4. \A n \in 0..(u - 1) : \E r \in S : r.seq = n
  BY <1>1, <1>2
<1> HIDE DEF N, u
<1>5. LogIn(S) = [ i \in 1..u |-> CHOOSE r \in S : r.seq = i - 1 ]
  BY DEF LogIn, u
<1>6. \A i \in 1..u : LogIn(S)[i] \in S /\ LogIn(S)[i].seq = i - 1
  <2> TAKE i \in 1..u
  <2>1. \E r \in S : r.seq = i - 1
    BY <1>3, <1>4
  <2>2. LogIn(S)[i] = CHOOSE r \in S : r.seq = i - 1
    BY <1>5
  <2> QED BY <2>1, <2>2
<1>7. LogIn(S) \in Seq(Records) /\ Len(LogIn(S)) = u
  <2>1. u \in Nat /\ DOMAIN LogIn(S) = 1..u
    BY <1>3, <1>5
  <2>2. LogIn(S) \in [1..u -> Records]
    BY <1>5, <1>6
  <2> QED BY <2>1, <2>2
<1>8. IsLog(S, LogIn(S))
  BY <1>3, <1>6, <1>7 DEF IsLog
<1>9. ASSUME NEW L, IsLog(S, L) PROVE L = LogIn(S)
  <2>1. L \in Seq(Records) /\ Len(L) \in Nat
    BY <1>9 DEF IsLog
  <2>2. ~(Len(L) < u)
    <3>1. \A r \in S : r.seq # Len(L)
      BY <1>9 DEF IsLog
    <3> QED BY <1>3, <1>4, <2>1, <3>1
  <2>3. ~(u < Len(L))
    <3> SUFFICES ASSUME u < Len(L) PROVE FALSE
      OBVIOUS
    <3>1. u + 1 \in 1..Len(L) /\ (u + 1) - 1 = u
      BY <1>3, <2>1
    <3>2. L[u + 1] \in S /\ L[u + 1].seq = u
      BY <1>9, <3>1 DEF IsLog
    <3> QED BY <1>3, <3>2
  <2>4. Len(L) = u
    BY <1>3, <2>1, <2>2, <2>3
  <2>5. \A i \in 1..u : L[i] = LogIn(S)[i]
    <3> TAKE i \in 1..u
    <3>1. L[i] \in S /\ L[i].seq = i - 1
      BY <1>9, <2>4 DEF IsLog
    <3> QED BY <1>6, <3>1 DEF One
  <2> QED BY <1>7, <2>1, <2>4, <2>5
<1> QED BY <1>8, <1>9

Chained(r) == \A i \in DOMAIN r : Chains(r, i)

(* What verifies of a log that chains is all of it.                        *)
LEMMA VerifiedAll ==
  ASSUME NEW r, Chained(r)
  PROVE  Verified(r) = Len(r)
<1>1. { i \in DOMAIN r : ~Chains(r, i) } = {}
  BY DEF Chained
<1> QED BY <1>1 DEF Verified

(* ... and one of which all verifies chains.                               *)
LEMMA AllVerified ==
  ASSUME NEW r \in Seq(Records), Verified(r) = Len(r)
  PROVE  Chained(r)
<1> DEFINE B == { i \in DOMAIN r : ~Chains(r, i) }
<1> SUFFICES ASSUME B # {} PROVE FALSE
  BY DEF Chained
<1>1. B \in SUBSET Nat
  OBVIOUS
<1>2. Min(B) \in B
  <2> HIDE DEF B
  <2> QED BY <1>1, MinNat
<1>3. Verified(r) = Min(B) - 1
  BY DEF Verified
<1>4. Min(B) \in 1..Len(r)
  BY <1>2
<1> HIDE DEF B
<1> QED BY <1>3, <1>4

(* How much verifies of a log that does not chain.                         *)
LEMMA VerifiedUpTo ==
  ASSUME NEW r \in Seq(Records), Verified(r) < Len(r)
  PROVE  /\ Verified(r) \in 0..(Len(r) - 1)
         /\ ~Chains(r, Verified(r) + 1)
         /\ \A i \in 1..Verified(r) : Chains(r, i)
<1> DEFINE B == { i \in DOMAIN r : ~Chains(r, i) }
<1>1. B # {} /\ Verified(r) = Min(B) - 1
  BY DEF Verified
<1>2. B \in SUBSET Nat
  OBVIOUS
<1>3. Min(B) \in B /\ \A y \in B : Min(B) <= y
  <2> HIDE DEF B
  <2> QED BY <1>1, <1>2, MinNat
<1> DEFINE m == Min(B)
<1>4. m \in 1..Len(r) /\ ~Chains(r, m)
  BY <1>3
<1>5. \A i \in 1..Len(r) : ~Chains(r, i) => m <= i
  BY <1>3
<1>6. Verified(r) = m - 1
  BY <1>1
<1> HIDE DEF B, m
<1>7. \A i \in 1..(m - 1) : Chains(r, i)
  BY <1>4, <1>5
<1> QED BY <1>4, <1>6, <1>7

(* A log in linked records chains.                                         *)
LEMMA LogChains ==
  ASSUME NEW S \in SUBSET Records, Linked(S), NEW L, IsLog(S, L)
  PROVE  Chained(L)
<1>1. L \in Seq(Records) /\ DOMAIN L = 1..Len(L)
  BY DEF IsLog
<1> SUFFICES ASSUME NEW i \in 1..Len(L) PROVE Chains(L, i)
  BY <1>1 DEF Chained
<1>2. L[i] \in S /\ L[i].seq = i - 1
  BY DEF IsLog
<1>3. CASE i = 1
  BY <1>2, <1>3 DEF Linked, Chains
<1>4. CASE i # 1
  <2>1. i - 1 \in 1..Len(L)
    BY <1>1, <1>4
  <2>2. L[i - 1] \in S /\ L[i - 1].seq = (i - 1) - 1
    BY <2>1 DEF IsLog
  <2>3. L[i].seq = L[i - 1].seq + 1
    BY <1>2, <2>2
  <2> QED BY <1>2, <1>4, <2>2, <2>3 DEF Linked, Chains
<1> QED BY <1>3, <1>4

(* A chain is the log in its records.                                      *)
LEMMA ChainIsLog ==
  ASSUME NEW L \in Seq(Records), Chained(L)
  PROVE  IsLog(Range(L), L)
<1>1. \A i \in 1..Len(L) : L[i] \in Range(L) /\ L[i].seq = i - 1
  BY DEF Chained, Chains, Range
<1>2. \A r \in Range(L) : r.seq # Len(L)
  <2> TAKE r \in Range(L)
  <2>1. PICK i \in 1..Len(L) : r = L[i]
    BY DEF Range
  <2> QED BY <1>1, <2>1
<1> QED BY <1>1, <1>2 DEF IsLog

(* The head of a log, and how it grows by a record that continues it.      *)
LEMMA LogGrows ==
  ASSUME NEW L \in Seq(Records), IsLog(Range(L), L), Linked(Range(L)), One(Range(L)),
         NEW x \in Records, x.seq = Len(L), x.prev = HeadOf(L)
  PROVE  LET S == Range(L) \cup {x}
         IN  /\ IsLog(S, Append(L, x)) /\ One(S) /\ Linked(S)
             /\ Range(Append(L, x)) = S /\ HeadOf(Append(L, x)) = x.hash
             /\ \A r \in Range(L) : r.seq < Len(L)
<1> DEFINE S == Range(L) \cup {x}
           M == Append(L, x)
<1>1. M \in Seq(Records) /\ Len(M) = Len(L) + 1 /\ M[Len(M)] = x /\ M # <<>>
      /\ \A i \in 1..Len(L) : M[i] = L[i]
  <2>1. M \in Seq(Records) /\ Len(M) = Len(L) + 1 /\ M[Len(L) + 1] = x
        /\ \A i \in 1..Len(L) : M[i] = L[i]
    BY AppendProperties
  <2> HIDE DEF M
  <2>2. M # <<>>
    BY <2>1
  <2> QED BY <2>1, <2>2
<1>2. \A r \in Range(L) : r.seq < Len(L) /\ r \in Records /\ r.seq \in Nat
  <2> TAKE r \in Range(L)
  <2>1. PICK i \in 1..Len(L) : r = L[i]
    BY DEF Range
  <2>2. r \in Records /\ r.seq = i - 1 /\ i \in 1..Len(L)
    BY <2>1 DEF IsLog
  <2> HIDE DEF M
  <2>3. r.seq < Len(L) /\ r.seq \in Nat
    BY <2>2
  <2> QED BY <2>2, <2>3
<1>3. Range(M) = S
  BY <1>1 DEF Range
<1> HIDE DEF M
<1>4. IsLog(S, M)
  <2>1. \A i \in 1..Len(M) : M[i] \in S /\ M[i].seq = i - 1
    <3> TAKE i \in 1..Len(M)
    <3>1. CASE i = Len(M)
      BY <1>1, <3>1
    <3>2. CASE i # Len(M)
      <4>1. i \in 1..Len(L)
        BY <1>1, <3>2
      <4> QED BY <1>1, <4>1 DEF IsLog
    <3> QED BY <3>1, <3>2
  <2>2. \A r \in S : r.seq # Len(M)
    BY <1>1, <1>2
  <2> QED BY <1>1, <2>1, <2>2 DEF IsLog
<1>5. One(S)
  BY <1>2 DEF One
<1>6. Linked(S)
  <2>1. \A r \in Range(L) : r.seq + 1 = Len(L) => r = L[Len(L)] /\ L # <<>>
    <3> TAKE r \in Range(L)
    <3>1. PICK i \in 1..Len(L) : r = L[i]
      BY DEF Range
    <3>2. r.seq = i - 1
      BY <3>1 DEF IsLog
    <3> QED BY <3>1, <3>2
  <2>2. \A r \in Range(L) : x.seq = r.seq + 1 => x.prev = r.hash
    <3> TAKE r \in Range(L)
    <3> HAVE x.seq = r.seq + 1
    <3>1. r = L[Len(L)] /\ L # <<>>
      BY <2>1
    <3> QED BY <3>1 DEF HeadOf, Last
  <2>3. x.seq = 0 => x.prev = Genesis
    <3>1. Len(L) = 0 => L = <<>>
      OBVIOUS
    <3> QED BY <3>1 DEF HeadOf
  <2>4. \A s \in S : s.seq # x.seq + 1
    BY <1>2
  <2> QED BY <2>2, <2>3, <2>4 DEF Linked
<1>7. HeadOf(M) = x.hash
  BY <1>1 DEF HeadOf, Last
<1> QED BY <1>2, <1>3, <1>4, <1>5, <1>6, <1>7 DEF M

(* Fewer records, a shorter log.                                           *)
LEMMA LogShrinks ==
  ASSUME NEW S \in SUBSET Records, One(S), NEW L, IsLog(S, L),
         NEW T \in SUBSET S, NEW M, IsLog(T, M)
  PROVE  Len(M) \in 0..Len(L) /\ M = SubSeq(L, 1, Len(M))
<1>1. L \in Seq(Records) /\ M \in Seq(Records) /\ Len(L) \in Nat /\ Len(M) \in Nat
  BY DEF IsLog
<1>2. Len(M) <= Len(L)
  <2> SUFFICES ASSUME Len(L) < Len(M) PROVE FALSE
    BY <1>1
  <2>1. Len(L) + 1 \in 1..Len(M) /\ (Len(L) + 1) - 1 = Len(L)
    BY <1>1
  <2>2. M[Len(L) + 1] \in T /\ M[Len(L) + 1].seq = Len(L)
    BY <2>1 DEF IsLog
  <2> QED BY <2>2 DEF IsLog
<1>3. \A i \in 1..Len(M) : M[i] = L[i]
  <2> TAKE i \in 1..Len(M)
  <2>1. i \in 1..Len(L)
    BY <1>1, <1>2
  <2>2. M[i] \in S /\ M[i].seq = i - 1 /\ L[i] \in S /\ L[i].seq = i - 1
    BY <2>1 DEF IsLog
  <2> QED BY <2>2 DEF One
<1> QED BY <1>1, <1>2, <1>3

(* Kept counts the records of a log that a disk has from the first on.     *)
LEMMA KeptIs ==
  ASSUME NEW L \in Seq(Records), NEW D
  PROVE  /\ Kept(L, D) \in 0..Len(L)
         /\ \A i \in 1..Kept(L, D) : L[i] \in D
         /\ Kept(L, D) < Len(L) => L[Kept(L, D) + 1] \notin D
<1> DEFINE K == {Len(L)} \cup { i - 1 : i \in { j \in DOMAIN L : L[j] \notin D } }
<1>1. K \in SUBSET Nat /\ K # {} /\ \A k \in K : k <= Len(L)
  OBVIOUS
<1>2. Min(K) \in K /\ \A y \in K : Min(K) <= y
  <2> HIDE DEF K
  <2> QED BY <1>1, MinNat
<1>3. Kept(L, D) = Min(K)
  BY DEF Kept
<1>4. Min(K) \in 0..Len(L)
  BY <1>1, <1>2
<1>5. \A i \in 1..Min(K) : L[i] \in D
  <2> DEFINE m == Min(K)
  <2>1. \A i \in 1..Len(L) : L[i] \notin D => i - 1 \in K
    OBVIOUS
  <2>2. m \in 0..Len(L) /\ \A k \in K : m <= k
    BY <1>2, <1>4
  <2> HIDE DEF K, m
  <2>3. \A i \in 1..m : L[i] \in D
    BY <2>1, <2>2
  <2> QED BY <2>3 DEF m
<1>6. Min(K) < Len(L) => L[Min(K) + 1] \notin D
  <2> HAVE Min(K) < Len(L)
  <2>1. PICK j \in DOMAIN L : Min(K) = j - 1 /\ L[j] \notin D
    BY <1>2
  <2> QED BY <2>1
<1> QED BY <1>3, <1>4, <1>5, <1>6

(* ... and nothing else is that number.                                    *)
LEMMA KeptOnly ==
  ASSUME NEW L \in Seq(Records), NEW D, NEW k \in 0..Len(L),
         \A i \in 1..k : L[i] \in D, k < Len(L) => L[k + 1] \notin D
  PROVE  Kept(L, D) = k
<1> DEFINE m == Kept(L, D)
<1>1. /\ m \in 0..Len(L)
      /\ \A i \in 1..m : L[i] \in D
      /\ m < Len(L) => L[m + 1] \notin D
  BY KeptIs
<1> HIDE DEF m
<1>2. ~(m < k)
  BY <1>1
<1>3. ~(k < m)
  BY <1>1
<1> QED BY <1>1, <1>2, <1>3 DEF m

(* A disk that has more keeps more.                                        *)
LEMMA KeptMore ==
  ASSUME NEW L \in Seq(Records), NEW D, NEW E,
         \A i \in 1..Len(L) : L[i] \in D => L[i] \in E
  PROVE  Kept(L, D) <= Kept(L, E)
<1> DEFINE m == Kept(L, D)
           n == Kept(L, E)
<1>1. /\ m \in 0..Len(L) /\ n \in 0..Len(L)
      /\ \A i \in 1..m : L[i] \in D
      /\ n < Len(L) => L[n + 1] \notin E
  BY KeptIs
<1> HIDE DEF m, n
<1>2. ~(n < m)
  BY <1>1
<1> QED BY <1>1, <1>2 DEF m, n

(* All of it, when the disk has all of it.                                 *)
LEMMA KeptAll ==
  ASSUME NEW L \in Seq(Records), NEW D, \A i \in 1..Len(L) : L[i] \in D
  PROVE  Kept(L, D) = Len(L)
<1>1. Len(L) \in 0..Len(L)
  OBVIOUS
<1> QED BY <1>1, KeptOnly

(* What is kept of a log that grew by a record.                            *)
LEMMA KeptGrows ==
  ASSUME NEW L \in Seq(Records), NEW x \in Records, NEW D, NEW E
  PROVE  /\ x \notin D => Kept(Append(L, x), D) = Kept(L, D)
         /\ D \subseteq E => Kept(Append(L, x), E) \in Kept(L, D)..(Len(L) + 1)
<1> DEFINE M == Append(L, x)
           k == Kept(L, D)
           n == Kept(M, E)
<1>1. /\ M \in Seq(Records) /\ Len(M) = Len(L) + 1 /\ Len(L) \in Nat
      /\ M[Len(L) + 1] = x /\ \A i \in 1..Len(L) : M[i] = L[i]
  BY AppendProperties
<1> HIDE DEF M
<1>2. /\ k \in 0..Len(L) /\ \A i \in 1..k : L[i] \in D
      /\ k < Len(L) => L[k + 1] \notin D
  BY KeptIs
<1>3. /\ n \in 0..Len(M)
      /\ n < Len(M) => M[n + 1] \notin E
  BY <1>1, KeptIs
<1> HIDE DEF k, n
<1>4. /\ k \in 0..Len(M) /\ \A i \in 1..k : M[i] \in D
  BY <1>1, <1>2
<1>5. x \notin D => Kept(M, D) = k
  <2> HAVE x \notin D
  <2>1. M[k + 1] \notin D
    BY <1>1, <1>2
  <2> QED BY <1>1, <1>4, <2>1, KeptOnly
<1>6. D \subseteq E => n \in k..(Len(L) + 1)
  <2> HAVE D \subseteq E
  <2>1. n < k => n + 1 \in 1..k /\ n < Len(M)
    BY <1>1, <1>2, <1>3
  <2>2. ~(n < k)
    BY <1>3, <1>4, <2>1
  <2> QED BY <1>1, <1>2, <1>3, <2>2
<1> QED BY <1>5, <1>6 DEF M, n, k

-----------------------------------------------------------------------------
(* What the sealed files hold, read by name.                               *)

(* Flattened sequences hold what is in one of them, and nothing else.      *)
LEMMA FlattenHolds ==
  ASSUME NEW n \in Nat, NEW S \in [1..n -> Seq(Records)]
  PROVE  /\ FlattenSeq(S) \in Seq(Records)
         /\ Range(FlattenSeq(S)) = UNION { Range(S[i]) : i \in 1..n }
<1>1. CASE n = 0
  <2>1. S = <<>>
    BY <1>1
  <2>2. FlattenSeq(S) = <<>>
    BY <2>1 DEF FlattenSeq
  <2> QED BY <1>1, <2>2 DEF Range
<1>2. CASE n # 0
  <2>1. PICK f : Concats(S, n, f) /\ FlattenSeq(S) = f[n]
    <3>1. n \in Nat \ {0}
      BY <1>2
    <3> QED BY <3>1, FlattenIs
  <2> DEFINE Held(k) == UNION { Range(S[i]) : i \in 1..k }
             Good(k) == f[k] \in Seq(Records) /\ Range(f[k]) = Held(k)
             T == { k \in 1..n : ~Good(k) }
  <2>2. T = {}
    <3> SUFFICES ASSUME T # {} PROVE FALSE
      OBVIOUS
    <3> DEFINE m == Min(T)
    <3>1. m \in T /\ \A y \in T : m <= y
      <4>1. T \in SUBSET Nat
        OBVIOUS
      <4> HIDE DEF T
      <4> QED BY <4>1, MinNat
    <3>2. m \in 1..n /\ ~Good(m)
      BY <3>1
    <3>3. \A k \in 1..n : k < m => Good(k)
      <4>1. \A k \in 1..n : ~Good(k) => m <= k
        BY <3>1
      <4> HIDE DEF Good, T, m
      <4> QED BY <3>2, <4>1
    <3> HIDE DEF T, m
    <3>4. f[m] = IF m = 1 THEN S[m] ELSE f[m-1] \o S[m]
      BY <2>1, <3>2, ConcatsAt
    <3>5. S[m] \in Seq(Records)
      BY <3>2
    <3>6. CASE m = 1
      <4>1. Held(1) = Range(S[1])
        OBVIOUS
      <4> QED BY <3>2, <3>4, <3>5, <3>6, <4>1
    <3>7. CASE m # 1
      <4>1. m - 1 \in 1..n /\ m - 1 < m
        BY <3>2, <3>7
      <4>2. Good(m - 1)
        BY <3>3, <4>1
      <4>3. Held(m) = Held(m - 1) \cup Range(S[m])
        <5>1. 1..m = (1..(m - 1)) \cup {m}
          BY <3>2
        <5> QED BY <5>1
      <4>4. Range(f[m-1] \o S[m]) = Range(f[m-1]) \cup Range(S[m])
        BY <3>5, <4>2, RangeConcatenation
      <4>5. f[m-1] \o S[m] \in Seq(Records)
        BY <3>5, <4>2, ConcatProperties
      <4> HIDE DEF Held
      <4> QED BY <3>2, <3>4, <3>7, <4>2, <4>3, <4>4, <4>5
    <3> QED BY <3>6, <3>7
  <2>3. Good(n)
    <3>1. n \in 1..n
      BY <1>2
    <3>2. n \notin T
      BY <2>2
    <3> HIDE DEF Good
    <3> QED BY <3>1, <3>2
  <2> QED BY <2>1, <2>3
<1> QED BY <1>1, <1>2

NamesDiffer(fs) == \A f, g \in fs : f.date = g.date /\ f.n = g.n => f = g

(* Every file has its place by name, and every place its file.             *)
LEMMA InOrderIs ==
  ASSUME NEW fs \in SUBSET Segments, IsFiniteSet(fs), NamesDiffer(fs)
  PROVE  { InOrder(fs)[i] : i \in 1..Cardinality(fs) } = fs
<1> DEFINE n == Cardinality(fs)
           rank == [ f \in fs |-> Cardinality(Earlier(fs, f)) ]
<1>1. n \in Nat /\ Cardinality(0..(n - 1)) = n /\ IsFiniteSet(0..(n - 1))
  <2>1. n \in Nat
    BY FS_CardinalityType
  <2> HIDE DEF n
  <2>2. n - 1 \in Int /\ (0 > n - 1 <=> n = 0) /\ (n - 1) - 0 + 1 = n
    BY <2>1
  <2> QED BY <2>1, <2>2, FS_Interval
<1>2. \A f \in fs : /\ Earlier(fs, f) \in SUBSET fs /\ f \notin Earlier(fs, f)
                    /\ IsFiniteSet(Earlier(fs, f)) /\ rank[f] \in Nat
  <2> TAKE f \in fs
  <2>1. f.date \in Nat /\ f.n \in Nat
    BY AuditAssumption DEF Segments
  <2>2. Earlier(fs, f) \in SUBSET fs /\ f \notin Earlier(fs, f)
    BY <2>1 DEF Earlier, Before
  <2>3. IsFiniteSet(Earlier(fs, f))
    BY <2>2, FS_Subset
  <2> QED BY <2>2, <2>3, FS_CardinalityType
<1>3. \A f \in fs : rank[f] \in 0..(n - 1)
  <2> TAKE f \in fs
  <2>1. Cardinality(Earlier(fs, f)) <= n /\ (n = Cardinality(Earlier(fs, f)) => fs = Earlier(fs, f))
    BY <1>2, FS_Subset
  <2>2. Cardinality(Earlier(fs, f)) \in Nat /\ fs # Earlier(fs, f)
    BY <1>2
  <2> QED BY <1>1, <2>1, <2>2
<1>4. \A f, g \in fs : Before(f, g) => rank[f] < rank[g]
  <2> SUFFICES ASSUME NEW f \in fs, NEW g \in fs, Before(f, g) PROVE rank[f] < rank[g]
    OBVIOUS
  <2>1. \A h \in fs : h.date \in Nat /\ h.n \in Nat
    BY AuditAssumption DEF Segments
  <2>2. Earlier(fs, f) \in SUBSET Earlier(fs, g) /\ f \in Earlier(fs, g)
    BY <2>1 DEF Earlier, Before
  <2>3. /\ Cardinality(Earlier(fs, f)) <= Cardinality(Earlier(fs, g))
        /\ Cardinality(Earlier(fs, g)) = Cardinality(Earlier(fs, f))
             => Earlier(fs, g) = Earlier(fs, f)
    BY <1>2, <2>2, FS_Subset
  <2>4. Cardinality(Earlier(fs, g)) # Cardinality(Earlier(fs, f))
    BY <1>2, <2>2, <2>3
  <2>5. rank[f] \in Nat /\ rank[g] \in Nat
    BY <1>2
  <2> QED BY <2>3, <2>4, <2>5
<1>5. \A f, g \in fs : rank[f] = rank[g] => f = g
  <2> SUFFICES ASSUME NEW f \in fs, NEW g \in fs, rank[f] = rank[g], f # g PROVE FALSE
    OBVIOUS
  <2>1. \A h \in fs : h.date \in Nat /\ h.n \in Nat
    BY AuditAssumption DEF Segments
  <2>2. Before(f, g) \/ Before(g, f)
    BY <2>1 DEF NamesDiffer, Before
  <2>3. rank[f] \in Nat
    BY <1>2
  <2> HIDE DEF rank
  <2> QED BY <1>4, <2>2, <2>3
<1>6. rank \in Injection(fs, 0..(n - 1))
  <2>1. rank \in [fs -> 0..(n - 1)]
    BY <1>3
  <2> HIDE DEF rank
  <2> QED BY <1>5, <2>1 DEF Injection, IsInjective
<1>7. rank \in Surjection(fs, 0..(n - 1))
  BY <1>1, <1>6, FS_Injection
<1>8. \A i \in 1..n : InOrder(fs)[i] \in fs /\ rank[InOrder(fs)[i]] = i - 1
  <2> TAKE i \in 1..n
  <2>1. i - 1 \in 0..(n - 1)
    BY <1>1
  <2>2. PICK f \in fs : rank[f] = i - 1
    <3> HIDE DEF rank
    <3> QED BY <1>7, <2>1 DEF Surjection
  <2>3. f \in Ranked(fs, i)
    BY <2>2 DEF Ranked
  <2>4. InOrder(fs)[i] = CHOOSE g \in Ranked(fs, i) : TRUE
    BY DEF InOrder
  <2>5. InOrder(fs)[i] \in Ranked(fs, i)
    BY <2>3, <2>4
  <2> QED BY <2>5 DEF Ranked
<1>9. ASSUME NEW f \in fs PROVE \E i \in 1..n : InOrder(fs)[i] = f
  <2> DEFINE i == rank[f] + 1
  <2>1. rank[f] \in 0..(n - 1)
    BY <1>3
  <2> HIDE DEF rank
  <2>2. i \in 1..n /\ i - 1 = rank[f]
    BY <1>1, <2>1
  <2>3. InOrder(fs)[i] \in fs /\ rank[InOrder(fs)[i]] = rank[f]
    BY <1>8, <2>2
  <2> QED BY <1>5, <2>2, <2>3
<1> QED BY <1>8, <1>9

(* Reading all files gives the records of the whole ones.                  *)
LEMMA ReadIs ==
  ASSUME NEW fs \in SUBSET Segments, IsFiniteSet(fs), NamesDiffer(fs)
  PROVE  /\ RecordsIn(fs) \in Seq(Records)
         /\ Range(RecordsIn(fs)) = UNION { Range(Recs(f)) : f \in fs }
<1> DEFINE n == Cardinality(fs)
           S == [ i \in 1..n |-> Recs(InOrder(fs)[i]) ]
<1>1. n \in Nat
  BY FS_CardinalityType
<1>2. { InOrder(fs)[i] : i \in 1..n } = fs
  BY InOrderIs
<1>3. \A f \in fs : Recs(f) \in Seq(Records)
  BY DEF Recs, Segments
<1>4. S \in [1..n -> Seq(Records)]
  BY <1>2, <1>3
<1>5. RecordsIn(fs) = FlattenSeq(S)
  BY DEF RecordsIn
<1>6. UNION { Range(S[i]) : i \in 1..n } = UNION { Range(Recs(f)) : f \in fs }
  BY <1>2
<1> HIDE DEF S, n
<1> QED BY <1>1, <1>4, <1>5, <1>6, FlattenHolds

-----------------------------------------------------------------------------
(* The inductive invariant.                                                *)

Apart(p, q) == Range(p) \cap Range(q) = {}
Run(q)      == \A i \in 1..Len(q) : q[i].seq = q[1].seq + (i - 1)

(* A sealed file shares no record with the open segment, or is the copy of *)
(* it that a rotation made, which synced it before.                        *)
FilesInv ==
  /\ IsFiniteSet(sealed) /\ NamesDiffer(sealed)
  /\ \A f \in sealed : f.content = "open" =>
       pc = "fill" /\ f.recs = current /\ ~f.durable /\ synced = Len(current)
  /\ \A f \in sealed : f.content = "whole" =>
       \/ Apart(f.recs, current)
       \/ f.recs = current /\ synced = Len(current) /\ pc \in {"down", "truncate"}
  /\ pc = "fill" => \E f \in sealed : f.content = "open"
  /\ pc = "truncate" =>
       \E f \in sealed : f.content = "whole" /\ f.durable /\ f.recs = current

(* Whatever crashes left, the records on disk are of one chain.            *)
RecordsInv == One(Copies) /\ Linked(Copies) /\ Below(Copies, hashes) /\ Run(current)

(* A daemon that runs has no record off the log, and stands at its end.    *)
PlaceInv ==
  pc # "down" =>
    /\ Copies = Range(Log)
    /\ store = [seq |-> Len(Log), head |-> HeadOf(Log), written |-> Len(current)]
    /\ current # <<>> => current[Len(current)].seq = Len(Log) - 1

AuditInv == TypeOK /\ FilesInv /\ RecordsInv /\ PlaceInv

(* What the refinement mapping is in such states.                          *)
ReadsBack ==
  /\ Copies \in SUBSET Records /\ OnDisk \in SUBSET Copies
  /\ Log \in Seq(Records) /\ IsLog(Copies, Log) /\ Chained(Log)
  /\ \A L : IsLog(Copies, L) => L = Log
  /\ ~Unfinished /\ synced = Len(current) => OnDisk = Copies

LEMMA LogReads == TypeOK /\ RecordsInv => ReadsBack
<1> SUFFICES ASSUME TypeOK, RecordsInv PROVE ReadsBack
  OBVIOUS
<1>1. /\ current \in Seq(Records) /\ sealed \in SUBSET Segments
      /\ synced \in 0..Len(current) /\ hashes \in 0..MaxHash /\ MaxHash \in Nat
  BY AuditAssumption DEF TypeOK
<1>2. \A f \in sealed : Recs(f) \in Seq(Records)
  BY <1>1 DEF Recs, Segments
<1>3. Copies \in SUBSET Records
  BY <1>1, <1>2 DEF Copies, Range
<1>4. Below(Copies, MaxHash)
  BY <1>1, <1>3 DEF RecordsInv, Below, Records
<1>5. IsLog(Copies, Log) /\ \A L : IsLog(Copies, L) => L = Log
  BY <1>3, <1>4, LogIs DEF RecordsInv, Log
<1>6. Chained(Log)
  BY <1>3, <1>5, LogChains DEF RecordsInv
<1>7. Range(SubSeq(current, 1, synced)) \in SUBSET Range(current)
  BY <1>1 DEF Range
<1>8. OnDisk \in SUBSET Copies
  BY <1>7 DEF OnDisk, Copies
<1>9. ~Unfinished /\ synced = Len(current) => OnDisk = Copies
  <2> HAVE ~Unfinished /\ synced = Len(current)
  <2>1. SubSeq(current, 1, synced) = current
    BY <1>1
  <2>2. \A f \in sealed : Recs(f) # <<>> => f.durable
    BY DEF Unfinished, Recs
  <2>3. Range(<<>>) = {}
    BY DEF Range
  <2> QED BY <2>1, <2>2, <2>3 DEF OnDisk, Copies
<1> QED BY <1>3, <1>5, <1>6, <1>8, <1>9 DEF ReadsBack, IsLog

(* The same after a step.                                                  *)
LEMMA LogWillRead ==
  ASSUME TypeOK', RecordsInv'
  PROVE  ReadsBack'
BY LogReads, PTL

-----------------------------------------------------------------------------
(* Steps of the journal.                                                   *)

JournalStep == J!Next \/ UNCHANGED J!jvars

(* Nothing a reader sees changes.                                          *)
LEMMA Stutters ==
  ASSUME Copies' = Copies, OnDisk' = OnDisk, Unfinished' = Unfinished
  PROVE  JournalStep
<1>1. Log' = Log
  BY DEF Log
<1>2. Durable' = Durable
  BY <1>1 DEF Durable
<1> QED BY <1>1, <1>2 DEF JournalStep, J!jvars

(* What there is gets synced, but for what an unfinished seal has.         *)
LEMMA Syncs ==
  ASSUME ReadsBack, ReadsBack', Copies' = Copies, OnDisk \in SUBSET OnDisk',
         Unfinished' = Unfinished, synced' = Len(current')
  PROVE  JournalStep
<1>1. Log' = Log /\ Log \in Seq(Records)
  BY DEF Log, ReadsBack
<1>2. /\ Durable = Kept(Log, OnDisk) /\ Durable' = Kept(Log, OnDisk')
      /\ Durable' \in 0..Len(Log) /\ Durable <= Durable'
  <2>1. Durable = Kept(Log, OnDisk) /\ Durable' = Kept(Log, OnDisk')
    BY <1>1 DEF Durable
  <2> QED BY <1>1, <2>1, KeptIs, KeptMore
<1>3. ~Unfinished => Durable' = Len(Log)
  <2> HAVE ~Unfinished
  <2>1. OnDisk' = Copies
    BY DEF ReadsBack
  <2>2. \A i \in 1..Len(Log) : Log[i] \in OnDisk'
    BY <2>1 DEF ReadsBack, IsLog
  <2>3. Kept(Log, OnDisk') = Len(Log)
    BY <1>1, <2>2, KeptAll
  <2> QED BY <1>2, <2>3
<1>4. Unfinished => Durable' \in Durable..Len(Log)
  <2>1. Durable \in 0..Len(Log)
    BY <1>1, <1>2, KeptIs
  <2> QED BY <1>2, <2>1
<1>5. J!Sync
  BY <1>1, <1>3, <1>4 DEF J!Sync, J!Reached
<1> QED BY <1>5 DEF JournalStep, J!Next

-----------------------------------------------------------------------------
(* The steps: what keeps the invariant, and which step of Journal it is.   *)

(* Store::append: the log grows by the record, and a sync moves with it.   *)
LEMMA AppendStep ==
  ASSUME AuditInv, pc \in {"idle", "anchor"}, NEW anchor \in BOOLEAN, AppendRecord(anchor)
  PROVE  AuditInv' /\ JournalStep
<1> DEFINE x == NewRecord(anchor)
<1>0. /\ MaxHash \in Nat /\ hashes \in 0..MaxHash /\ FsyncInterval \in Nat
      /\ since \in 0..FsyncInterval /\ current \in Seq(Records) /\ synced \in 0..Len(current)
      /\ store \in [seq : Nat, head : Nat, written : Nat] /\ sealed \subseteq Segments
  BY AuditAssumption DEF AuditInv, TypeOK
<1>1. ReadsBack
  BY LogReads DEF AuditInv
<1>2. /\ sealed' = sealed /\ torn' = torn /\ date' = date /\ crashes' = crashes
      /\ current' = Append(current, x) /\ hashes' = hashes + 1 /\ hashes < MaxHash
      /\ store' = [seq |-> store.seq + 1, head |-> hashes', written |-> store.written + 1]
      /\ (SyncDue /\ synced' = Len(current') /\ since' = 0) \/ (synced' = synced /\ since' = since)
      /\ pc' \in {"idle", "seal"}
  BY DEF AppendRecord, Synced
<1>3. /\ Copies = Range(Log)
      /\ store = [seq |-> Len(Log), head |-> HeadOf(Log), written |-> Len(current)]
      /\ current # <<>> => current[Len(current)].seq = Len(Log) - 1
  BY DEF AuditInv, PlaceInv
<1>4. x \in Records /\ x.seq = Len(Log) /\ x.prev = HeadOf(Log) /\ x.hash = hashes'
  BY <1>0, <1>2, <1>3 DEF NewRecord, Records
<1> HIDE DEF x
<1>5. /\ current' \in Seq(Records) /\ Len(current') = Len(current) + 1 /\ current' # <<>>
      /\ current'[Len(current')] = x /\ \A i \in 1..Len(current) : current'[i] = current[i]
      /\ Range(current') = Range(current) \cup {x}
  <2>1. /\ current' \in Seq(Records) /\ Len(current') = Len(current) + 1
        /\ current'[Len(current) + 1] = x /\ \A i \in 1..Len(current) : current'[i] = current[i]
    BY <1>0, <1>2, <1>4, AppendProperties
  <2>2. current' # <<>>
    BY <1>0, <2>1
  <2>3. DOMAIN current' = 1..(Len(current) + 1) /\ DOMAIN current = 1..Len(current)
    BY <1>0, <2>1
  <2>4. Range(current') = Range(current) \cup {x}
    BY <1>0, <2>1, <2>3 DEF Range
  <2> QED BY <2>1, <2>2, <2>4
<1>6. TypeOK'
  <2>1. synced' \in 0..Len(current')
    BY <1>0, <1>2, <1>5
  <2>2. store' \in [seq : Nat, head : Nat, written : Nat] /\ hashes' \in 0..MaxHash
    BY <1>0, <1>2
  <2>3. since' \in 0..FsyncInterval
    BY <1>0, <1>2
  <2> QED BY <1>2, <1>5, <2>1, <2>2, <2>3 DEF AuditInv, TypeOK
<1>7. Copies' = Copies \cup {x} /\ Unfinished' = Unfinished
  BY <1>2, <1>5 DEF Copies, Unfinished
<1>8. /\ IsLog(Copies', Append(Log, x)) /\ One(Copies') /\ Linked(Copies')
      /\ Range(Append(Log, x)) = Copies' /\ HeadOf(Append(Log, x)) = x.hash
      /\ \A r \in Copies : r.seq < Len(Log)
  <2>1. Log \in Seq(Records) /\ IsLog(Range(Log), Log) /\ Linked(Range(Log)) /\ One(Range(Log))
    BY <1>1, <1>3 DEF ReadsBack, AuditInv, RecordsInv
  <2> QED BY <1>3, <1>4, <1>7, <2>1, LogGrows
<1>9. Below(Copies', hashes')
  <2>1. Len(Log) <= hashes
    <3>1. Log \in Seq(Records) /\ IsLog(Copies, Log) /\ Below(Copies, hashes)
      BY <1>1 DEF ReadsBack, AuditInv, RecordsInv
    <3>2. CASE Len(Log) = 0
      BY <1>0, <3>2
    <3>3. CASE Len(Log) # 0
      <4>1. Len(Log) \in 1..Len(Log)
        BY <3>1, <3>3
      <4>2. Log[Len(Log)] \in Copies /\ Log[Len(Log)].seq = Len(Log) - 1
        BY <3>1, <4>1 DEF IsLog
      <4>3. Log[Len(Log)].seq < hashes
        BY <3>1, <4>2 DEF Below
      <4> QED BY <1>0, <3>1, <4>2, <4>3
    <3> QED BY <3>2, <3>3
  <2>2. \A r \in Copies : r.seq \in Nat /\ r.seq < hashes
    BY <1>1 DEF ReadsBack, Records, AuditInv, RecordsInv, Below
  <2>3. Len(Log) \in Nat
    BY <1>1 DEF ReadsBack
  <2>4. \A r \in Copies \cup {x} : r.seq < hashes + 1
    BY <1>0, <1>4, <2>1, <2>2, <2>3
  <2> QED BY <1>2, <1>7, <2>4 DEF Below
<1>10. Run(current')
  <2> SUFFICES ASSUME NEW i \in 1..Len(current') PROVE current'[i].seq = current'[1].seq + (i - 1)
    BY DEF Run
  <2>1. CASE i \in 1..Len(current)
    <3>1. 1 \in 1..Len(current)
      BY <1>0, <2>1
    <3>2. current'[i] = current[i] /\ current'[1] = current[1]
      BY <1>5, <2>1, <3>1
    <3>3. current[i].seq = current[1].seq + (i - 1)
      BY <2>1 DEF AuditInv, RecordsInv, Run
    <3> QED BY <3>2, <3>3
  <2>2. CASE i = Len(current') /\ current = <<>>
    <3>1. i = 1 /\ current'[1] \in Records
      BY <1>5, <2>2
    <3> QED BY <3>1 DEF Records
  <2>3. CASE i = Len(current') /\ current # <<>>
    <3> DEFINE k == Len(current)
    <3>1. k \in 1..Len(current) /\ 1 \in 1..Len(current) /\ i = k + 1 /\ k \in Nat
      BY <1>0, <1>5, <2>3
    <3>2. current[k].seq = current[1].seq + (k - 1)
      BY <3>1 DEF AuditInv, RecordsInv, Run
    <3>5. current[1] \in Records
      BY <1>0, <3>1
    <3>6. current[1].seq \in Nat
      BY <3>5 DEF Records
    <3>3. current[k].seq = Len(Log) - 1 /\ Len(Log) \in Nat
      BY <1>1, <1>3, <2>3 DEF ReadsBack
    <3>4. current'[i].seq = Len(Log) /\ current'[1] = current[1]
      BY <1>4, <1>5, <2>3, <3>1
    <3> HIDE DEF k
    <3>7. Len(Log) = current[1].seq + k
      <4> DEFINE a == current[k].seq
                 b == current[1].seq
                 n == Len(Log)
      <4>1. a = b + (k - 1) /\ a = n - 1 /\ b \in Nat /\ n \in Nat /\ k \in Nat
        BY <3>1, <3>2, <3>3, <3>6
      <4> HIDE DEF a, b, n
      <4>2. n = b + k
        BY <4>1
      <4> QED BY <4>2 DEF b, n
    <3> QED BY <3>1, <3>4, <3>6, <3>7
  <2> QED BY <1>0, <1>5, <2>1, <2>2, <2>3
<1>11. RecordsInv'
  BY <1>8, <1>9, <1>10 DEF RecordsInv
<1>12. ReadsBack'
  BY <1>6, <1>11, LogWillRead
<1>13. Log' = Append(Log, x)
  BY <1>8, <1>12 DEF ReadsBack
<1>14. /\ Log \in Seq(Records) /\ Len(Log') = Len(Log) + 1
       /\ \A i \in 1..Len(Log) : Log'[i] = Log[i]
       /\ Log'[Len(Log) + 1] = x
  BY <1>1, <1>4, <1>13, AppendProperties DEF ReadsBack
<1>15. PlaceInv'
  <2>1. HeadOf(Log') = hashes'
    BY <1>4, <1>8, <1>13
  <2>2. store' = [seq |-> Len(Log'), head |-> HeadOf(Log'), written |-> Len(current')]
    BY <1>2, <1>3, <1>5, <1>14, <2>1
  <2>3. current'[Len(current')].seq = Len(Log') - 1
    BY <1>4, <1>5, <1>14
  <2> QED BY <1>8, <1>13, <2>2, <2>3 DEF PlaceInv
<1>16. FilesInv'
  <2>1. \A f \in sealed : f.content = "whole" => Apart(f.recs, current')
    <3> TAKE f \in sealed
    <3> HAVE f.content = "whole"
    <3>1. Apart(f.recs, current)
      BY DEF AuditInv, FilesInv
    <3>2. Range(f.recs) \subseteq Copies
      BY DEF Copies, Recs
    <3>3. x \notin Copies
      <4>1. x \in Copies => x.seq < Len(Log)
        BY <1>8
      <4> QED BY <1>4, <1>14, <4>1
    <3> QED BY <1>5, <3>1, <3>2, <3>3 DEF Apart
  <2> QED BY <1>2, <2>1 DEF AuditInv, FilesInv
<1>17. JournalStep
  <2>1. Durable' \in {Durable} \cup J!Reached(Log')
    <3>1. Durable = Kept(Log, OnDisk) /\ Durable' = Kept(Log', OnDisk')
      BY DEF Durable
    <3>2. Log' \in Seq(Records) /\ Log' = Append(Log, x) /\ Log \in Seq(Records)
      BY <1>12, <1>13, <1>14 DEF ReadsBack
    <3>3. CASE synced' = synced
      <4>1. SubSeq(current', 1, synced) = SubSeq(current, 1, synced)
        BY <1>0, <1>5
      <4>2. OnDisk' = OnDisk
        BY <1>2, <3>3, <4>1 DEF OnDisk
      <4>3. x \notin OnDisk
        <5>1. x \in Copies => x.seq < Len(Log)
          BY <1>8
        <5>2. OnDisk \in SUBSET Copies /\ Len(Log) \in Nat
          BY <1>1, <1>14 DEF ReadsBack
        <5> QED BY <1>4, <5>1, <5>2
      <4> QED BY <1>4, <3>1, <3>2, <4>2, <4>3, KeptGrows
    <3>4. CASE synced' = Len(current')
      <4>1. OnDisk \in SUBSET OnDisk'
        <5>1. Range(SubSeq(current, 1, synced)) \subseteq Range(current)
          BY <1>0 DEF Range
        <5>2. SubSeq(current', 1, synced') = current'
          BY <1>5, <3>4
        <5> QED BY <1>2, <1>5, <5>1, <5>2 DEF OnDisk
      <4>2. Durable' \in Durable..Len(Log')
        BY <1>4, <3>1, <3>2, <4>1, KeptGrows
      <4>3. ~Unfinished => Durable' = Len(Log')
        <5> HAVE ~Unfinished
        <5>1. OnDisk' = Copies'
          BY <1>7, <1>12, <3>4 DEF ReadsBack
        <5>2. \A i \in 1..Len(Log') : Log'[i] \in OnDisk'
          BY <1>12, <5>1 DEF ReadsBack, IsLog
        <5> QED BY <3>1, <3>2, <5>2, KeptAll
      <4> QED BY <4>2, <4>3 DEF J!Reached
    <3> QED BY <1>2, <3>3, <3>4
  <2>2. SubSeq(Log', 1, Len(Log)) = Log
    BY <1>14, <1>12 DEF ReadsBack
  <2> QED BY <1>7, <1>14, <2>1, <2>2 DEF JournalStep, J!Next, J!Append1
<1> QED BY <1>6, <1>11, <1>15, <1>16, <1>17 DEF AuditInv

(* Steps that leave the files alone but for a sync.                        *)
LEMMA QuietStep ==
  ASSUME AuditInv, TypeOK', UNCHANGED <<sealed, current, store, hashes>>,
         pc' = pc \/ (pc = "idle" /\ pc' = "idle"),
         synced' \in {synced, Len(current)}
  PROVE  AuditInv' /\ JournalStep
<1>1. ReadsBack
  BY LogReads DEF AuditInv
<1>2. current' = current /\ sealed' = sealed /\ Copies' = Copies /\ Unfinished' = Unfinished
  BY DEF Copies, Unfinished
<1>3. RecordsInv' /\ Log' = Log
  BY <1>2 DEF AuditInv, RecordsInv, Log
<1>4. ReadsBack'
  BY <1>3, LogWillRead
<1>5. current \in Seq(Records) /\ synced \in 0..Len(current)
  BY DEF AuditInv, TypeOK
<1>6. OnDisk \in SUBSET OnDisk'
  <2>1. Range(SubSeq(current, 1, synced)) \subseteq Range(current)
    BY <1>5 DEF Range
  <2>2. SubSeq(current, 1, Len(current)) = current
    BY <1>5
  <2> QED BY <1>2, <2>1, <2>2 DEF OnDisk
<1>7. JournalStep
  <2>1. CASE synced' = synced
    <3>1. OnDisk' = OnDisk
      BY <1>2, <2>1 DEF OnDisk
    <3> QED BY <1>2, <3>1, Stutters
  <2>2. CASE synced' = Len(current)
    BY <1>1, <1>2, <1>4, <1>6, <2>2, Syncs
  <2> QED BY <2>1, <2>2
<1>8. PlaceInv'
  BY <1>2, <1>3 DEF AuditInv, PlaceInv
<1>9. FilesInv'
  <2>1. \A f \in sealed : f.content = "open" => synced' = Len(current)
    BY DEF AuditInv, FilesInv
  <2>2. \A f \in sealed : f.content = "whole" =>
          \/ Apart(f.recs, current)
          \/ f.recs = current /\ synced' = Len(current) /\ pc \in {"down", "truncate"}
    BY DEF AuditInv, FilesInv
  <2> QED BY <1>2, <2>1, <2>2 DEF AuditInv, FilesInv
<1> QED BY <1>3, <1>7, <1>8, <1>9 DEF AuditInv

-----------------------------------------------------------------------------
(* Store::rotate.                                                          *)

(* There is a free name for one file more.                                 *)
LEMMA NameIsFree ==
  ASSUME TypeOK, FilesInv
  PROVE  /\ FreeName(date) \in Nat
         /\ \A f \in sealed : f.date = date => f.n # FreeName(date)
<1> DEFINE c == Cardinality(sealed)
           N == { n \in 0..c : \A f \in sealed : f.date = date => f.n # n }
           g == [ f \in sealed |-> IF f.n \in 0..c THEN f.n ELSE 0 ]
<1>1. IsFiniteSet(sealed) /\ c \in Nat
  BY FS_CardinalityType DEF FilesInv
<1>2. N # {}
  <2> SUFFICES ASSUME N = {} PROVE FALSE
    OBVIOUS
  <2>1. \A n \in 0..c : \E f \in sealed : f.n = n
    OBVIOUS
  <2>2. \A n \in 0..c : \E f \in sealed : g[f] = n
    BY <2>1
  <2>3. g \in [sealed -> 0..c]
    BY <1>1
  <2> HIDE DEF g
  <2>4. g \in Surjection(sealed, 0..c)
    BY <2>2, <2>3 DEF Surjection
  <2>5. Cardinality(0..c) <= c
    BY <1>1, <2>4, FS_Surjection
  <2>6. Cardinality(0..c) = c + 1
    BY <1>1, FS_Interval
  <2> QED BY <1>1, <2>5, <2>6
<1>3. N \in SUBSET Nat
  BY <1>1
<1>4. FreeName(date) \in N
  BY <1>2, <1>3, MinNat DEF FreeName
<1> QED BY <1>1, <1>4

(* The sealed file is created: it holds nothing yet that can be read.      *)
LEMMA CreateStep ==
  ASSUME AuditInv, CreateSealed
  PROVE  AuditInv' /\ JournalStep
<1> DEFINE f0 == [date |-> date, n |-> FreeName(date), recs |-> current,
                  content |-> "open", durable |-> FALSE]
<1>1. /\ pc = "seal" /\ pc' = "fill" /\ current' = current /\ synced' = Len(current)
      /\ sealed' = sealed \cup {f0} /\ since' = 0 /\ torn' = torn /\ store' = store
      /\ date' = date /\ hashes' = hashes /\ crashes' = crashes
  BY DEF CreateSealed, Synced
<1>2. /\ current \in Seq(Records) /\ synced \in 0..Len(current) /\ date \in 0..MaxDate
      /\ sealed \subseteq Segments /\ FsyncInterval \in Nat
  BY AuditAssumption DEF AuditInv, TypeOK
<1>3. f0 \in Segments /\ \A f \in sealed : f.date = f0.date => f.n # f0.n
  BY <1>2, NameIsFree DEF AuditInv, Segments
<1>4. f0.recs = current /\ f0.content = "open" /\ ~f0.durable /\ Recs(f0) = <<>>
  BY DEF Recs
<1> HIDE DEF f0
<1>5. TypeOK'
  BY <1>1, <1>2, <1>3 DEF AuditInv, TypeOK
<1>6. Copies' = Copies /\ Unfinished' = Unfinished
  <2>1. Range(<<>>) = {}
    BY DEF Range
  <2>2. Copies' = (UNION { Range(Recs(f)) : f \in sealed \cup {f0} }) \cup Range(current)
    BY <1>1 DEF Copies
  <2>3. UNION { Range(Recs(f)) : f \in sealed \cup {f0} } = UNION { Range(Recs(f)) : f \in sealed }
    BY <1>4, <2>1
  <2>4. Copies' = Copies
    BY <2>2, <2>3 DEF Copies
  <2> QED BY <1>1, <1>4, <2>4 DEF Unfinished
<1>7. RecordsInv' /\ Log' = Log
  BY <1>1, <1>6 DEF AuditInv, RecordsInv, Log
<1>8. OnDisk \in SUBSET OnDisk'
  <2>1. Range(SubSeq(current, 1, synced)) \subseteq Range(current)
    BY <1>2 DEF Range
  <2>2. SubSeq(current, 1, Len(current)) = current
    BY <1>2
  <2> QED BY <1>1, <2>1, <2>2 DEF OnDisk
<1>9. JournalStep
  <2>1. ReadsBack /\ ReadsBack'
    BY <1>5, <1>7, LogReads, LogWillRead DEF AuditInv
  <2> QED BY <1>1, <1>6, <1>8, <2>1, Syncs
<1>10. PlaceInv'
  BY <1>1, <1>6, <1>7 DEF AuditInv, PlaceInv
<1>11. FilesInv'
  <2>1. IsFiniteSet(sealed')
    BY <1>1, FS_AddElement DEF AuditInv, FilesInv
  <2>2. NamesDiffer(sealed')
    BY <1>1, <1>3 DEF AuditInv, FilesInv, NamesDiffer
  <2>3. \A f \in sealed : f.content # "open" /\ (f.content = "whole" => Apart(f.recs, current))
    BY <1>1 DEF AuditInv, FilesInv
  <2> QED BY <1>1, <1>4, <2>1, <2>2, <2>3 DEF FilesInv
<1> QED BY <1>5, <1>7, <1>9, <1>10, <1>11 DEF AuditInv

(* It is written and synced: a second copy of what is on disk already.     *)
LEMMA FillStep ==
  ASSUME AuditInv, FillSealed
  PROVE  AuditInv' /\ JournalStep
<1> DEFINE G(f) == IF f.content = "open"
                   THEN [f EXCEPT !.content = "whole", !.durable = TRUE] ELSE f
<1>1. /\ pc = "fill" /\ pc' = "truncate" /\ sealed' = { G(f) : f \in sealed }
      /\ current' = current /\ synced' = synced /\ torn' = torn /\ store' = store
      /\ date' = date /\ since' = since /\ hashes' = hashes /\ crashes' = crashes
  BY DEF FillSealed
<1>2. sealed \subseteq Segments /\ current \in Seq(Records) /\ synced \in 0..Len(current)
  BY DEF AuditInv, TypeOK
<1>3. \A f \in sealed :
        /\ f.content = "open" =>
             /\ G(f).content = "whole" /\ G(f).durable /\ G(f).recs = current
             /\ f.recs = current /\ ~f.durable /\ synced = Len(current) /\ Recs(f) = <<>>
        /\ f.content # "open" => G(f) = f
        /\ G(f) \in Segments /\ G(f).date = f.date /\ G(f).n = f.n /\ G(f).content # "open"
  BY <1>2 DEF AuditInv, FilesInv, Segments, Recs
<1>4. \E f \in sealed : f.content = "open"
  BY <1>1 DEF AuditInv, FilesInv
<1>5. IsFiniteSet(sealed')
  <2> DEFINE h == [ f \in sealed |-> G(f) ]
  <2>1. h \in Surjection(sealed, sealed')
    BY <1>1 DEF Surjection
  <2>2. IsFiniteSet(sealed)
    BY DEF AuditInv, FilesInv
  <2> QED BY <2>1, <2>2, FS_Surjection
<1> HIDE DEF G
<1>6. TypeOK'
  BY <1>1, <1>3 DEF AuditInv, TypeOK
<1>7. /\ Copies' = Copies /\ OnDisk' = OnDisk /\ Unfinished' = Unfinished
  <2>1. SubSeq(current, 1, Len(current)) = current /\ synced = Len(current) /\ Range(<<>>) = {}
    BY <1>2, <1>3, <1>4 DEF Range
  <2>2. \A f \in sealed : Range(Recs(G(f))) \subseteq Range(Recs(f)) \cup Range(current)
                         /\ Range(Recs(f)) \subseteq Range(Recs(G(f)))
    BY <1>3, <2>1 DEF Recs
  <2>3. Copies' = Copies
    <3>1. Copies' = (UNION { Range(Recs(f)) : f \in { G(g) : g \in sealed } }) \cup Range(current)
      BY <1>1 DEF Copies
    <3> QED BY <2>2, <3>1 DEF Copies
  <2>4. \A f \in sealed : /\ f.durable => G(f) = f
                          /\ G(f).durable => f.durable \/ Range(Recs(G(f))) \subseteq Range(current)
    BY <1>3 DEF Recs
  <2>5. OnDisk' = OnDisk
    <3>1. OnDisk' = (UNION { Range(Recs(f)) : f \in { s \in { G(g) : g \in sealed } : s.durable } })
                      \cup Range(current)
      BY <1>1, <2>1 DEF OnDisk
    <3>2. OnDisk = (UNION { Range(Recs(f)) : f \in { s \in sealed : s.durable } }) \cup Range(current)
      BY <2>1 DEF OnDisk
    <3>3. OnDisk' \subseteq OnDisk
      <4> SUFFICES ASSUME NEW g \in sealed, G(g).durable, NEW r \in Range(Recs(G(g)))
                   PROVE  r \in OnDisk
        BY <3>1, <3>2
      <4> QED BY <1>3, <2>4, <3>2
    <3>4. OnDisk \subseteq OnDisk'
      BY <2>4, <3>1, <3>2
    <3> QED BY <3>3, <3>4
  <2>6. Unfinished' = Unfinished
    <3>1. Unfinished' <=> \E g \in sealed : G(g).content = "whole" /\ ~G(g).durable
      BY <1>1 DEF Unfinished
    <3>2. Unfinished' <=> Unfinished
      BY <1>3, <3>1 DEF Unfinished
    <3> QED BY <3>2 DEF Unfinished
  <2> QED BY <2>3, <2>5, <2>6
<1>8. RecordsInv' /\ Log' = Log
  BY <1>1, <1>7 DEF AuditInv, RecordsInv, Log
<1>9. PlaceInv'
  BY <1>1, <1>7, <1>8 DEF AuditInv, PlaceInv
<1>10. FilesInv'
  <2>1. NamesDiffer(sealed')
    BY <1>1, <1>3 DEF AuditInv, FilesInv, NamesDiffer
  <2>2. \A f \in sealed' : f.content # "open"
    BY <1>1, <1>3
  <2>3. \A g \in sealed : G(g).content = "whole" =>
          \/ Apart(G(g).recs, current)
          \/ G(g).recs = current /\ synced = Len(current)
    BY <1>3 DEF AuditInv, FilesInv
  <2>4. \E g \in sealed : G(g).content = "whole" /\ G(g).durable /\ G(g).recs = current
    BY <1>3, <1>4
  <2> QED BY <1>1, <1>5, <2>1, <2>2, <2>3, <2>4 DEF FilesInv
<1>11. JournalStep
  BY <1>7, Stutters
<1> QED BY <1>6, <1>8, <1>9, <1>10, <1>11 DEF AuditInv

(* The open segment is emptied: the sealed copy is on disk.                *)
LEMMA TruncateStep ==
  ASSUME AuditInv, Truncate
  PROVE  AuditInv' /\ JournalStep
<1>1. /\ pc = "truncate" /\ pc' = "anchor" /\ current' = <<>> /\ synced' = 0 /\ torn' = torn
      /\ store' = [store EXCEPT !.written = 0] /\ sealed' = sealed
      /\ date' = date /\ since' = since /\ hashes' = hashes /\ crashes' = crashes
  BY DEF Truncate, EmptyAt
<1>2. /\ current \in Seq(Records) /\ synced \in 0..Len(current)
      /\ store \in [seq : Nat, head : Nat, written : Nat]
  BY DEF AuditInv, TypeOK
<1>3. PICK f \in sealed : f.content = "whole" /\ f.durable /\ f.recs = current
  BY <1>1 DEF AuditInv, FilesInv
<1>4. current' \in Seq(Records) /\ synced' \in 0..Len(current') /\ Range(current') = {}
      /\ SubSeq(current', 1, synced') = <<>> /\ Len(current') = 0
  BY <1>1 DEF Range
<1>5. TypeOK'
  BY <1>1, <1>2, <1>4 DEF AuditInv, TypeOK
<1>6. Range(current) = Range(Recs(f)) /\ Range(SubSeq(current, 1, synced)) \subseteq Range(current)
  BY <1>2, <1>3 DEF Recs, Range
<1>7. Copies' = Copies
  BY <1>1, <1>4, <1>6 DEF Copies
<1>8. OnDisk' = OnDisk
  <2>1. Range(<<>>) = {}
    BY DEF Range
  <2> QED BY <1>1, <1>3, <1>4, <1>6, <2>1 DEF OnDisk
<1>9. Unfinished' = Unfinished
  BY <1>1 DEF Unfinished
<1>10. RecordsInv' /\ Log' = Log
  <2>1. Run(current')
    BY <1>4 DEF Run
  <2> QED BY <1>1, <1>7, <2>1 DEF AuditInv, RecordsInv, Log
<1>11. PlaceInv'
  BY <1>1, <1>2, <1>4, <1>7, <1>10 DEF AuditInv, PlaceInv
<1>12. FilesInv'
  <2>1. \A g \in sealed : g.content = "whole" => Apart(g.recs, current')
    BY <1>4 DEF Apart
  <2>2. \A g \in sealed : g.content # "open"
    BY <1>1 DEF AuditInv, FilesInv
  <2> QED BY <1>1, <2>1, <2>2 DEF AuditInv, FilesInv
<1>13. JournalStep
  BY <1>7, <1>8, <1>9, Stutters
<1> QED BY <1>5, <1>10, <1>11, <1>12, <1>13 DEF AuditInv

-----------------------------------------------------------------------------
(* Store::open.                                                            *)

(* What a read of the files by name finds is what there is.                *)
LEMMA FilesAre ==
  ASSUME AuditInv
  PROVE  /\ SealedRecords \in Seq(Records) /\ current \in Seq(Records)
         /\ Range(SealedRecords) = UNION { Range(Recs(f)) : f \in sealed }
         /\ Files \in Seq(Records) /\ Range(Files) = Copies
         /\ Len(Files) = Len(SealedRecords) + Len(current)
         /\ \A i \in 1..Len(SealedRecords) : Files[i] = SealedRecords[i]
         /\ \A i \in 1..Len(current) : Files[Len(SealedRecords) + i] = current[i]
<1>1. SealedRecords \in Seq(Records) /\ current \in Seq(Records)
      /\ Range(SealedRecords) = UNION { Range(Recs(f)) : f \in sealed }
  BY ReadIs DEF SealedRecords, AuditInv, TypeOK, FilesInv
<1> DEFINE p == SealedRecords
           q == current
<1>2. /\ p \o q \in Seq(Records) /\ Len(p \o q) = Len(p) + Len(q)
      /\ \A i \in 1..Len(p) : (p \o q)[i] = p[i]
      /\ \A i \in 1..Len(q) : (p \o q)[Len(p) + i] = q[i]
      /\ Len(p) \in Nat /\ Len(q) \in Nat
  BY <1>1
<1>3. Range(p \o q) = Range(p) \cup Range(q)
  <2>1. \A i \in 1..(Len(p) + Len(q)) : i \in 1..Len(p) \/ (i - Len(p) \in 1..Len(q) /\ i = Len(p) + (i - Len(p)))
    BY <1>2
  <2>2. \A i \in 1..Len(q) : Len(p) + i \in 1..(Len(p) + Len(q))
    BY <1>2
  <2>3. \A i \in 1..Len(p) : i \in 1..(Len(p) + Len(q))
    BY <1>2
  <2>4. DOMAIN (p \o q) = 1..(Len(p) + Len(q)) /\ DOMAIN p = 1..Len(p) /\ DOMAIN q = 1..Len(q)
    BY <1>1, <1>2
  <2>5. Range(p \o q) \subseteq Range(p) \cup Range(q)
    <3> SUFFICES ASSUME NEW i \in 1..(Len(p) + Len(q)) PROVE (p \o q)[i] \in Range(p) \cup Range(q)
      BY <2>4 DEF Range
    <3>1. CASE i \in 1..Len(p)
      BY <1>2, <2>4, <3>1 DEF Range
    <3>2. CASE i \notin 1..Len(p)
      <4>1. i - Len(p) \in 1..Len(q) /\ (p \o q)[i] = q[i - Len(p)]
        BY <1>2, <2>1, <3>2
      <4> QED BY <2>4, <4>1 DEF Range
    <3> QED BY <3>1, <3>2
  <2>6. Range(p) \cup Range(q) \subseteq Range(p \o q)
    BY <1>2, <2>2, <2>3, <2>4 DEF Range
  <2> QED BY <2>5, <2>6
<1> QED BY <1>1, <1>2, <1>3 DEF Files, Copies

(* A daemon that may start reads one chain, and nothing twice.             *)
LEMMA StartStep ==
  ASSUME AuditInv, Start
  PROVE  AuditInv' /\ JournalStep
<1>1. /\ pc = "down" /\ pc' = "idle" /\ Verified(Files) = Len(Files)
      /\ store' = [seq |-> Len(Files), head |-> HeadOf(Files), written |-> Len(current)]
      /\ torn' = FALSE /\ synced' \in {synced, Len(current)} /\ since' = 0
      /\ sealed' = sealed /\ current' = current /\ date' = date /\ hashes' = hashes
      /\ crashes' = crashes
  BY DEF Start, Opened
<1>2. ReadsBack /\ current \in Seq(Records) /\ synced \in 0..Len(current)
  BY LogReads DEF AuditInv, TypeOK
<1>3. Chained(Files) /\ IsLog(Copies, Files)
  BY <1>1, FilesAre, AllVerified, ChainIsLog
<1>4. Files = Log
  BY <1>2, <1>3 DEF ReadsBack
<1>5. HeadOf(Files) \in Nat /\ Len(Files) \in Nat /\ Len(current) \in Nat
  <2>1. Files # <<>> => Files[Len(Files)] \in Records
    BY FilesAre
  <2>2. Files # <<>> => Last(Files).hash \in Nat
    BY <2>1 DEF Last, Records
  <2>3. HeadOf(Files) \in Nat
    BY <2>2 DEF HeadOf, Genesis
  <2>4. Files \in Seq(Records)
    BY FilesAre
  <2> QED BY <1>2, <2>3, <2>4
<1>6. TypeOK'
  <2>1. synced' \in 0..Len(current') /\ since' \in 0..FsyncInterval
    BY <1>1, <1>2, <1>5, AuditAssumption
  <2>2. store' \in [seq : Nat, head : Nat, written : Nat] /\ torn' \in BOOLEAN
    BY <1>1, <1>5
  <2>3. pc' \in {"down", "idle", "seal", "fill", "truncate", "anchor"}
    BY <1>1
  <2> QED BY <1>1, <2>1, <2>2, <2>3 DEF AuditInv, TypeOK
<1>7. Copies' = Copies /\ Unfinished' = Unfinished
  BY <1>1 DEF Copies, Unfinished
<1>8. RecordsInv' /\ Log' = Log
  BY <1>1, <1>7 DEF AuditInv, RecordsInv, Log
<1>9. PlaceInv'
  <2>1. Copies = Range(Log)
    BY <1>4, FilesAre
  <2>2. current # <<>> => current[Len(current)].seq = Len(Log) - 1
    <3> HAVE current # <<>>
    <3> DEFINE k == Len(current)
               n == Len(SealedRecords)
    <3>0. k \in 1..k /\ k \in Nat
      BY <1>2
    <3>1. k \in 1..k /\ Len(Files) = n + k /\ n \in Nat /\ Files[n + k] = current[k]
      BY <3>0, FilesAre
    <3>2. DOMAIN Files = 1..Len(Files)
      BY FilesAre
    <3> HIDE DEF k, n
    <3>3. n + k \in DOMAIN Files
      BY <3>0, <3>1, <3>2
    <3>4. Files[n + k].seq = (n + k) - 1
      BY <1>3, <3>3 DEF Chained, Chains
    <3> QED BY <1>4, <3>1, <3>4 DEF k
  <2> QED BY <1>1, <1>4, <1>7, <1>8, <2>1, <2>2 DEF PlaceInv
<1>10. FilesInv'
  <2>1. \A f \in sealed : f.content # "open"
    BY <1>1 DEF AuditInv, FilesInv
  <2>2. \A f \in sealed : f.content = "whole" => Apart(f.recs, current)
    <3> TAKE f \in sealed
    <3> HAVE f.content = "whole"
    <3>1. Range(f.recs) \subseteq Range(SealedRecords)
      BY FilesAre DEF Recs
    <3> SUFFICES ASSUME NEW r \in Range(f.recs), r \in Range(current) PROVE FALSE
      BY DEF Apart
    <3> DEFINE n == Len(SealedRecords)
    <3>2. /\ n \in Nat /\ DOMAIN Files = 1..(n + Len(current))
          /\ DOMAIN SealedRecords = 1..n /\ DOMAIN current = 1..Len(current) /\ Len(current) \in Nat
      BY FilesAre
    <3>3. PICK i \in 1..n : Files[i] = r
      <4>1. PICK i \in DOMAIN SealedRecords : SealedRecords[i] = r
        BY <3>1 DEF Range
      <4> QED BY <3>2, <4>1, FilesAre
    <3>4. PICK j \in 1..Len(current) : Files[n + j] = r
      <4>1. PICK j \in DOMAIN current : current[j] = r
        BY DEF Range
      <4> QED BY <3>2, <4>1, FilesAre
    <3> HIDE DEF n
    <3>5. i \in DOMAIN Files /\ n + j \in DOMAIN Files
      BY <3>2
    <3>6. r.seq = i - 1 /\ r.seq = (n + j) - 1
      BY <1>3, <3>3, <3>4, <3>5 DEF Chained, Chains
    <3> QED BY <3>2, <3>6
  <2> QED BY <1>1, <2>1, <2>2 DEF AuditInv, FilesInv
<1>11. JournalStep
  <2>1. CASE synced' = synced
    <3>1. OnDisk' = OnDisk
      BY <1>1, <2>1 DEF OnDisk
    <3> QED BY <1>7, <3>1, Stutters
  <2>2. CASE synced' = Len(current)
    <3>1. OnDisk \in SUBSET OnDisk'
      <4>1. Range(SubSeq(current, 1, synced)) \subseteq Range(current)
        BY <1>2 DEF Range
      <4>2. SubSeq(current, 1, Len(current)) = current
        BY <1>2
      <4> QED BY <1>1, <2>2, <4>1, <4>2 DEF OnDisk
    <3>2. ReadsBack'
      BY <1>6, <1>8, LogWillRead
    <3> QED BY <1>1, <1>2, <1>7, <2>2, <3>1, <3>2, Syncs
  <2> QED BY <1>1, <2>1, <2>2
<1> QED BY <1>6, <1>8, <1>9, <1>10, <1>11 DEF AuditInv

(* An open segment whose first record does not continue the sealed ones    *)
(* has nothing that verifies.                                              *)
LEMMA CutAtItsStart ==
  ASSUME AuditInv, SealedIntact, Verified(Files) < Len(Files)
  PROVE  /\ Verified(Files) = Len(SealedRecords) /\ current # <<>>
         /\ ~Chains(Files, Len(SealedRecords) + 1) /\ Chained(SealedRecords)
<1> DEFINE n == Len(SealedRecords)
           k == Verified(Files)
<1>1. /\ n \in Nat /\ Len(Files) = n + Len(current) /\ Len(current) \in Nat
      /\ DOMAIN Files = 1..(n + Len(current)) /\ DOMAIN SealedRecords = 1..n
  BY FilesAre
<1>2. Chained(SealedRecords)
  BY AllVerified, FilesAre DEF SealedIntact
<1>3. /\ k \in 0..(Len(Files) - 1) /\ ~Chains(Files, k + 1)
      /\ \A i \in 1..k : Chains(Files, i)
  BY VerifiedUpTo, FilesAre
<1> HIDE DEF k
<1>4. \A i \in 1..n : Chains(Files, i)
  <2> TAKE i \in 1..n
  <2>1. Chains(SealedRecords, i)
    BY <1>1, <1>2 DEF Chained
  <2>2. Files[i] = SealedRecords[i] /\ (i # 1 => Files[i-1] = SealedRecords[i-1])
    <3>1. i # 1 => i - 1 \in 1..n
      BY <1>1
    <3> QED BY <3>1, FilesAre
  <2> QED BY <2>1, <2>2 DEF Chains
<1>5. ~Chains(Files, n + 1)
  <2> SUFFICES ASSUME Chains(Files, n + 1) PROVE FALSE
    OBVIOUS
  <2>1. \A j \in 1..Len(current) : Chains(Files, n + j)
    <3> TAKE j \in 1..Len(current)
    <3>1. CASE j = 1
      BY <3>1
    <3>2. CASE j # 1
      <4> DEFINE a == current[j]
                 b == current[j-1]
      <4>1. 1 \in 1..Len(current) /\ j - 1 \in 1..Len(current)
        BY <1>1, <3>2
      <4>2. /\ Files[n + j] = a /\ Files[n + (j - 1)] = b /\ Files[n + 1] = current[1]
            /\ a \in Copies /\ b \in Copies
        <5>1. DOMAIN current = 1..Len(current)
          BY FilesAre
        <5> QED BY <4>1, <5>1, FilesAre DEF Copies, Range
      <4>3. a.seq = current[1].seq + (j - 1) /\ b.seq = current[1].seq + ((j - 1) - 1)
        BY <4>1 DEF AuditInv, RecordsInv, Run
      <4>4. current[1].seq = n
        BY <1>1, <4>2 DEF Chains
      <4> HIDE DEF a, b
      <4>5. a.seq = (n + j) - 1 /\ a.seq = b.seq + 1
        BY <1>1, <4>3, <4>4
      <4>6. a.prev = b.hash
        BY <4>2, <4>5 DEF AuditInv, RecordsInv, Linked
      <4>7. n + j # 1 /\ (n + j) - 1 = n + (j - 1)
        BY <1>1, <3>2
      <4> QED BY <4>2, <4>5, <4>6, <4>7 DEF Chains
    <3> QED BY <3>1, <3>2
  <2>2. k + 1 \in 1..n \/ (k + 1 - n \in 1..Len(current) /\ k + 1 = n + (k + 1 - n))
    BY <1>1, <1>3
  <2> QED BY <1>3, <1>4, <2>1, <2>2
<1>6. k = n
  <2>1. ~(k < n)
    <3>1. k < n => k + 1 \in 1..n
      BY <1>1, <1>3
    <3> QED BY <1>3, <1>4, <3>1
  <2>2. ~(n < k)
    <3>1. n < k => n + 1 \in 1..k
      BY <1>1, <1>3
    <3> QED BY <1>3, <1>5, <3>1
  <2>3. k \in Nat /\ n \in Nat
    BY <1>1, <1>3
  <2> QED BY <2>1, <2>2, <2>3
<1>7. current # <<>>
  BY <1>1, <1>3, <1>6
<1> QED BY <1>2, <1>5, <1>6, <1>7 DEF k

(* It is cut: its records are a sealed copy's, or were not in the log.     *)
LEMMA QuarantineStep ==
  ASSUME AuditInv, Quarantine
  PROVE  AuditInv' /\ JournalStep
<1> DEFINE n == Len(SealedRecords)
<1>1. /\ pc = "down" /\ SealedIntact /\ Verified(Files) < Len(Files)
      /\ current' = SubSeq(current, 1, Verified(Files) - n) /\ synced' = Len(current')
      /\ torn' = FALSE /\ sealed' = sealed /\ store' = store /\ pc' = pc /\ date' = date
      /\ since' = since /\ hashes' = hashes /\ crashes' = crashes
  BY DEF Quarantine
<1>2. /\ Verified(Files) = n /\ current # <<>> /\ ~Chains(Files, n + 1)
      /\ Chained(SealedRecords) /\ n \in Nat
  BY <1>1, CutAtItsStart, FilesAre
<1>3. /\ current' = <<>> /\ current' \in Seq(Records) /\ synced' = 0 /\ Range(current') = {}
      /\ SubSeq(current', 1, synced') = <<>> /\ Len(current') = 0
  <2>1. SubSeq(current, 1, 0) = <<>>
    BY FilesAre
  <2>2. current' = <<>>
    BY <1>1, <1>2, <2>1
  <2>3. Len(current') = 0 /\ Range(current') = {} /\ current' \in Seq(Records)
        /\ SubSeq(current', 1, 0) = <<>>
    BY <2>2 DEF Range
  <2> QED BY <1>1, <2>2, <2>3
<1>4. ReadsBack /\ current \in Seq(Records) /\ synced \in 0..Len(current)
  BY LogReads DEF AuditInv, TypeOK
<1>5. TypeOK'
  <2>1. synced' \in 0..Len(current')
    BY <1>3
  <2>2. torn' \in BOOLEAN
    BY <1>1
  <2> QED BY <1>1, <1>3, <2>1, <2>2 DEF AuditInv, TypeOK
<1>6. Copies' = Range(SealedRecords) /\ Copies' \subseteq Copies
  BY <1>1, <1>3, FilesAre DEF Copies
<1>7. RecordsInv'
  <2>1. Run(current')
    BY <1>3 DEF Run
  <2> QED BY <1>1, <1>6, <2>1 DEF AuditInv, RecordsInv, One, Linked, Below
<1>8. ReadsBack'
  BY <1>5, <1>7, LogWillRead
<1>9. OnDisk' \subseteq OnDisk /\ Unfinished' = Unfinished
  <2>1. Range(<<>>) = {}
    BY DEF Range
  <2>2. OnDisk' = UNION { Range(Recs(f)) : f \in { s \in sealed : s.durable } }
    BY <1>1, <1>3, <2>1 DEF OnDisk
  <2> QED BY <1>1, <2>2 DEF OnDisk, Unfinished
<1>10. PlaceInv'
  BY <1>1 DEF PlaceInv
<1>11. FilesInv'
  <2>1. \A g \in sealed : g.content = "whole" => Apart(g.recs, current')
    BY <1>3 DEF Apart
  <2>2. \A g \in sealed : g.content # "open"
    BY <1>1 DEF AuditInv, FilesInv
  <2> QED BY <1>1, <2>1, <2>2 DEF AuditInv, FilesInv
<1>12. ASSUME \E f \in sealed : f.content = "whole" /\ f.recs = current
       PROVE  JournalStep
  <2>1. PICK f \in sealed : f.content = "whole" /\ f.recs = current
    BY <1>12
  <2>2. Copies' = Copies
    BY <1>1, <1>3, <2>1 DEF Copies, Recs
  <2>3. Log' = Log
    BY <2>2 DEF Log
  <2>4. CASE ~Unfinished
    <3>1. f.durable
      BY <2>1, <2>4 DEF Unfinished
    <3>2. Range(SubSeq(current, 1, synced)) \subseteq Range(Recs(f))
      BY <1>4, <2>1 DEF Recs, Range
    <3>3. OnDisk \subseteq OnDisk'
      BY <1>1, <3>1, <3>2 DEF OnDisk
    <3>4. OnDisk' = OnDisk
      BY <1>9, <3>3
    <3> QED BY <1>9, <2>2, <3>4, Stutters
  <2>5. CASE Unfinished
    <3>1. Durable' = Kept(Log, OnDisk') /\ Durable = Kept(Log, OnDisk) /\ Log \in Seq(Records)
      BY <1>4, <2>3 DEF Durable, ReadsBack
    <3>2. Durable' <= Durable /\ Durable' \in 0..Len(Log) /\ Durable \in 0..Len(Log)
      BY <1>9, <3>1, KeptMore, KeptIs
    <3>3. Durable' \in 0..Durable
      BY <3>1, <3>2
    <3>4. J!Unsync
      BY <1>9, <2>3, <2>5, <3>3 DEF J!Unsync
    <3> QED BY <3>4 DEF JournalStep, J!Next
  <2> QED BY <2>4, <2>5
<1>13. ASSUME ~\E f \in sealed : f.content = "whole" /\ f.recs = current
       PROVE  JournalStep
  <2>1. Range(SealedRecords) \cap Range(current) = {}
    <3>1. \A f \in sealed : Range(Recs(f)) \cap Range(current) = {}
      <4> TAKE f \in sealed
      <4>1. CASE f.content = "whole"
        BY <1>13, <4>1 DEF AuditInv, FilesInv, Apart, Recs
      <4>2. CASE f.content # "whole"
        BY <4>2 DEF Recs, Range
      <4> QED BY <4>1, <4>2
    <3> QED BY <3>1, FilesAre
  <2>2. IsLog(Copies', SealedRecords)
    BY <1>2, <1>6, FilesAre, ChainIsLog
  <2>3. \A r \in Range(current) : r.seq # n
    <3> DEFINE s == current[1]
    <3>1. 1 \in 1..Len(current) /\ DOMAIN current = 1..Len(current) /\ s \in Records
      BY <1>2, <1>4
    <3>2. s \in Range(current) /\ s \in Copies /\ s.seq \in Nat /\ Files[n + 1] = s
      BY <3>1, FilesAre DEF Copies, Range, Records
    <3> HIDE DEF s
    <3>3. /\ DOMAIN SealedRecords = 1..n /\ DOMAIN Files = 1..Len(Files)
          /\ \A i \in 1..n : SealedRecords[i] \in Range(SealedRecords)
                             /\ SealedRecords[i] \in Copies /\ SealedRecords[i].seq = i - 1
                             /\ Files[i] = SealedRecords[i]
      <4>1. DOMAIN SealedRecords = 1..n /\ DOMAIN Files = 1..Len(Files)
        BY FilesAre
      <4> QED BY <1>2, <1>6, <4>1, FilesAre DEF Chained, Chains, Range
    <3>4. ~(s.seq < n)
      <4> SUFFICES ASSUME s.seq < n PROVE FALSE
        OBVIOUS
      <4>1. s.seq + 1 \in 1..n
        BY <1>2, <3>2
      <4>2. SealedRecords[s.seq + 1].seq = s.seq
        BY <1>2, <3>2, <3>3, <4>1
      <4>3. SealedRecords[s.seq + 1] = s
        BY <3>2, <3>3, <4>1, <4>2 DEF AuditInv, RecordsInv, One
      <4> QED BY <2>1, <3>2, <3>3, <4>1, <4>3
    <3>5. s.seq # n
      <4> SUFFICES ASSUME s.seq = n PROVE FALSE
        OBVIOUS
      <4>1. CASE n = 0
        <5>1. s.prev = Genesis
          BY <3>2, <4>1 DEF AuditInv, RecordsInv, Linked
        <5> QED BY <1>2, <3>2, <4>1, <5>1 DEF Chains
      <4>2. CASE n # 0
        <5>1. n \in 1..n /\ n + 1 # 1 /\ (n + 1) - 1 = n
          BY <1>2, <4>2
        <5> DEFINE z == SealedRecords[n]
        <5>2. z \in Copies /\ s.seq = z.seq + 1 /\ Files[n] = z
          BY <1>2, <3>3, <5>1
        <5>3. s.prev = z.hash
          BY <3>2, <5>2 DEF AuditInv, RecordsInv, Linked
        <5> QED BY <1>2, <3>2, <5>1, <5>2, <5>3 DEF Chains
      <4> QED BY <4>1, <4>2
    <3>6. \A i \in 1..Len(current) : current[i].seq = s.seq + (i - 1)
      BY DEF AuditInv, RecordsInv, Run, s
    <3>7. \A i \in 1..Len(current) : current[i].seq # n
      BY <1>2, <3>2, <3>4, <3>5, <3>6
    <3> QED BY <3>1, <3>7 DEF Range
  <2>4. IsLog(Copies, SealedRecords)
    <3>1. Copies = Copies' \cup Range(current)
      BY <1>6, FilesAre DEF Copies
    <3> QED BY <2>2, <2>3, <3>1 DEF IsLog
  <2>5. Log' = Log /\ Log = SealedRecords
    BY <1>4, <1>8, <2>2, <2>4 DEF ReadsBack
  <2>6. Durable' = Durable
    <3> DEFINE E == OnDisk'
    <3>1. \A i \in 1..Len(Log) : Log[i] \in Range(SealedRecords)
      <4>1. DOMAIN Log = 1..Len(Log)
        BY <2>5, FilesAre
      <4> QED BY <2>5, <4>1 DEF Range
    <3>2. \A r \in OnDisk : r \notin Range(current) => r \in E
      <4>1. Range(SubSeq(current, 1, synced)) \subseteq Range(current)
        BY <1>4 DEF Range
      <4> QED BY <1>1, <4>1 DEF OnDisk
    <3>3. \A i \in 1..Len(Log) : Log[i] \in OnDisk => Log[i] \in E
      BY <2>1, <3>1, <3>2
    <3>4. \A i \in 1..Len(Log) : Log[i] \in E => Log[i] \in OnDisk
      BY <1>9
    <3>5. Log \in Seq(Records) /\ Durable = Kept(Log, OnDisk) /\ Durable' = Kept(Log, E)
      BY <1>4, <2>5 DEF Durable, ReadsBack
    <3> HIDE DEF E
    <3>6. Kept(Log, E) = Kept(Log, OnDisk)
      <4> DEFINE a == Kept(Log, E)
                 b == Kept(Log, OnDisk)
      <4>1. a <= b /\ b <= a /\ a \in 0..Len(Log) /\ b \in 0..Len(Log)
        BY <3>3, <3>4, <3>5, KeptMore, KeptIs
      <4>2. Len(Log) \in Nat
        BY <3>5
      <4> HIDE DEF a, b
      <4>3. a = b
        BY <4>1, <4>2
      <4> QED BY <4>3 DEF a, b
    <3> QED BY <3>5, <3>6
  <2> QED BY <1>9, <2>5, <2>6 DEF JournalStep, J!jvars
<1> QED BY <1>5, <1>7, <1>10, <1>11, <1>12, <1>13 DEF AuditInv

-----------------------------------------------------------------------------
(* Crashes.                                                                *)

(* What a crash leaves of the sealed files.                                *)
LEMMA CrashFiles ==
  ASSUME AuditInv, NEW power \in BOOLEAN, Crash(power)
  PROVE  /\ sealed' \in SUBSET Segments /\ IsFiniteSet(sealed') /\ NamesDiffer(sealed')
         /\ \A f \in sealed' :
              /\ f.content # "open"
              /\ power => f.durable
              /\ f.content = "whole" =>
                   \E g \in sealed : /\ g.recs = f.recs /\ g.content \in {"whole", "open"}
                                     /\ f.durable => power \/ g = f
         /\ \A g \in sealed :
              /\ g.durable => g \in sealed'
              /\ ~power /\ g.content = "whole" => g \in sealed'
<1>1. sealed \in SUBSET Segments /\ IsFiniteSet(sealed) /\ NamesDiffer(sealed)
  BY DEF AuditInv, TypeOK, FilesInv
<1>2. PICK fate \in [Loose(power) -> {"absent", "part", "whole"}] :
        /\ \A f \in Loose(power) : fate[f] \in Fates(f, power)
        /\ sealed' = (sealed \ Loose(power)) \cup
             { Settled(f, fate[f], power) : f \in { g \in Loose(power) : fate[g] # "absent" } }
  BY DEF Crash
<1> DEFINE Left == { g \in Loose(power) : fate[g] # "absent" }
           To(g) == IF g \in Left THEN Settled(g, fate[g], power) ELSE g
           Some == (sealed \ Loose(power)) \cup Left
<1>3. Loose(power) \in SUBSET sealed /\ Some \in SUBSET sealed /\ Left \in SUBSET Loose(power)
  BY DEF Loose
<1>4. sealed' = { To(g) : g \in Some }
  BY <1>2, <1>3
<1>5. \A g \in Left :
        LET f == Settled(g, fate[g], power)
        IN  /\ f \in Segments /\ f.date = g.date /\ f.n = g.n /\ f.recs = g.recs
            /\ f.content \in {"part", "whole"} /\ f.durable = power
            /\ f.content = "whole" => g.content \in {"whole", "open"}
  <2> TAKE g \in Left
  <2>1. g \in Segments /\ fate[g] \in {"part", "whole"} /\ fate[g] \in Fates(g, power)
    BY <1>1, <1>2, <1>3
  <2>2. fate[g] = "whole" => g.content # "part"
    BY <2>1 DEF Fates
  <2> QED BY <2>1, <2>2 DEF Settled, Segments
<1> HIDE DEF Left
<1>6. \A g \in Some : To(g) \in Segments /\ To(g).date = g.date /\ To(g).n = g.n
  BY <1>1, <1>3, <1>5
<1>7. IsFiniteSet(sealed')
  <2>1. IsFiniteSet(Some)
    BY <1>1, <1>3, FS_Subset
  <2> DEFINE h == [ g \in Some |-> To(g) ]
  <2>2. h \in Surjection(Some, sealed')
    BY <1>4 DEF Surjection
  <2> QED BY <2>1, <2>2, FS_Surjection
<1>8. NamesDiffer(sealed')
  BY <1>1, <1>3, <1>4, <1>6 DEF NamesDiffer
<1>9. \A g \in sealed : g.content = "open" => ~g.durable
  BY DEF AuditInv, FilesInv
<1>10. \A g \in Some : /\ To(g).content # "open"
                       /\ power => To(g).durable
                       /\ To(g).content = "whole" =>
                            /\ g.recs = To(g).recs /\ g.content \in {"whole", "open"}
                            /\ To(g).durable => power \/ g = To(g)
  <2> TAKE g \in Some
  <2>1. CASE g \in Left
    BY <1>5, <2>1
  <2>2. CASE g \notin Left
    <3>1. To(g) = g /\ g \in sealed /\ g \notin Loose(power)
      BY <2>2
    <3>2. (power => g.durable) /\ (~power => g.content # "open")
      BY <3>1 DEF Loose
    <3> QED BY <1>9, <3>1, <3>2
  <2> QED BY <2>1, <2>2
<1>11. \A g \in sealed : /\ g.durable => g \notin Loose(power)
                         /\ ~power /\ g.content = "whole" => g \notin Loose(power)
  BY <1>9 DEF Loose
<1>12. \A g \in sealed : g \notin Loose(power) => g \in sealed'
  BY <1>2
<1>13. sealed' \in SUBSET Segments
  BY <1>4, <1>6
<1>14. \A f \in sealed' :
         /\ f.content # "open"
         /\ power => f.durable
         /\ f.content = "whole" =>
              \E g \in sealed : /\ g.recs = f.recs /\ g.content \in {"whole", "open"}
                                /\ f.durable => power \/ g = f
  <2> TAKE f \in sealed'
  <2>1. PICK g \in Some : f = To(g)
    BY <1>4
  <2>2. g \in sealed
    BY <1>3
  <2> HIDE DEF To, Some
  <2> QED BY <1>10, <2>1, <2>2
<1> QED BY <1>7, <1>8, <1>11, <1>12, <1>13, <1>14

(* The rest of what any crash does, given the records it leaves.           *)
LEMMA CrashType ==
  ASSUME AuditInv, NEW power \in BOOLEAN, Crash(power),
         current' \in Seq(Records), synced' \in 0..Len(current')
  PROVE  TypeOK' /\ pc' = "down" /\ hashes' = hashes
<1>1. /\ crashes < MaxCrashes /\ crashes' = crashes + 1 /\ pc' = "down"
      /\ store' = [seq |-> 0, head |-> Genesis, written |-> 0] /\ torn' \in {torn, TRUE}
      /\ date' = date /\ since' = since /\ hashes' = hashes
  BY DEF Crash
<1>2. crashes' \in 0..MaxCrashes
  BY <1>1, AuditAssumption DEF AuditInv, TypeOK
<1>3. store' \in [seq : Nat, head : Nat, written : Nat]
  BY <1>1 DEF Genesis
<1>4. torn' \in BOOLEAN
  BY <1>1 DEF AuditInv, TypeOK
<1>5. pc' \in {"down", "idle", "seal", "fill", "truncate", "anchor"}
  BY <1>1
<1>6. sealed' \in SUBSET Segments
  BY CrashFiles
<1> QED BY <1>1, <1>2, <1>3, <1>4, <1>5, <1>6 DEF AuditInv, TypeOK

(* The process alone: every record stays, and what is on disk.             *)
LEMMA DeathStep ==
  ASSUME AuditInv, ProcessDies
  PROVE  AuditInv' /\ JournalStep
<1>1. Crash(FALSE) /\ current' = current /\ synced' = synced /\ FALSE \in BOOLEAN
  BY DEF ProcessDies
<1>2. ReadsBack /\ current \in Seq(Records) /\ synced \in 0..Len(current)
  BY LogReads DEF AuditInv, TypeOK
<1>3. TypeOK' /\ pc' = "down" /\ hashes' = hashes
  BY <1>1, <1>2, CrashType
<1>4. /\ IsFiniteSet(sealed') /\ NamesDiffer(sealed')
      /\ \A f \in sealed' :
           /\ f.content # "open"
           /\ f.content = "whole" =>
                \E g \in sealed : /\ g.recs = f.recs /\ g.content \in {"whole", "open"}
                                  /\ f.durable => g = f
      /\ \A g \in sealed : g.durable \/ g.content = "whole" => g \in sealed'
  <2>1. /\ IsFiniteSet(sealed') /\ NamesDiffer(sealed')
        /\ \A f \in sealed' :
             /\ f.content # "open"
             /\ f.content = "whole" =>
                  \E g \in sealed : /\ g.recs = f.recs /\ g.content \in {"whole", "open"}
                                    /\ f.durable => FALSE \/ g = f
        /\ \A g \in sealed :
             /\ g.durable => g \in sealed'
             /\ ~FALSE /\ g.content = "whole" => g \in sealed'
    BY <1>1, CrashFiles
  <2> QED BY <2>1
<1>5. \A g \in sealed :
        g.content = "open" => g.recs = current /\ ~g.durable /\ synced = Len(current)
  BY DEF AuditInv, FilesInv
<1>6. Range(<<>>) = {}
  BY DEF Range
<1>7. Copies' = Copies
  <2>1. \A f \in sealed' : Range(Recs(f)) \subseteq Copies
    <3> TAKE f \in sealed'
    <3>1. CASE f.content = "whole"
      <4>1. PICK g \in sealed : g.recs = f.recs /\ g.content \in {"whole", "open"}
        BY <1>4, <3>1
      <4>2. Range(f.recs) \subseteq Range(Recs(g)) \cup Range(current)
        BY <1>5, <4>1 DEF Recs
      <4> QED BY <3>1, <4>2 DEF Copies, Recs
    <3>2. CASE f.content # "whole"
      BY <1>6, <3>2 DEF Recs
    <3> QED BY <3>1, <3>2
  <2>2. \A g \in sealed : Range(Recs(g)) \subseteq Copies'
    <3> TAKE g \in sealed
    <3>1. g.content = "whole" => g \in sealed'
      BY <1>4
    <3>2. g.content # "whole" => Range(Recs(g)) = {}
      BY <1>6 DEF Recs
    <3> QED BY <3>1, <3>2 DEF Copies
  <2>3. Range(current) \subseteq Copies /\ Range(current) \subseteq Copies'
    BY <1>1 DEF Copies
  <2>4. Copies' \subseteq Copies
    BY <1>1, <2>1, <2>3 DEF Copies
  <2>5. Copies \subseteq Copies'
    BY <2>2, <2>3 DEF Copies
  <2> QED BY <2>4, <2>5
<1>8. OnDisk' = OnDisk
  <2>1. \A f \in sealed' : f.durable => f \in sealed \/ Recs(f) = <<>>
    BY <1>4 DEF Recs
  <2>2. \A g \in sealed : g.durable => g \in sealed'
    BY <1>4
  <2>3. OnDisk' \subseteq OnDisk
    BY <1>1, <1>6, <2>1 DEF OnDisk
  <2>4. OnDisk \subseteq OnDisk'
    BY <1>1, <2>2 DEF OnDisk
  <2> QED BY <2>3, <2>4
<1>9. RecordsInv' /\ Log' = Log
  BY <1>1, <1>3, <1>7 DEF AuditInv, RecordsInv, Log
<1>10. PlaceInv'
  BY <1>3 DEF PlaceInv
<1>11. FilesInv'
  <2>1. \A f \in sealed' : f.content = "whole" =>
          \/ Apart(f.recs, current)
          \/ f.recs = current /\ synced = Len(current)
    <3> TAKE f \in sealed'
    <3> HAVE f.content = "whole"
    <3>1. PICK g \in sealed : g.recs = f.recs /\ g.content \in {"whole", "open"}
      BY <1>4
    <3> QED BY <1>5, <3>1 DEF AuditInv, FilesInv
  <2> QED BY <1>1, <1>3, <1>4, <2>1 DEF FilesInv
<1>12. JournalStep
  <2>1. Log \in Seq(Records) /\ Durable \in 0..Len(Log) /\ Durable' = Durable
    BY <1>2, <1>8, <1>9, KeptIs DEF ReadsBack, Durable
  <2>2. Len(Log) \in Durable..Len(Log) /\ SubSeq(Log, 1, Len(Log)) = Log
    BY <2>1
  <2>3. Unfinished' \in BOOLEAN
    BY DEF Unfinished
  <2>4. J!Lose
    BY <1>9, <2>1, <2>2, <2>3 DEF J!Lose
  <2> QED BY <2>4 DEF JournalStep, J!Next
<1> QED BY <1>3, <1>9, <1>10, <1>11, <1>12 DEF AuditInv

(* The power: what is left was on disk or is now, and ends the log early.  *)
LEMMA PowerStep ==
  ASSUME AuditInv, PowerLoss
  PROVE  AuditInv' /\ JournalStep
<1>1. Crash(TRUE) /\ TRUE \in BOOLEAN
  BY DEF PowerLoss
<1>2. PICK n \in synced..Len(current) : current' = SubSeq(current, 1, n) /\ synced' = n
  BY DEF PowerLoss
<1>3. ReadsBack /\ current \in Seq(Records) /\ synced \in 0..Len(current)
  BY LogReads DEF AuditInv, TypeOK
<1>4. /\ n \in 0..Len(current) /\ current' \in Seq(Records) /\ Len(current') = n
      /\ \A i \in 1..n : current'[i] = current[i]
      /\ n = Len(current) => current' = current
  BY <1>2, <1>3
<1>5. TypeOK' /\ pc' = "down" /\ hashes' = hashes
  <2>1. synced' \in 0..Len(current')
    BY <1>2, <1>4
  <2> QED BY <1>1, <1>4, <2>1, CrashType
<1>6. /\ IsFiniteSet(sealed') /\ NamesDiffer(sealed')
      /\ \A f \in sealed' :
           /\ f.content # "open" /\ f.durable
           /\ f.content = "whole" =>
                \E g \in sealed : g.recs = f.recs /\ g.content \in {"whole", "open"}
      /\ \A g \in sealed : g.durable => g \in sealed'
  BY <1>1, CrashFiles
<1>7. \A g \in sealed :
        g.content = "open" => g.recs = current /\ ~g.durable /\ synced = Len(current)
  BY DEF AuditInv, FilesInv
<1>8. Range(<<>>) = {}
  BY DEF Range
<1>9. /\ Range(current') \subseteq Range(current)
      /\ Range(SubSeq(current, 1, synced)) \subseteq Range(current')
  <2>1. DOMAIN current' = 1..n /\ DOMAIN current = 1..Len(current)
    BY <1>3, <1>4
  <2>2. \A i \in 1..n : i \in 1..Len(current)
    BY <1>3, <1>4
  <2>3. synced \in 0..n /\ n \in Nat
    BY <1>2, <1>3
  <2>4. /\ DOMAIN SubSeq(current, 1, synced) = 1..synced
        /\ \A i \in 1..synced : SubSeq(current, 1, synced)[i] = current[i] /\ i \in 1..n
    BY <1>3, <2>3
  <2> QED BY <1>4, <2>1, <2>2, <2>4 DEF Range
<1>10. Copies' \subseteq Copies
  <2>1. \A f \in sealed' : Range(Recs(f)) \subseteq Copies
    <3> TAKE f \in sealed'
    <3>1. CASE f.content = "whole"
      <4>1. PICK g \in sealed : g.recs = f.recs /\ g.content \in {"whole", "open"}
        BY <1>6, <3>1
      <4>2. Range(f.recs) \subseteq Range(Recs(g)) \cup Range(current)
        BY <1>7, <4>1 DEF Recs
      <4> QED BY <3>1, <4>2 DEF Copies, Recs
    <3>2. CASE f.content # "whole"
      BY <1>8, <3>2 DEF Recs
    <3> QED BY <3>1, <3>2
  <2>2. Range(current) \subseteq Copies
    BY DEF Copies
  <2> QED BY <1>9, <2>1, <2>2 DEF Copies
<1>11. OnDisk \subseteq Copies'
  <2>1. \A g \in sealed : g.durable => Range(Recs(g)) \subseteq Copies'
    BY <1>6 DEF Copies
  <2>2. Range(current') \subseteq Copies'
    BY DEF Copies
  <2> QED BY <1>9, <2>1, <2>2 DEF OnDisk
<1>12. Unfinished' = FALSE
  <2>1. ~Unfinished'
    BY <1>6 DEF Unfinished
  <2> QED BY <2>1 DEF Unfinished
<1>13. RecordsInv'
  <2>1. Run(current')
    <3> SUFFICES ASSUME NEW i \in 1..n PROVE current'[i].seq = current'[1].seq + (i - 1)
      BY <1>4 DEF Run
    <3>1. 1 \in 1..n /\ i \in 1..Len(current)
      BY <1>3, <1>4
    <3> QED BY <1>4, <3>1 DEF AuditInv, RecordsInv, Run
  <2> QED BY <1>5, <1>10, <2>1 DEF AuditInv, RecordsInv, One, Linked, Below
<1>14. ReadsBack'
  BY <1>5, <1>13, LogWillRead
<1>15. PlaceInv'
  BY <1>5 DEF PlaceInv
<1>16. FilesInv'
  <2>1. \A f \in sealed' : f.content = "whole" =>
          \/ Apart(f.recs, current')
          \/ f.recs = current' /\ synced' = Len(current')
    <3> TAKE f \in sealed'
    <3> HAVE f.content = "whole"
    <3>1. PICK g \in sealed : g.recs = f.recs /\ g.content \in {"whole", "open"}
      BY <1>6
    <3>2. Apart(f.recs, current) \/ (f.recs = current /\ synced = Len(current))
      BY <1>7, <3>1 DEF AuditInv, FilesInv
    <3>3. CASE Apart(f.recs, current)
      BY <1>9, <3>3 DEF Apart
    <3>4. CASE f.recs = current /\ synced = Len(current)
      <4>1. n = Len(current)
        BY <1>2, <1>3, <3>4
      <4> QED BY <1>2, <1>4, <3>4, <4>1
    <3> QED BY <3>2, <3>3, <3>4
  <2> QED BY <1>5, <1>6, <2>1 DEF FilesInv
<1>17. JournalStep
  <2> DEFINE m == Len(Log')
             d == Durable
  <2>1. Log \in Seq(Records) /\ Log' \in Seq(Records) /\ IsLog(Copies, Log) /\ IsLog(Copies', Log')
    BY <1>3, <1>14 DEF ReadsBack
  <2>2. m \in 0..Len(Log) /\ Log' = SubSeq(Log, 1, m)
    BY <1>3, <1>10, <2>1, LogShrinks DEF AuditInv, RecordsInv, ReadsBack
  <2>3. d \in 0..Len(Log) /\ \A i \in 1..d : Log[i] \in OnDisk
    BY <2>1, KeptIs DEF Durable
  <2>4. Durable' = m
    <3>1. OnDisk' = Copies'
      BY <1>2, <1>4, <1>12, <1>14 DEF ReadsBack
    <3>2. \A i \in 1..Len(Log') : Log'[i] \in OnDisk'
      BY <2>1, <3>1 DEF IsLog
    <3> QED BY <2>1, <3>2, KeptAll DEF Durable
  <2> HIDE DEF m, d
  <2>5. ~(m < d)
    <3> SUFFICES ASSUME m < d PROVE FALSE
      OBVIOUS
    <3>1. m + 1 \in 1..d /\ m + 1 \in 1..Len(Log)
      BY <2>2, <2>3
    <3>2. Log[m + 1] \in Copies' /\ Log[m + 1].seq = m
      BY <1>11, <2>1, <2>2, <2>3, <3>1 DEF IsLog
    <3> QED BY <2>1, <3>2 DEF IsLog, m
  <2>6. m \in d..Len(Log)
    BY <2>2, <2>3, <2>5
  <2>7. J!Lose
    BY <1>12, <2>2, <2>4, <2>6 DEF J!Lose, d
  <2> QED BY <2>7 DEF JournalStep, J!Next
<1> QED BY <1>5, <1>13, <1>15, <1>16, <1>17 DEF AuditInv

-----------------------------------------------------------------------------
(* Every step, and the theorems.                                           *)

LEMMA AuditStep ==
  ASSUME AuditInv, [Next]_vars
  PROVE  AuditInv' /\ JournalStep
<1>1. CASE Start
  BY <1>1, StartStep
<1>2. CASE Quarantine
  BY <1>2, QuarantineStep
<1>3. CASE AppendOne
  BY <1>3, AppendStep DEF AppendOne
<1>4. CASE WriteAnchor
  BY <1>4, AppendStep DEF WriteAnchor
<1>5. CASE CreateSealed
  BY <1>5, CreateStep
<1>6. CASE FillSealed
  BY <1>6, FillStep
<1>7. CASE Truncate
  BY <1>7, TruncateStep
<1>8. CASE ProcessDies
  BY <1>8, DeathStep
<1>9. CASE PowerLoss
  BY <1>9, PowerStep
<1>10. CASE SyncNow
  <2>1. /\ UNCHANGED <<sealed, current, store, hashes>> /\ pc' = pc /\ synced' = Len(current)
        /\ since' = 0 /\ torn' = torn /\ date' = date /\ crashes' = crashes
    BY <1>10 DEF SyncNow, Synced
  <2>2. Len(current) \in 0..Len(current) /\ 0 \in 0..FsyncInterval
    BY AuditAssumption DEF AuditInv, TypeOK
  <2>3. TypeOK'
    BY <2>1, <2>2 DEF AuditInv, TypeOK
  <2> QED BY <2>1, <2>3, QuietStep
<1>11. CASE Tick
  <2>1. /\ UNCHANGED <<sealed, current, store, hashes>> /\ pc' = pc /\ synced' = synced
        /\ since' = since + 1 /\ ~(since >= FsyncInterval)
        /\ torn' = torn /\ date' = date /\ crashes' = crashes
    BY <1>11 DEF Tick, SyncDue
  <2>2. since' \in 0..FsyncInterval
    BY <2>1, AuditAssumption DEF AuditInv, TypeOK
  <2>3. TypeOK'
    BY <2>1, <2>2 DEF AuditInv, TypeOK
  <2> QED BY <2>1, <2>3, QuietStep
<1>12. CASE NewDate
  <2>1. /\ UNCHANGED <<sealed, current, store, hashes>> /\ pc' = pc /\ synced' = synced
        /\ since' = since /\ torn' = torn /\ date' \in 0..MaxDate /\ crashes' = crashes
    BY <1>12 DEF NewDate
  <2>2. TypeOK'
    BY <2>1 DEF AuditInv, TypeOK
  <2> QED BY <2>1, <2>2, QuietStep
<1>13. CASE UNCHANGED vars
  <2>1. /\ UNCHANGED <<sealed, current, store, hashes>> /\ pc' = pc /\ synced' = synced
        /\ since' = since /\ torn' = torn /\ date' = date /\ crashes' = crashes
    BY <1>13 DEF vars
  <2>2. TypeOK'
    BY <2>1 DEF AuditInv, TypeOK
  <2> QED BY <2>1, <2>2, QuietStep
<1> QED
  BY <1>1, <1>2, <1>3, <1>4, <1>5, <1>6, <1>7, <1>8, <1>9, <1>10, <1>11, <1>12, <1>13
  DEF Next, Opening, Rotation

LEMMA AuditInit == Init => AuditInv /\ J!Init
<1> SUFFICES ASSUME Init PROVE AuditInv /\ J!Init
  OBVIOUS
<1>1. /\ sealed = {} /\ current = <<>> /\ synced = 0 /\ torn = FALSE
      /\ store = [seq |-> 0, head |-> Genesis, written |-> 0]
      /\ pc = "down" /\ date = 0 /\ since = 0 /\ hashes = 0 /\ crashes = 0
  BY DEF Init
<1>2. Len(<<>>) = 0 /\ <<>> \in Seq(Records) /\ Range(<<>>) = {}
  BY DEF Range
<1>3. TypeOK
  <2>1. store \in [seq : Nat, head : Nat, written : Nat]
    BY <1>1 DEF Genesis
  <2>2. date \in 0..MaxDate /\ hashes \in 0..MaxHash /\ since \in 0..FsyncInterval
        /\ crashes \in 0..MaxCrashes /\ synced \in 0..Len(current) /\ current \in Seq(Records)
    BY <1>1, <1>2, AuditAssumption
  <2>3. torn \in BOOLEAN
    BY <1>1
  <2> QED BY <1>1, <2>1, <2>2, <2>3 DEF TypeOK
<1>4. FilesInv
  BY <1>1, FS_EmptySet DEF FilesInv, NamesDiffer
<1>5. Copies = {} /\ ~Unfinished
  BY <1>1, <1>2 DEF Copies, Unfinished
<1>6. RecordsInv
  BY <1>1, <1>2, <1>5 DEF RecordsInv, One, Linked, Below, Run
<1>7. PlaceInv
  BY <1>1 DEF PlaceInv
<1>8. Log = <<>>
  <2>1. IsLog(Copies, <<>>)
    BY <1>2, <1>5 DEF IsLog
  <2> QED BY <1>3, <1>6, <2>1, LogReads DEF ReadsBack
<1>9. Durable = 0
  <2>1. Kept(<<>>, OnDisk) \in 0..0
    BY <1>2, KeptIs
  <2> QED BY <1>8, <2>1 DEF Durable
<1>10. Unfinished = FALSE
  BY <1>5 DEF Unfinished
<1> QED BY <1>3, <1>4, <1>6, <1>7, <1>8, <1>9, <1>10 DEF AuditInv, J!Init

LEMMA AuditAlways == Spec => []AuditInv
<1>1. Init => AuditInv
  BY AuditInit
<1>2. AuditInv /\ [Next]_vars => AuditInv'
  BY AuditStep
<1> QED BY <1>1, <1>2, PTL DEF Spec

(* While the daemon runs, its position is the end of the one chain on disk *)
(* and no record is off it, whatever files the crashes before left.        *)
THEOREM ChainHolds == Spec => []ChainContinues
<1>1. AuditInv => ChainContinues
  <2> SUFFICES ASSUME AuditInv, pc # "down" PROVE ChainContinues
    BY DEF ChainContinues
  <2>1. Chained(Log)
    BY LogReads DEF AuditInv, ReadsBack
  <2> QED BY <2>1, VerifiedAll DEF AuditInv, PlaceInv, ChainContinues
<1> QED BY <1>1, AuditAlways, PTL

(* The segments, with a crash at any step of a rotation and the clock set  *)
(* back, are the log that Journal promises.                                *)
THEOREM RefinesJournal == Spec => ImplementsJournal
<1>1. Init => J!Init
  BY AuditInit
<1>2. AuditInv /\ [Next]_vars => [J!Next]_(J!jvars)
  BY AuditStep DEF JournalStep
<1> QED BY <1>1, <1>2, AuditAlways, PTL DEF Spec, ImplementsJournal, J!Spec

-----------------------------------------------------------------------------
(* The compositor's end.                                                   *)

CONSTANTS Ring, SocketCap, MaxRecords, MaxDeaths
VARIABLES hook, deaths

Queue == INSTANCE AuditQueue

(* What stands in the queue, its socket and beyond: a record or a marker.  *)
Entry == [kind : Kinds \cup {"gap"}, n : Nat]

(* From none to one more, as far as n.                                     *)
LEMMA StepByStep ==
  ASSUME NEW n \in Nat, NEW G, 0 \in G, \A k \in 0..(n - 1) : k \in G => k + 1 \in G
  PROVE  \A k \in 0..n : k \in G
<1> SUFFICES ASSUME NEW k \in 0..n, k \notin G PROVE FALSE
  OBVIOUS
<1> DEFINE T == {i \in Nat : i <= n /\ i \notin G}
<1>1. k \in T
  OBVIOUS
<1>2. PICK m \in T : \A y \in T : <<y, m>> \notin OpToRel(<, Nat)
  BY <1>1, NatLessThanWellFounded, WFMin, Zenon
<1>3. \A y \in T : ~(y < m)
  BY <1>2 DEF OpToRel
<1>4. m \in Nat /\ m <= n /\ m \notin G /\ m # 0
  BY <1>2
<1>5. m - 1 \in 0..(n - 1) /\ m - 1 \in Nat /\ m - 1 <= n /\ m - 1 < m /\ (m - 1) + 1 = m
  BY <1>4
<1>6. m - 1 \in G
  BY <1>3, <1>5
<1> QED BY <1>4, <1>5, <1>6

-----------------------------------------------------------------------------
(* What records stand in a sequence, in what order, and how many it tells  *)
(* of: for two sequences, one after the other, and for one entry.          *)

(* Where the entries of two sequences stand, one after the other.          *)
LEMMA Concatenated ==
  ASSUME NEW V, NEW s \in Seq(V), NEW t \in Seq(V)
  PROVE  /\ s \o t \in Seq(V) /\ Len(s \o t) = Len(s) + Len(t) /\ Len(s) \in Nat /\ Len(t) \in Nat
         /\ DOMAIN s = 1..Len(s) /\ DOMAIN t = 1..Len(t) /\ DOMAIN (s \o t) = 1..(Len(s) + Len(t))
         /\ \A i \in 1..Len(s) : (s \o t)[i] = s[i]
         /\ \A i \in 1..Len(t) : (s \o t)[Len(s) + i] = t[i]
         /\ \A i \in 1..Len(t) : Len(s) + i \in 1..(Len(s) + Len(t))
         /\ \A i \in 1..Len(s) : i \in 1..(Len(s) + Len(t))
         /\ \A i \in 1..(Len(s) + Len(t)) :
              i \in 1..Len(s) \/ \E j \in 1..Len(t) : i = Len(s) + j
<1> DEFINE w == s \o t
<1>1. Len(s) \in Nat /\ Len(t) \in Nat /\ DOMAIN s = 1..Len(s) /\ DOMAIN t = 1..Len(t)
  OBVIOUS
<1>2. /\ w \in Seq(V) /\ Len(w) = Len(s) + Len(t)
      /\ \A i \in 1..(Len(s) + Len(t)) : w[i] = IF i <= Len(s) THEN s[i] ELSE t[i - Len(s)]
  BY ConcatProperties, Zenon
<1>3. DOMAIN w = 1..Len(w)
  BY <1>2
<1> HIDE DEF w
<1>4. \A i \in 1..Len(t) : Len(s) + i \in 1..(Len(s) + Len(t)) /\ ~(Len(s) + i <= Len(s))
                           /\ (Len(s) + i) - Len(s) = i
  BY <1>1
<1>5. \A i \in 1..Len(s) : i \in 1..(Len(s) + Len(t)) /\ i <= Len(s)
  BY <1>1
<1>6. \A i \in 1..(Len(s) + Len(t)) :
              i \in 1..Len(s) \/ \E j \in 1..Len(t) : i = Len(s) + j
  <2> TAKE i \in 1..(Len(s) + Len(t))
  <2>1. CASE i <= Len(s)
    BY <1>1, <2>1
  <2>2. CASE ~(i <= Len(s))
    <3>1. i - Len(s) \in 1..Len(t) /\ i = Len(s) + (i - Len(s))
      BY <1>1, <2>2
    <3> QED BY <3>1
  <2> QED BY <2>1, <2>2
<1>7. \A i \in 1..Len(s) : w[i] = s[i]
  BY <1>2, <1>5
<1>8. \A i \in 1..Len(t) : w[Len(s) + i] = t[i]
  BY <1>2, <1>4
<1> QED BY <1>1, <1>2, <1>3, <1>4, <1>5, <1>6, <1>7, <1>8 DEF w

(* The numbers of two sequences, one after the other.                      *)
LEMMA NumbersConcat ==
  ASSUME NEW V, NEW s \in Seq(V), NEW t \in Seq(V)
  PROVE  NumbersIn(s \o t) = NumbersIn(s) \cup NumbersIn(t)
<1> DEFINE w == s \o t
<1>1. /\ Len(s) \in Nat /\ Len(t) \in Nat
      /\ DOMAIN s = 1..Len(s) /\ DOMAIN t = 1..Len(t) /\ DOMAIN w = 1..(Len(s) + Len(t))
      /\ \A i \in 1..Len(s) : w[i] = s[i] /\ i \in 1..(Len(s) + Len(t))
      /\ \A i \in 1..Len(t) : w[Len(s) + i] = t[i] /\ Len(s) + i \in 1..(Len(s) + Len(t))
      /\ \A i \in 1..(Len(s) + Len(t)) :
              i \in 1..Len(s) \/ \E j \in 1..Len(t) : i = Len(s) + j
  BY Concatenated
<1> HIDE DEF w
<1>2. \A x \in ToSet(w) : x \in ToSet(s) \/ x \in ToSet(t)
  <2> TAKE x \in ToSet(w)
  <2>1. PICK i \in 1..(Len(s) + Len(t)) : w[i] = x
    BY <1>1 DEF ToSet
  <2>2. CASE i \in 1..Len(s)
    BY <1>1, <2>1, <2>2 DEF ToSet
  <2>3. ASSUME NEW j \in 1..Len(t), i = Len(s) + j PROVE x \in ToSet(t)
    BY <1>1, <2>1, <2>3 DEF ToSet
  <2> QED BY <1>1, <2>1, <2>2, <2>3
<1>3. \A x \in ToSet(s) : x \in ToSet(w)
  BY <1>1 DEF ToSet
<1>4. \A x \in ToSet(t) : x \in ToSet(w)
  <2> TAKE x \in ToSet(t)
  <2>1. PICK j \in 1..Len(t) : t[j] = x
    BY <1>1 DEF ToSet
  <2>2. w[Len(s) + j] = x /\ Len(s) + j \in DOMAIN w
    BY <1>1, <2>1
  <2> QED BY <2>2 DEF ToSet
<1>5. ToSet(w) = ToSet(s) \cup ToSet(t)
  BY <1>2, <1>3, <1>4
<1> QED BY <1>5 DEF NumbersIn, w

(* The numbers are those at the places where records are.                  *)
LEMMA NumbersAt ==
  ASSUME NEW V, NEW s \in Seq(V)
  PROVE  /\ \A m \in NumbersIn(s) : \E i \in 1..Len(s) : IsRecord(s[i]) /\ s[i].n = m
         /\ \A i \in 1..Len(s) : IsRecord(s[i]) => s[i].n \in NumbersIn(s)
<1>1. DOMAIN s = 1..Len(s)
  OBVIOUS
<1>2. NumbersIn(s) = {r.n : r \in {x \in ToSet(s) : IsRecord(x)}}
  BY DEF NumbersIn
<1>3. \A x : x \in ToSet(s) <=> \E i \in 1..Len(s) : s[i] = x
  BY <1>1 DEF ToSet
<1>4. ASSUME NEW m \in NumbersIn(s)
      PROVE  \E i \in 1..Len(s) : IsRecord(s[i]) /\ s[i].n = m
  <2>1. PICK x \in ToSet(s) : IsRecord(x) /\ x.n = m
    BY <1>2, <1>4
  <2> QED BY <1>3, <2>1
<1>5. ASSUME NEW i \in 1..Len(s), IsRecord(s[i]) PROVE s[i].n \in NumbersIn(s)
  BY <1>2, <1>3, <1>5
<1> QED BY <1>4, <1>5

(* An empty sequence, and one entry.                                       *)
LEMMA NumbersSingle ==
  ASSUME NEW r
  PROVE  /\ NumbersIn(<<>>) = {}
         /\ NumbersIn(<<r>>) = IF IsRecord(r) THEN {r.n} ELSE {}
<1>1. ToSet(<<>>) = {} /\ ToSet(<<r>>) = {r}
  BY DEF ToSet
<1> QED BY <1>1 DEF NumbersIn

Ahead(s, t) == \A m \in NumbersIn(s), n \in NumbersIn(t) : m < n

(* In order: each by itself, and all of the first before the second.       *)
LEMMA RisingConcat ==
  ASSUME NEW s \in Seq(Entry), NEW t \in Seq(Entry)
  PROVE  Rising(s \o t) <=> Rising(s) /\ Rising(t) /\ Ahead(s, t)
<1> DEFINE w == s \o t
<1>c. /\ Len(s) \in Nat /\ Len(t) \in Nat
      /\ DOMAIN s = 1..Len(s) /\ DOMAIN t = 1..Len(t) /\ DOMAIN w = 1..(Len(s) + Len(t))
      /\ \A i \in 1..Len(s) : w[i] = s[i] /\ i \in 1..(Len(s) + Len(t))
      /\ \A i \in 1..Len(t) : w[Len(s) + i] = t[i] /\ Len(s) + i \in 1..(Len(s) + Len(t))
      /\ \A i \in 1..(Len(s) + Len(t)) :
              i \in 1..Len(s) \/ \E j \in 1..Len(t) : i = Len(s) + j
  BY Concatenated
<1> HIDE DEF w
<1>n. /\ \A m \in NumbersIn(s) : \E i \in 1..Len(s) : IsRecord(s[i]) /\ s[i].n = m
      /\ \A m \in NumbersIn(t) : \E i \in 1..Len(t) : IsRecord(t[i]) /\ t[i].n = m
      /\ \A i \in 1..Len(s) : IsRecord(s[i]) => s[i].n \in NumbersIn(s)
      /\ \A i \in 1..Len(t) : IsRecord(t[i]) => t[i].n \in NumbersIn(t)
  BY NumbersAt
<1>1. ASSUME Rising(w) PROVE Rising(s) /\ Rising(t) /\ Ahead(s, t)
  <2>1. Rising(s)
    BY <1>1, <1>c DEF Rising
  <2>2. Rising(t)
    <3> SUFFICES ASSUME NEW i \in 1..Len(t), NEW j \in 1..Len(t), i < j,
                        IsRecord(t[i]), IsRecord(t[j])
                 PROVE  t[i].n < t[j].n
      BY <1>c DEF Rising
    <3>1. Len(s) + i < Len(s) + j /\ Len(s) + i \in DOMAIN w /\ Len(s) + j \in DOMAIN w
      BY <1>c
    <3>2. w[Len(s) + i] = t[i] /\ w[Len(s) + j] = t[j]
      BY <1>c
    <3> QED BY <1>1, <3>1, <3>2 DEF Rising
  <2>3. Ahead(s, t)
    <3> SUFFICES ASSUME NEW m \in NumbersIn(s), NEW n \in NumbersIn(t) PROVE m < n
      BY DEF Ahead
    <3>1. PICK i \in 1..Len(s) : IsRecord(s[i]) /\ s[i].n = m
      BY <1>n
    <3>2. PICK j \in 1..Len(t) : IsRecord(t[j]) /\ t[j].n = n
      BY <1>n
    <3>3. i < Len(s) + j
      BY <1>c
    <3> QED BY <1>1, <1>c, <3>1, <3>2, <3>3 DEF Rising
  <2> QED BY <2>1, <2>2, <2>3
<1>2. ASSUME Rising(s), Rising(t), Ahead(s, t) PROVE Rising(w)
  <2> SUFFICES ASSUME NEW i \in 1..(Len(s) + Len(t)), NEW j \in 1..(Len(s) + Len(t)), i < j,
                      IsRecord(w[i]), IsRecord(w[j])
               PROVE  w[i].n < w[j].n
    BY <1>c DEF Rising
  <2>1. CASE i \in 1..Len(s) /\ j \in 1..Len(s)
    BY <1>2, <1>c, <2>1 DEF Rising
  <2>2. ASSUME i \in 1..Len(s), NEW k \in 1..Len(t), j = Len(s) + k PROVE w[i].n < w[j].n
    <3>1. w[i] = s[i] /\ w[j] = t[k]
      BY <1>c, <2>2
    <3> QED BY <1>2, <1>n, <2>2, <3>1 DEF Ahead
  <2>3. ASSUME j \in 1..Len(s), NEW k \in 1..Len(t), i = Len(s) + k PROVE FALSE
    BY <1>c, <2>3
  <2>4. ASSUME NEW k \in 1..Len(t), i = Len(s) + k, NEW l \in 1..Len(t), j = Len(s) + l
        PROVE  w[i].n < w[j].n
    <3>1. k < l
      BY <1>c, <2>4
    <3>2. w[Len(s) + k] = t[k] /\ w[Len(s) + l] = t[l]
      BY <1>c
    <3>3. t[k].n < t[l].n
      BY <1>2, <1>c, <2>4, <3>1, <3>2 DEF Rising
    <3> QED BY <2>4, <3>2, <3>3
  <2> QED BY <1>c, <2>1, <2>2, <2>3, <2>4
<1> QED BY <1>1, <1>2 DEF w

(* Nothing, and one entry, are in order.                                   *)
LEMMA RisingSingle ==
  ASSUME NEW r
  PROVE  Rising(<<>>) /\ Rising(<<r>>)
BY DEF Rising

(* The recursion Tells is defined by.                                      *)
Each(r) == IF IsRecord(r) THEN 1 ELSE r.n
Sums(s, n, f) == f = [i \in 0..n |-> IF i = 0 THEN 0 ELSE f[i-1] + Each(s[i])]

(* It has a solution, as far as any entry.                                 *)
LEMMA SumsExist ==
  ASSUME NEW s, NEW n \in Nat
  PROVE  \E f : Sums(s, n, f)
<1> DEFINE G == {k \in Nat : \E f : Sums(s, k, f)}
<1>1. 0 \in G
  <2> DEFINE e == [i \in 0..0 |-> 0]
  <2>1. Sums(s, 0, e)
    BY DEF Sums
  <2> QED BY <2>1
<1>2. ASSUME NEW k \in 0..(n - 1), k \in G PROVE k + 1 \in G
  <2>1. PICK f : Sums(s, k, f)
    BY <1>2
  <2> DEFINE g == [i \in 0..(k + 1) |-> IF i <= k THEN f[i] ELSE f[k] + Each(s[i])]
  <2>2. \A i \in 0..k : f[i] = IF i = 0 THEN 0 ELSE f[i-1] + Each(s[i])
    BY <2>1 DEF Sums
  <2>3. \A i \in 0..(k + 1) : g[i] = IF i = 0 THEN 0 ELSE g[i-1] + Each(s[i])
    <3> TAKE i \in 0..(k + 1)
    <3>1. CASE i = 0
      <4>1. i \in 0..k /\ i <= k
        BY <3>1
      <4> QED BY <2>2, <3>1, <4>1
    <3>2. CASE i # 0 /\ i <= k
      <4>1. i \in 0..k /\ i - 1 \in 0..(k + 1) /\ i - 1 <= k
        BY <3>2
      <4> QED BY <2>2, <3>2, <4>1
    <3>3. CASE i = k + 1
      <4>1. i # 0 /\ ~(i <= k) /\ i - 1 = k /\ k \in 0..(k + 1) /\ k <= k
        BY <3>3
      <4> QED BY <3>3, <4>1
    <3> QED BY <3>1, <3>2, <3>3
  <2>4. Sums(s, k + 1, g)
    BY <2>3 DEF Sums
  <2>5. k + 1 \in Nat
    OBVIOUS
  <2> HIDE DEF g
  <2> QED BY <2>4, <2>5
<1> HIDE DEF G
<1>3. n \in G
  BY <1>1, <1>2, StepByStep
<1> QED BY <1>3 DEF G

(* What a sequence tells of is the last of its sums, which are numbers.    *)
LEMMA TellsIs ==
  ASSUME NEW s \in Seq(Entry)
  PROVE  \E f : /\ Sums(s, Len(s), f) /\ Tells(s) = f[Len(s)]
                /\ \A k \in 0..Len(s) : f[k] \in Nat
<1> DEFINE f == CHOOSE f : Sums(s, Len(s), f)
           G == {k \in Nat : f[k] \in Nat}
<1>1. Len(s) \in Nat /\ \A i \in 1..Len(s) : Each(s[i]) \in Nat
  <2>1. \A r \in Entry : Each(r) \in Nat
    BY DEF Entry, Each
  <2> QED BY <2>1
<1>2. Sums(s, Len(s), f)
  BY <1>1, SumsExist
<1>3. Tells(s) = f[Len(s)]
  BY DEF Tells, Sums, Each
<1> HIDE DEF f
<1>4. \A i \in 0..Len(s) : f[i] = IF i = 0 THEN 0 ELSE f[i-1] + Each(s[i])
  BY <1>2, Zenon DEF Sums
<1>5. 0 \in G
  BY <1>1, <1>4
<1>6. ASSUME NEW k \in 0..(Len(s) - 1), k \in G PROVE k + 1 \in G
  <2>1. k + 1 \in 0..Len(s) /\ k + 1 \in 1..Len(s) /\ k + 1 # 0 /\ (k + 1) - 1 = k
    BY <1>1
  <2>2. f[k + 1] = f[k] + Each(s[k + 1])
    BY <1>4, <2>1
  <2> QED BY <1>1, <1>6, <2>1, <2>2
<1>7. \A k \in 0..Len(s) : k \in G
  <2> HIDE DEF G
  <2> QED BY <1>1, <1>5, <1>6, StepByStep
<1> QED BY <1>2, <1>3, <1>7

(* What a sequence tells of is a number.                                   *)
LEMMA TellsType ==
  ASSUME NEW s \in Seq(Entry) PROVE Tells(s) \in Nat
<1>1. PICK f : Tells(s) = f[Len(s)] /\ \A k \in 0..Len(s) : f[k] \in Nat
  BY TellsIs
<1>2. Len(s) \in 0..Len(s)
  OBVIOUS
<1> QED BY <1>1, <1>2

(* Two sequences tell of what each does.                                   *)
LEMMA TellsConcat ==
  ASSUME NEW s \in Seq(Entry), NEW t \in Seq(Entry)
  PROVE  Tells(s \o t) = Tells(s) + Tells(t)
<1> DEFINE w == s \o t
           a == Len(s)
<1>1. /\ a \in Nat /\ Len(t) \in Nat /\ w \in Seq(Entry) /\ Len(w) = a + Len(t)
      /\ \A i \in 1..a : w[i] = s[i]
      /\ \A i \in 1..Len(t) : w[a + i] = t[i]
  BY Concatenated
<1>2. PICK f : /\ Sums(s, a, f) /\ Tells(s) = f[a] /\ \A k \in 0..a : f[k] \in Nat
  BY TellsIs
<1>3. PICK g : /\ Sums(t, Len(t), g) /\ Tells(t) = g[Len(t)]
               /\ \A k \in 0..Len(t) : g[k] \in Nat
  BY TellsIs
<1> HIDE DEF w, a
<1>4. PICK h : /\ Sums(w, Len(w), h) /\ Tells(w) = h[Len(w)]
  BY <1>1, TellsIs
<1>5. /\ \A i \in 0..a : f[i] = IF i = 0 THEN 0 ELSE f[i-1] + Each(s[i])
      /\ \A i \in 0..Len(t) : g[i] = IF i = 0 THEN 0 ELSE g[i-1] + Each(t[i])
      /\ \A i \in 0..Len(w) : h[i] = IF i = 0 THEN 0 ELSE h[i-1] + Each(w[i])
  BY <1>2, <1>3, <1>4, Zenon DEF Sums
<1> DEFINE G == {k \in Nat : h[k] = f[k]}
           H == {k \in Nat : h[a + k] = f[a] + g[k]}
<1>6. \A k \in 0..a : k \in G
  <2>1. 0 \in G
    <3>1. 0 \in 0..a /\ 0 \in 0..Len(w)
      BY <1>1
    <3> QED BY <1>5, <3>1
  <2>2. ASSUME NEW k \in 0..(a - 1), k \in G PROVE k + 1 \in G
    <3>1. /\ k + 1 \in 0..a /\ k + 1 \in 0..Len(w) /\ k + 1 \in 1..a
          /\ k + 1 # 0 /\ (k + 1) - 1 = k /\ k + 1 \in Nat
      BY <1>1
    <3>2. f[k + 1] = f[k] + Each(s[k + 1]) /\ h[k + 1] = h[k] + Each(w[k + 1])
      BY <1>5, <3>1
    <3>3. w[k + 1] = s[k + 1]
      BY <1>1, <3>1
    <3> QED BY <2>2, <3>1, <3>2, <3>3
  <2> HIDE DEF G
  <2> QED BY <1>1, <2>1, <2>2, StepByStep
<1>7. \A k \in 0..Len(t) : k \in H
  <2>1. 0 \in H
    <3>1. a \in 0..a /\ 0 \in 0..Len(t) /\ a + 0 = a
      BY <1>1
    <3>2. h[a] = f[a] /\ g[0] = 0 /\ f[a] \in Nat
      BY <1>2, <1>5, <1>6, <3>1
    <3> QED BY <3>1, <3>2
  <2>2. ASSUME NEW k \in 0..(Len(t) - 1), k \in H PROVE k + 1 \in H
    <3>1. /\ k + 1 \in 0..Len(t) /\ a + (k + 1) \in 0..Len(w) /\ k + 1 \in 1..Len(t)
          /\ k \in 0..Len(t) /\ k + 1 # 0 /\ (k + 1) - 1 = k /\ k + 1 \in Nat
          /\ a + (k + 1) # 0 /\ (a + (k + 1)) - 1 = a + k
      BY <1>1
    <3>2. g[k + 1] = g[k] + Each(t[k + 1]) /\ h[a + (k + 1)] = h[a + k] + Each(w[a + (k + 1)])
      BY <1>5, <3>1
    <3>3. w[a + (k + 1)] = t[k + 1] /\ h[a + k] = f[a] + g[k]
      BY <1>1, <2>2, <3>1
    <3>4. f[a] \in Nat /\ g[k] \in Nat /\ Each(t[k + 1]) \in Nat
      <4>1. t[k + 1] \in Entry /\ a \in 0..a
        BY <1>1, <3>1
      <4>2. Each(t[k + 1]) \in Nat
        BY <4>1 DEF Entry, Each
      <4> QED BY <1>2, <1>3, <3>1, <4>1, <4>2
    <3> QED BY <3>1, <3>2, <3>3, <3>4
  <2> HIDE DEF H
  <2> QED BY <1>1, <2>1, <2>2, StepByStep
<1>8. Len(t) \in 0..Len(t)
  BY <1>1
<1>9. h[a + Len(t)] = f[a] + g[Len(t)]
  BY <1>7, <1>8
<1> QED BY <1>1, <1>2, <1>3, <1>4, <1>9 DEF w

(* An entry tells of itself, or a marker of what it counts.                *)
LEMMA TellsSingle ==
  ASSUME NEW r \in Entry
  PROVE  Tells(<<>>) = 0 /\ Tells(<<r>>) = Each(r)
<1> DEFINE s == <<r>>
           e == <<>>
<1>1. s \in Seq(Entry) /\ Len(s) = 1 /\ s[1] = r /\ e \in Seq(Entry) /\ Len(e) = 0
  OBVIOUS
<1> HIDE DEF s, e
<1>2. PICK f : Sums(s, 1, f) /\ Tells(s) = f[1]
  BY <1>1, TellsIs
<1>3. PICK g : Sums(e, 0, g) /\ Tells(e) = g[0]
  BY <1>1, TellsIs
<1>4. \A i \in 0..1 : f[i] = IF i = 0 THEN 0 ELSE f[i-1] + Each(s[i])
  BY <1>2, Zenon DEF Sums
<1>5. \A i \in 0..0 : g[i] = IF i = 0 THEN 0 ELSE g[i-1] + Each(e[i])
  BY <1>3, Zenon DEF Sums
<1>6. f[0] = 0 /\ f[1] = f[0] + Each(s[1]) /\ g[0] = 0
  BY <1>4, <1>5
<1>7. Each(r) \in Nat
  BY DEF Each, Entry
<1> QED BY <1>1, <1>2, <1>3, <1>6, <1>7 DEF s, e

-----------------------------------------------------------------------------
(* The queue and its socket.                                               *)

QueueState ==
  [up : BOOLEAN, alive : BOOLEAN, edge : BOOLEAN, pending : Seq(Entry), dropped : Nat,
   socket : Seq(Entry), got : Seq(Entry), lost : Seq(Entry)]

(* What was read or lost stands before what is in the socket, and that     *)
(* before what waits.                                                      *)
InLine(a, b, c) ==
  /\ Rising(a) /\ Rising(b) /\ Rising(c)
  /\ Ahead(a, b) /\ Ahead(b, c) /\ Ahead(a, c)
Ordered(q) == InLine(q.got, q.socket, q.pending) /\ InLine(q.lost, q.socket, q.pending)

Outside(q)    == NumbersIn(q.got) \cup NumbersIn(q.lost) \cup NumbersIn(q.socket)
Bounded(q, m) == \A n \in Outside(q) \cup NumbersIn(q.pending) : n <= m
Out(q, A) == \A n \in A : n \in Outside(q) /\ \A k \in NumbersIn(q.pending) : k > n
Weight(q) ==
  Tells(q.got) + Tells(q.lost) + Tells(q.socket) + Tells(q.pending)
    + q.dropped

(* The queues that hold records up to m in order, with those of A out, and *)
(* tell of w.                                                              *)
Good(m, A, w) ==
  {q \in QueueState : Ordered(q) /\ Bounded(q, m) /\ Out(q, A) /\ Weight(q) = w}

(* policyd reads from the front of the socket, or nothing.                 *)
LEMMA TookIs ==
  ASSUME NEW q \in QueueState, NEW p \in Queue!Took(q)
  PROVE  /\ p \in QueueState
         /\ \E a \in Seq(Entry) : q.socket = a \o p.socket /\ p.got = q.got \o a
         /\ p.pending = q.pending /\ p.dropped = q.dropped /\ p.lost = q.lost
<1>1. CASE p = q
  <2> DEFINE e == <<>>
             s == q.socket
             g == q.got
  <2>1. s \in Seq(Entry) /\ g \in Seq(Entry)
    BY DEF QueueState
  <2> HIDE DEF s, g
  <2>2. e \in Seq(Entry) /\ s = e \o s /\ g = g \o e
    BY <2>1
  <2> HIDE DEF e
  <2> QED BY <1>1, <2>2 DEF s, g
<1>2. ASSUME NEW k \in 1..Len(q.socket), NEW e \in BOOLEAN,
             p = [q EXCEPT !.got = @ \o SubSeq(q.socket, 1, k),
                           !.socket = SubSeq(@, k + 1, Len(@)), !.edge = e]
      PROVE  /\ p \in QueueState
             /\ \E a \in Seq(Entry) : q.socket = a \o p.socket /\ p.got = q.got \o a
             /\ p.pending = q.pending /\ p.dropped = q.dropped /\ p.lost = q.lost
  <2> DEFINE s == q.socket
             a == SubSeq(s, 1, k)
             b == SubSeq(s, k + 1, Len(s))
             g == q.got \o a
  <2>1. s \in Seq(Entry) /\ Len(s) \in Nat /\ q.got \in Seq(Entry) /\ k \in 1..Len(s)
    BY DEF QueueState
  <2>2. p = [q EXCEPT !.got = g, !.socket = b, !.edge = e]
    BY <1>2 DEF QueueState
  <2> HIDE DEF s
  <2>3. \A i \in 1..Len(s) : s[i] \in Entry
    BY <2>1
  <2>4. a \in Seq(Entry) /\ b \in Seq(Entry)
    <3>1. \A i \in 1..k : s[i] \in Entry
      BY <2>1, <2>3
    <3>2. \A i \in (k + 1)..Len(s) : s[i] \in Entry
      BY <2>1, <2>3
    <3>3. a \in Seq(Entry)
      BY <2>1, <3>1, SubSeqProperties
    <3>4. b \in Seq(Entry)
      BY <2>1, <3>2, SubSeqProperties
    <3> QED BY <3>3, <3>4
  <2>5. s = a \o b
    <3>1. 1 \in 1..(Len(s) + 1) /\ k \in (1 - 1)..Len(s) /\ Len(s) \in k..Len(s)
      BY <2>1
    <3>2. SubSeq(s, 1, k) \o SubSeq(s, k + 1, Len(s)) = SubSeq(s, 1, Len(s))
      BY <2>1, <3>1, ConcatAdjacentSubSeq
    <3> QED BY <2>1, <3>2, SubSeqFull
  <2> HIDE DEF a, b
  <2>6. g \in Seq(Entry)
    BY <2>1, <2>4, ConcatProperties, Zenon
  <2> HIDE DEF g
  <2>7. /\ p \in QueueState /\ p.got = g /\ p.socket = b
        /\ p.pending = q.pending /\ p.dropped = q.dropped /\ p.lost = q.lost
    BY <1>2, <2>2, <2>4, <2>6 DEF QueueState
  <2> QED BY <2>4, <2>5, <2>7 DEF s, g
<1> QED
  <2> DEFINE read(k, e) == [q EXCEPT !.got = @ \o SubSeq(q.socket, 1, k),
                                     !.socket = SubSeq(@, k + 1, Len(@)), !.edge = e]
             told(k) == IF q.edge \/ k = Len(q.socket) THEN {TRUE} ELSE BOOLEAN
  <2>1. p \in {q} \cup UNION {{read(k, e) : e \in told(k)} : k \in 1..Len(q.socket)}
    BY DEF Queue!Took
  <2>2. \A k : told(k) \subseteq BOOLEAN
    OBVIOUS
  <2> HIDE DEF read, told
  <2>3. p = q \/ \E k \in 1..Len(q.socket) : \E e \in BOOLEAN : p = read(k, e)
    BY <2>1, <2>2
  <2> QED BY <1>1, <1>2, <2>3 DEF read

(* A queue none of whose entries but those read moved.                     *)
LEMMA TookGood ==
  ASSUME NEW m, NEW A, NEW w, NEW q \in Good(m, A, w), NEW p \in Queue!Took(q)
  PROVE  p \in Good(m, A, w)
<1>1. q \in QueueState /\ Ordered(q) /\ Bounded(q, m) /\ Out(q, A) /\ Weight(q) = w
  BY DEF Good
<1>2. /\ p \in QueueState
      /\ p.pending = q.pending /\ p.dropped = q.dropped /\ p.lost = q.lost
  BY <1>1, TookIs
<1>3. PICK a \in Seq(Entry) : q.socket = a \o p.socket /\ p.got = q.got \o a
  BY <1>1, TookIs
<1> DEFINE b == p.socket
           g == q.got
<1>4. b \in Seq(Entry) /\ g \in Seq(Entry) /\ q.lost \in Seq(Entry) /\ q.pending \in Seq(Entry)
  BY <1>1, <1>2 DEF QueueState
<1> HIDE DEF b, g
<1>5. /\ NumbersIn(a \o b) = NumbersIn(a) \cup NumbersIn(b)
      /\ NumbersIn(g \o a) = NumbersIn(g) \cup NumbersIn(a)
  BY <1>4, NumbersConcat
<1>6. /\ Rising(a \o b) <=> Rising(a) /\ Rising(b) /\ Ahead(a, b)
      /\ Rising(g \o a) <=> Rising(g) /\ Rising(a) /\ Ahead(g, a)
  BY <1>4, RisingConcat
<1>7. /\ Tells(a \o b) = Tells(a) + Tells(b)
      /\ Tells(g \o a) = Tells(g) + Tells(a)
      /\ Tells(a) \in Nat /\ Tells(b) \in Nat /\ Tells(g) \in Nat
      /\ Tells(q.lost) \in Nat /\ Tells(q.pending) \in Nat
  BY <1>4, TellsConcat, TellsType
<1>8. q.socket = a \o b /\ p.got = g \o a /\ p.socket = b /\ q.got = g
  BY <1>3 DEF b, g
<1>9. Ordered(p)
  BY <1>1, <1>2, <1>5, <1>6, <1>8 DEF Ordered, InLine, Ahead
<1>10. Outside(p) = Outside(q)
  BY <1>2, <1>5, <1>8 DEF Outside
<1>11. Bounded(p, m) /\ Out(p, A)
  BY <1>1, <1>2, <1>10 DEF Bounded, Out
<1>12. Weight(p) = Weight(q)
  <2>1. q.dropped \in Nat
    BY <1>1 DEF QueueState
  <2> QED BY <1>2, <1>7, <1>8, <2>1 DEF Weight
<1> QED BY <1>1, <1>2, <1>9, <1>11, <1>12 DEF Good

(* What is in front, and all behind it.                                    *)
LEMMA HeadFirst ==
  ASSUME NEW V, NEW y \in Seq(V), y # <<>>
  PROVE  y = <<Head(y)>> \o Tail(y)
<1> DEFINE i == <<Head(y)>>
           r == Tail(y)
           v == i \o r
<1>1. /\ Head(y) \in V /\ y[1] = Head(y) /\ Len(y) \in Nat /\ Len(y) # 0
      /\ r \in Seq(V) /\ Len(r) = Len(y) - 1 /\ \A k \in 1..(Len(y) - 1) : r[k] = y[k + 1]
  OBVIOUS
<1>2. i \in Seq(V) /\ Len(i) = 1 /\ i[1] = y[1]
  BY <1>1
<1> HIDE DEF i, r
<1>3. /\ v \in Seq(V) /\ Len(v) = Len(i) + Len(r)
      /\ \A k \in 1..(Len(i) + Len(r)) : v[k] = IF k <= Len(i) THEN i[k] ELSE r[k - Len(i)]
  <2>1. i \in Seq(V) /\ r \in Seq(V)
    BY <1>1, <1>2
  <2> QED BY <2>1, ConcatProperties, Zenon
<1> HIDE DEF v
<1>4. \A k \in 1..Len(y) : v[k] = y[k]
  <2> TAKE k \in 1..Len(y)
  <2>1. CASE k = 1
    <3>1. k \in 1..(Len(i) + Len(r)) /\ k <= Len(i)
      BY <1>1, <1>2, <2>1
    <3> QED BY <1>2, <1>3, <2>1, <3>1
  <2>2. CASE k # 1
    <3>1. /\ k - 1 \in 1..(Len(y) - 1) /\ (k - 1) + 1 = k /\ k \in 1..(Len(i) + Len(r))
          /\ ~(k <= Len(i)) /\ k - Len(i) = k - 1
      BY <1>1, <1>2, <2>2
    <3> QED BY <1>1, <1>3, <3>1
  <2> QED BY <2>1, <2>2
<1>5. Len(v) = Len(y)
  BY <1>1, <1>2, <1>3
<1>6. v = y
  BY <1>3, <1>4, <1>5, SeqEqual
<1> QED BY <1>6 DEF v, i, r

(* An entry at the end of the socket that waited in front, or is a marker. *)
LEMMA SendNextGood ==
  ASSUME NEW m, NEW A, NEW w, NEW q \in Good(m, A, w), Queue!Waits(q)
  PROVE  Queue!SendNext(q) \in Good(m, A, w)
<1> DEFINE p == Queue!SendNext(q)
           h == Head(q.pending)
           t == Tail(q.pending)
           one == <<h>>
           s == q.socket
           x == Append(s, h)
<1>1. q \in QueueState /\ Ordered(q) /\ Bounded(q, m) /\ Out(q, A) /\ Weight(q) = w
  BY DEF Good
<1>2. /\ q.pending \in Seq(Entry) /\ q.pending # <<>> /\ q.socket \in Seq(Entry)
      /\ q.got \in Seq(Entry) /\ q.lost \in Seq(Entry)
  BY <1>1 DEF QueueState, Queue!Waits
<1>3. h \in Entry /\ t \in Seq(Entry) /\ one \in Seq(Entry) /\ s \in Seq(Entry)
  <2>1. h \in Entry
    BY <1>2
  <2> QED BY <1>2, <2>1
<1>4. q.pending = one \o t
  <2> DEFINE y == q.pending
  <2>1. y \in Seq(Entry) /\ y # <<>> /\ Len(y) \in Nat /\ Len(y) # 0
    BY <1>2
  <2> HIDE DEF y
  <2>2. y = <<Head(y)>> \o Tail(y)
    BY <2>1, HeadFirst
  <2> QED BY <2>2 DEF y
<1>5. x = s \o one /\ x \in Seq(Entry)
  <2> HIDE DEF h, s
  <2>1. x \in Seq(Entry)
    BY <1>3
  <2> QED BY <1>3, <2>1, AppendIsConcat
<1>6. p = [q EXCEPT !.socket = x, !.pending = t]
  BY <1>1 DEF Queue!SendNext, Queue!TrySend, QueueState
<1> HIDE DEF p, h, t, one, x, s
<1>7. /\ p \in QueueState /\ p.socket = s \o one /\ p.pending = t /\ p.dropped = q.dropped
      /\ p.got = q.got /\ p.lost = q.lost /\ q.socket = s
  BY <1>1, <1>3, <1>5, <1>6 DEF QueueState, s
<1>8. /\ NumbersIn(one \o t) = NumbersIn(one) \cup NumbersIn(t)
      /\ NumbersIn(s \o one) = NumbersIn(s) \cup NumbersIn(one)
  BY <1>3, NumbersConcat
<1>9. /\ Rising(one \o t) <=> Rising(one) /\ Rising(t) /\ Ahead(one, t)
      /\ Rising(s \o one) <=> Rising(s) /\ Rising(one) /\ Ahead(s, one)
  BY <1>3, RisingConcat
<1>10. /\ Tells(one \o t) = Tells(one) + Tells(t)
       /\ Tells(s \o one) = Tells(s) + Tells(one)
       /\ Tells(one) \in Nat /\ Tells(t) \in Nat /\ Tells(s) \in Nat
       /\ Tells(q.lost) \in Nat /\ Tells(q.got) \in Nat
  BY <1>2, <1>3, TellsConcat, TellsType
<1>11. Ordered(p)
  BY <1>1, <1>4, <1>7, <1>8, <1>9 DEF Ordered, InLine, Ahead
<1>12. Bounded(p, m)
  BY <1>1, <1>4, <1>7, <1>8 DEF Bounded, Outside
<1>13. Out(p, A)
  BY <1>1, <1>4, <1>7, <1>8 DEF Out, Outside
<1>14. Weight(p) = Weight(q)
  <2>1. q.dropped \in Nat
    BY <1>1 DEF QueueState
  <2> QED BY <1>4, <1>7, <1>10, <2>1 DEF Weight
<1> QED BY <1>1, <1>7, <1>11, <1>12, <1>13, <1>14 DEF Good, p

(* A marker tells of what was dropped, and is no record.                   *)
LEMMA GapIs ==
  ASSUME NEW n \in Nat
  PROVE  LET one == <<Gap(n)>>
         IN  /\ Gap(n) \in Entry /\ one \in Seq(Entry)
             /\ NumbersIn(one) = {} /\ Rising(one) /\ Tells(one) = n
<1> DEFINE g == Gap(n)
<1>1. g \in Entry /\ ~IsRecord(g) /\ g.n = n
  BY DEF Gap, IsRecord, Entry
<1> HIDE DEF g
<1>2. NumbersIn(<<g>>) = {} /\ Rising(<<g>>) /\ Tells(<<g>>) = n
  BY <1>1, NumbersSingle, RisingSingle, TellsSingle DEF Each
<1> QED BY <1>1, <1>2 DEF g

(* The marker that goes out tells of what was counted until then.          *)
LEMMA TellGapGood ==
  ASSUME NEW m, NEW A, NEW w, NEW q \in Good(m, A, w)
  PROVE  Queue!TellGap(q) \in Good(m, A, w)
<1> DEFINE p == Queue!TellGap(q)
           n == q.dropped
           g == Gap(n)
           one == <<g>>
           s == q.socket
           x == Append(s, g)
<1>1. q \in QueueState /\ Ordered(q) /\ Bounded(q, m) /\ Out(q, A) /\ Weight(q) = w
  BY DEF Good
<1>2. CASE p = q
  BY <1>2
<1>3. CASE p # q
  <2>1. p = [q EXCEPT !.socket = x, !.dropped = 0]
    BY <1>1, <1>3 DEF Queue!TellGap, Queue!TrySend, Queue!Gap, Gap, QueueState
  <2>2. n \in Nat /\ s \in Seq(Entry) /\ q.got \in Seq(Entry) /\ q.lost \in Seq(Entry)
        /\ q.pending \in Seq(Entry)
    BY <1>1 DEF QueueState
  <2> HIDE DEF n
  <2>3. /\ g \in Entry /\ one \in Seq(Entry)
        /\ NumbersIn(one) = {} /\ Rising(one) /\ Tells(one) = n
    BY <2>2, GapIs
  <2> HIDE DEF g, s
  <2>4. x = s \o one /\ x \in Seq(Entry)
    <3>1. x \in Seq(Entry)
      BY <2>2, <2>3
    <3> QED BY <2>2, <2>3, <3>1, AppendIsConcat
  <2> HIDE DEF one, x, p
  <2>5. /\ p \in QueueState /\ p.socket = s \o one /\ p.dropped = 0 /\ p.pending = q.pending
        /\ p.got = q.got /\ p.lost = q.lost /\ q.socket = s /\ q.dropped = n
    <3>1. p \in QueueState /\ p.socket = x /\ p.dropped = 0
      BY <1>1, <2>1, <2>4 DEF QueueState
    <3>2. p.pending = q.pending /\ p.got = q.got /\ p.lost = q.lost
      BY <1>1, <2>1 DEF QueueState
    <3>3. q.socket = s /\ q.dropped = n
      BY DEF s, n
    <3> QED BY <2>4, <3>1, <3>2, <3>3
  <2>6. NumbersIn(s \o one) = NumbersIn(s)
    <3>1. NumbersIn(s \o one) = NumbersIn(s) \cup NumbersIn(one)
      <4>1. s \in Seq(Entry) /\ one \in Seq(Entry)
        BY <2>2, <2>3
      <4> QED BY <4>1, NumbersConcat
    <3> QED BY <2>3, <3>1
  <2>7. Rising(s \o one) <=> Rising(s)
    BY <2>2, <2>3, RisingConcat DEF Ahead
  <2>8. Tells(s \o one) = Tells(s) + n
    BY <2>2, <2>3, TellsConcat
  <2>9. /\ Tells(s) \in Nat /\ Tells(q.got) \in Nat /\ Tells(q.lost) \in Nat
        /\ Tells(q.pending) \in Nat
    BY <2>2, TellsType
  <2>10. Ordered(p)
    BY <1>1, <2>5, <2>6, <2>7 DEF Ordered, InLine, Ahead
  <2>11. Bounded(p, m) /\ Out(p, A)
    BY <1>1, <2>5, <2>6 DEF Bounded, Out, Outside
  <2>12. Weight(p) = Weight(q)
    BY <2>2, <2>5, <2>8, <2>9 DEF Weight
  <2> QED BY <1>1, <2>5, <2>10, <2>11, <2>12 DEF Good, p
<1> QED BY <1>2, <1>3

(* The recursion flush is defined by: what may be left once k went out.    *)
Sending(q, n, f) ==
  f = [k \in 0..n |->
         IF k = 0 THEN Queue!Took(q)
         ELSE UNION {Queue!Took(Queue!SendNext(p)) : p \in {s \in f[k-1] : Queue!Waits(s)}}]

(* It has a solution, however many went out.                               *)
LEMMA SendingExists ==
  ASSUME NEW q, NEW n \in Nat
  PROVE  \E f : Sending(q, n, f)
<1> DEFINE G == {k \in Nat : \E f : Sending(q, k, f)}
           first == Queue!Took(q)
           next(S) == UNION {Queue!Took(Queue!SendNext(p)) : p \in {s \in S : Queue!Waits(s)}}
<1>0. \A k, f : Sending(q, k, f) <=> f = [i \in 0..k |-> IF i = 0 THEN first ELSE next(f[i-1])]
  BY DEF Sending
<1> HIDE DEF first, next
<1>1. 0 \in G
  <2> DEFINE e == [i \in 0..0 |-> first]
  <2>1. e = [i \in 0..0 |-> IF i = 0 THEN first ELSE next(e[i-1])]
    OBVIOUS
  <2> HIDE DEF e
  <2>2. Sending(q, 0, e)
    BY <1>0, <2>1
  <2> QED BY <2>2
<1>2. ASSUME NEW k \in 0..(n - 1), k \in G PROVE k + 1 \in G
  <2>1. PICK f : Sending(q, k, f)
    BY <1>2
  <2> DEFINE g == [i \in 0..(k + 1) |-> IF i <= k THEN f[i] ELSE next(f[k])]
  <2>2. \A i \in 0..k : f[i] = IF i = 0 THEN first ELSE next(f[i-1])
    <3>1. f = [i \in 0..k |-> IF i = 0 THEN first ELSE next(f[i-1])]
      BY <1>0, <2>1
    <3> QED BY <3>1, Zenon
  <2>3. \A i \in 0..(k + 1) : g[i] = IF i = 0 THEN first ELSE next(g[i-1])
    <3> TAKE i \in 0..(k + 1)
    <3>1. CASE i = 0
      <4>1. i \in 0..k /\ i <= k
        BY <3>1
      <4> QED BY <2>2, <3>1, <4>1
    <3>2. CASE i # 0 /\ i <= k
      <4>1. i \in 0..k /\ i - 1 \in 0..(k + 1) /\ i - 1 <= k
        BY <3>2
      <4> QED BY <2>2, <3>2, <4>1
    <3>3. CASE i = k + 1
      <4>1. i # 0 /\ ~(i <= k) /\ i - 1 = k /\ k \in 0..(k + 1) /\ k <= k
        BY <3>3
      <4> QED BY <3>3, <4>1
    <3> QED BY <3>1, <3>2, <3>3
  <2>4. g = [i \in 0..(k + 1) |-> IF i = 0 THEN first ELSE next(g[i-1])]
    BY <2>3
  <2> HIDE DEF g
  <2>5. Sending(q, k + 1, g) /\ k + 1 \in Nat
    BY <1>0, <2>4
  <2> QED BY <2>5
<1> HIDE DEF G
<1>3. n \in G
  BY <1>1, <1>2, StepByStep
<1> QED BY <1>3 DEF G

(* flush keeps what reading, sending and telling of a gap keep.            *)
LEMMA FlushIn ==
  ASSUME NEW S, NEW q \in S, q.pending \in Seq(Entry),
         \A s \in S : Queue!Took(s) \subseteq S,
         \A s \in S : Queue!Waits(s) => Queue!SendNext(s) \in S,
         \A s \in S : Queue!TellGap(s) \in S
  PROVE  Queue!Flush(q) \subseteq S
<1> DEFINE n == Len(q.pending)
           f == CHOOSE f : Sending(q, n, f)
           left == UNION {f[k] : k \in 0..n}
           G == {k \in Nat : f[k] \subseteq S}
           first == Queue!Took(q)
           next(T) == UNION {Queue!Took(Queue!SendNext(p)) : p \in {s \in T : Queue!Waits(s)}}
<1>1. n \in Nat
  OBVIOUS
<1>2. Sending(q, n, f)
  BY <1>1, SendingExists
<1>3. Queue!Flush(q) = UNION {Queue!Took(Queue!TellGap(p)) : p \in {s \in left : ~Queue!Waits(s)}}
  BY DEF Queue!Flush, Sending
<1> HIDE DEF f, n
<1>4. \A k \in 0..n : f[k] = IF k = 0 THEN first ELSE next(f[k-1])
  <2>1. f = [k \in 0..n |-> IF k = 0 THEN first ELSE next(f[k-1])]
    BY <1>2 DEF Sending
  <2> HIDE DEF first, next
  <2> QED BY <2>1, Zenon
<1>5. 0 \in G
  <2>1. f[0] = first
    <3> HIDE DEF next, first, G
    <3> QED BY <1>1, <1>4
  <2> QED BY <2>1
<1>6. ASSUME NEW k \in 0..(n - 1), k \in G PROVE k + 1 \in G
  <2>1. k + 1 \in 0..n /\ k + 1 # 0 /\ (k + 1) - 1 = k /\ k + 1 \in Nat
    BY <1>1
  <2>2. f[k + 1] = next(f[k])
    <3> HIDE DEF next, first, G
    <3> QED BY <1>4, <2>1
  <2>3. \A p \in {s \in f[k] : Queue!Waits(s)} : Queue!Took(Queue!SendNext(p)) \subseteq S
    BY <1>6
  <2>4. f[k + 1] \subseteq S
    BY <2>2, <2>3
  <2> QED BY <2>1, <2>4
<1>7. \A k \in 0..n : k \in G
  <2> HIDE DEF G
  <2> QED BY <1>1, <1>5, <1>6, StepByStep
<1>8. left \subseteq S
  BY <1>7
<1> HIDE DEF left
<1>9. \A p \in {s \in left : ~Queue!Waits(s)} : Queue!Took(Queue!TellGap(p)) \subseteq S
  BY <1>8
<1> QED BY <1>3, <1>9

(* So flush leaves a queue as it found it: in order and all told of.       *)
LEMMA FlushGood ==
  ASSUME NEW m, NEW A, NEW w, NEW q \in Good(m, A, w), NEW p \in Queue!Flush(q)
  PROVE  p \in Good(m, A, w)
<1> DEFINE S == Good(m, A, w)
<1>1. \A s \in S : Queue!Took(s) \subseteq S
  BY TookGood
<1>2. \A s \in S : Queue!Waits(s) => Queue!SendNext(s) \in S
  BY SendNextGood
<1>3. \A s \in S : Queue!TellGap(s) \in S
  BY TellGapGood
<1>4. q.pending \in Seq(Entry)
  BY DEF Good, QueueState
<1> HIDE DEF S
<1>5. Queue!Flush(q) \subseteq S
  <2>1. q \in S
    BY DEF S
  <2> QED BY <1>1, <1>2, <1>3, <1>4, <2>1, FlushIn
<1> QED BY <1>5 DEF S

(* What a good queue is made of.                                           *)
LEMMA GoodTypes ==
  ASSUME NEW m, NEW A, NEW w, NEW q \in Good(m, A, w)
  PROVE  /\ q \in QueueState /\ Ordered(q) /\ Bounded(q, m) /\ Out(q, A) /\ Weight(q) = w
         /\ q.pending \in Seq(Entry) /\ q.socket \in Seq(Entry) /\ q.got \in Seq(Entry)
         /\ q.lost \in Seq(Entry) /\ q.dropped \in Nat
         /\ Tells(q.pending) \in Nat /\ Tells(q.socket) \in Nat
         /\ Tells(q.got) \in Nat /\ Tells(q.lost) \in Nat
<1>1. q \in QueueState /\ Ordered(q) /\ Bounded(q, m) /\ Out(q, A) /\ Weight(q) = w
  BY DEF Good
<1>2. /\ q.pending \in Seq(Entry) /\ q.socket \in Seq(Entry) /\ q.got \in Seq(Entry)
      /\ q.lost \in Seq(Entry) /\ q.dropped \in Nat
  BY <1>1 DEF QueueState
<1> QED BY <1>1, <1>2, TellsType

(* Records are numbered by numbers.                                        *)
LEMMA NumbersType ==
  ASSUME NEW s \in Seq(Entry)
  PROVE  NumbersIn(s) \subseteq Nat
<1>1. \A i \in 1..Len(s) : s[i].n \in Nat
  <2>1. \A i \in 1..Len(s) : s[i] \in Entry
    OBVIOUS
  <2> QED BY <2>1 DEF Entry
<1>2. \A m \in NumbersIn(s) : \E i \in 1..Len(s) : IsRecord(s[i]) /\ s[i].n = m
  BY NumbersAt
<1> QED BY <1>1, <1>2

(* So are those outside and those that wait.                               *)
LEMMA OutsideType ==
  ASSUME NEW q \in QueueState
  PROVE  Outside(q) \subseteq Nat /\ NumbersIn(q.pending) \subseteq Nat
<1>1. /\ q.pending \in Seq(Entry) /\ q.socket \in Seq(Entry) /\ q.got \in Seq(Entry)
      /\ q.lost \in Seq(Entry)
  BY DEF QueueState
<1> QED BY <1>1, NumbersType DEF Outside

(* The source of events and the ends of the link hold no records.          *)
LEMMA SameGood ==
  ASSUME NEW m, NEW A, NEW w, NEW q \in Good(m, A, w), NEW p \in QueueState,
         p.pending = q.pending, p.socket = q.socket, p.got = q.got, p.lost = q.lost,
         p.dropped = q.dropped
  PROVE  p \in Good(m, A, w)
<1>1. Ordered(q) /\ Bounded(q, m) /\ Out(q, A) /\ Weight(q) = w
  BY DEF Good
<1>2. Ordered(p) /\ Bounded(p, m) /\ Out(p, A) /\ Weight(p) = w
  BY <1>1 DEF Ordered, Bounded, Out, Weight, Outside
<1> QED BY <1>2 DEF Good

(* A record that was made and is not kept.                                 *)
LEMMA MoreGood ==
  ASSUME NEW m \in Nat, NEW A, NEW w, NEW q \in Good(m, A, w)
  PROVE  q \in Good(m + 1, A, w)
<1>1. q \in QueueState /\ Bounded(q, m)
  BY GoodTypes
<1>2. Bounded(q, m + 1)
  <2>1. Outside(q) \subseteq Nat /\ NumbersIn(q.pending) \subseteq Nat
    BY <1>1, OutsideType
  <2> QED BY <1>1, <2>1 DEF Bounded
<1> QED BY <1>2 DEF Good

(* The next record: a later number than any.                               *)
NextRecord(r, m) == r \in Entry /\ IsRecord(r) /\ r.n = m + 1

(* Alone it is in order and tells of itself.                               *)
LEMMA RecordIs ==
  ASSUME NEW m \in Nat, NEW r, NextRecord(r, m)
  PROVE  LET one == <<r>>
         IN  /\ one \in Seq(Entry) /\ Rising(one)
             /\ NumbersIn(one) = {m + 1} /\ Tells(one) = 1
<1>1. r \in Entry /\ IsRecord(r) /\ r.n = m + 1
  BY DEF NextRecord
<1>2. <<r>> \in Seq(Entry)
  BY <1>1
<1>3. Rising(<<r>>)
  BY RisingSingle
<1>4. NumbersIn(<<r>>) = {m + 1}
  BY <1>1, NumbersSingle
<1>5. Tells(<<r>>) = 1
  <2>1. Each(r) = 1
    BY <1>1 DEF Each
  <2> QED BY <1>1, <2>1, TellsSingle
<1> QED BY <1>2, <1>3, <1>4, <1>5

(* Past an empty queue it goes into the socket.                            *)
LEMMA SentGood ==
  ASSUME NEW m \in Nat, NEW A, NEW w \in Int, NEW q \in Good(m, A, w), q.pending = <<>>,
         NEW r, NextRecord(r, m)
  PROVE  /\ Queue!TrySend(q, r) \in Good(m + 1, A, w + 1)
         /\ Queue!TrySend(q, r) \in Good(m + 1, A \cup {m + 1}, w + 1)
<1> DEFINE p == Queue!TrySend(q, r)
           s == q.socket
           one == <<r>>
           x == Append(s, r)
<1>1. /\ q \in QueueState /\ Ordered(q) /\ Bounded(q, m) /\ Out(q, A) /\ Weight(q) = w
      /\ q.pending \in Seq(Entry) /\ s \in Seq(Entry) /\ q.got \in Seq(Entry)
      /\ q.lost \in Seq(Entry) /\ q.dropped \in Nat
      /\ Tells(q.pending) \in Nat /\ Tells(s) \in Nat
      /\ Tells(q.got) \in Nat /\ Tells(q.lost) \in Nat
  BY GoodTypes
<1>2. /\ one \in Seq(Entry) /\ Rising(one)
      /\ NumbersIn(one) = {m + 1} /\ Tells(one) = 1
  BY RecordIs
<1>3. x = s \o one /\ x \in Seq(Entry)
  <2>1. r \in Entry
    BY DEF NextRecord
  <2> HIDE DEF s
  <2>2. x \in Seq(Entry)
    BY <1>1, <2>1
  <2> QED BY <1>1, <2>1, <2>2, AppendIsConcat
<1>4. p = [q EXCEPT !.socket = x]
  BY DEF Queue!TrySend
<1>5. q.socket = s
  OBVIOUS
<1> HIDE DEF p, s, one, x
<1>6. /\ p \in QueueState /\ p.socket = x /\ p.pending = q.pending /\ p.got = q.got
      /\ p.lost = q.lost /\ p.dropped = q.dropped
  BY <1>1, <1>3, <1>4 DEF QueueState
<1>7. NumbersIn(x) = NumbersIn(s) \cup {m + 1}
  <2>1. s \in Seq(Entry) /\ one \in Seq(Entry)
    BY <1>1, <1>2
  <2>2. NumbersIn(s \o one) = NumbersIn(s) \cup NumbersIn(one)
    BY <2>1, NumbersConcat
  <2> QED BY <1>2, <1>3, <2>2
<1>8. Tells(x) = Tells(s) + 1
  BY <1>1, <1>2, <1>3, TellsConcat
<1>9. Outside(q) \subseteq Nat /\ \A n \in Outside(q) : n < m + 1
  <2>1. Outside(q) \subseteq Nat
    BY <1>1, OutsideType
  <2> QED BY <1>1, <2>1 DEF Bounded
<1>10. /\ \A n \in NumbersIn(s) : n < m + 1
       /\ \A n \in NumbersIn(q.got) : n < m + 1
       /\ \A n \in NumbersIn(q.lost) : n < m + 1
  BY <1>5, <1>9 DEF Outside
<1>11. Rising(x)
  <2>1. Ahead(s, one)
    BY <1>2, <1>10 DEF Ahead
  <2>2. Rising(s)
    BY <1>1, <1>5 DEF Ordered, InLine
  <2> QED BY <1>1, <1>2, <1>3, <2>1, <2>2, RisingConcat
<1>12. NumbersIn(p.pending) = {}
  BY <1>6, NumbersSingle
<1>13. Ordered(p)
  <2>1. InLine(q.got, s, p.pending) /\ InLine(q.lost, s, p.pending)
    BY <1>1, <1>5, <1>6 DEF Ordered
  <2>2. Ahead(q.got, x) /\ Ahead(q.lost, x)
    BY <1>7, <1>10, <2>1 DEF InLine, Ahead
  <2>3. Ahead(x, p.pending)
    BY <1>12 DEF Ahead
  <2> QED BY <1>6, <1>11, <2>1, <2>2, <2>3 DEF Ordered, InLine
<1>14. Outside(p) = Outside(q) \cup {m + 1}
  BY <1>5, <1>6, <1>7 DEF Outside
<1>15. Bounded(p, m + 1)
  BY <1>9, <1>12, <1>14 DEF Bounded
<1>16. Out(p, A) /\ Out(p, A \cup {m + 1})
  BY <1>1, <1>12, <1>14 DEF Out
<1>17. Weight(p) = w + 1
  <2>1. Weight(p) = Tells(q.got) + Tells(q.lost) + (Tells(s) + 1) + Tells(q.pending) + q.dropped
    BY <1>6, <1>8 DEF Weight
  <2>2. w = Tells(q.got) + Tells(q.lost) + Tells(s) + Tells(q.pending) + q.dropped
    BY <1>1, <1>5 DEF Weight
  <2>3. /\ q.dropped \in Nat /\ Tells(q.pending) \in Nat /\ Tells(s) \in Nat
        /\ Tells(q.got) \in Nat /\ Tells(q.lost) \in Nat
    BY <1>1
  <2>4. \A a, b \in Nat : a + b \in Nat /\ a + (b + 1) = (a + b) + 1 /\ (a + 1) + b = (a + b) + 1
    OBVIOUS
  <2> DEFINE g == Tells(q.got) + Tells(q.lost)
             h == g + Tells(s)
             k == h + Tells(q.pending)
  <2>5. g \in Nat /\ h \in Nat /\ k \in Nat
    BY <2>3, <2>4, Zenon
  <2> HIDE DEF g
  <2>6. g + (Tells(s) + 1) = h + 1
    BY <2>3, <2>4, <2>5, Zenon
  <2> HIDE DEF h
  <2>7. (h + 1) + Tells(q.pending) = k + 1
    BY <2>3, <2>4, <2>5, Zenon
  <2> HIDE DEF k
  <2>8. (k + 1) + q.dropped = (k + q.dropped) + 1
    BY <2>3, <2>4, <2>5, Zenon
  <2>9. Weight(p) = (k + q.dropped) + 1 /\ w = k + q.dropped
    BY <2>1, <2>2, <2>6, <2>7, <2>8, Zenon DEF g, h, k
  <2> QED BY <2>9, Zenon
<1> QED BY <1>6, <1>13, <1>15, <1>16, <1>17 DEF Good, p

(* It waits behind the others.                                             *)
LEMMA QueuedGood ==
  ASSUME NEW m \in Nat, NEW A, NEW w \in Int, NEW q \in Good(m, A, w), NEW r, NextRecord(r, m)
  PROVE  [q EXCEPT !.pending = Append(@, r)] \in Good(m + 1, A, w + 1)
<1> DEFINE s == q.pending
           one == <<r>>
           x == Append(s, r)
           p == [q EXCEPT !.pending = x]
<1>1. /\ q \in QueueState /\ Ordered(q) /\ Bounded(q, m) /\ Out(q, A) /\ Weight(q) = w
      /\ s \in Seq(Entry) /\ q.socket \in Seq(Entry) /\ q.got \in Seq(Entry)
      /\ q.lost \in Seq(Entry) /\ q.dropped \in Nat
      /\ Tells(s) \in Nat /\ Tells(q.socket) \in Nat
      /\ Tells(q.got) \in Nat /\ Tells(q.lost) \in Nat
  BY GoodTypes
<1>2. /\ one \in Seq(Entry) /\ Rising(one)
      /\ NumbersIn(one) = {m + 1} /\ Tells(one) = 1
  BY RecordIs
<1>3. x = s \o one /\ x \in Seq(Entry)
  <2>1. r \in Entry
    BY DEF NextRecord
  <2> HIDE DEF s
  <2>2. x \in Seq(Entry)
    BY <1>1, <2>1
  <2> QED BY <1>1, <2>1, <2>2, AppendIsConcat
<1>4. [q EXCEPT !.pending = Append(@, r)] = p
  BY <1>1 DEF QueueState
<1>5. q.pending = s
  OBVIOUS
<1>6. /\ p \in QueueState /\ p.socket = q.socket /\ p.pending = x /\ p.got = q.got
      /\ p.lost = q.lost /\ p.dropped = q.dropped
  <2> HIDE DEF x
  <2> QED BY <1>1, <1>3 DEF QueueState
<1> HIDE DEF p, s, one, x
<1>7. NumbersIn(x) = NumbersIn(s) \cup {m + 1}
  <2>1. s \in Seq(Entry) /\ one \in Seq(Entry)
    BY <1>1, <1>2
  <2>2. NumbersIn(s \o one) = NumbersIn(s) \cup NumbersIn(one)
    BY <2>1, NumbersConcat
  <2> QED BY <1>2, <1>3, <2>2
<1>8. Tells(x) = Tells(s) + 1
  BY <1>1, <1>2, <1>3, TellsConcat
<1>9. /\ Outside(q) \subseteq Nat /\ \A n \in Outside(q) : n < m + 1
      /\ NumbersIn(s) \subseteq Nat /\ \A n \in NumbersIn(s) : n < m + 1
  <2>1. Outside(q) \subseteq Nat /\ NumbersIn(s) \subseteq Nat
    BY <1>1, <1>5, OutsideType
  <2>2. (\A n \in Outside(q) : n <= m) /\ \A n \in NumbersIn(s) : n <= m
    BY <1>1, <1>5 DEF Bounded
  <2>3. \A n \in Nat : n <= m => n < m + 1
    OBVIOUS
  <2> QED BY <2>1, <2>2, <2>3
<1>10. /\ \A n \in NumbersIn(q.socket) : n < m + 1
       /\ \A n \in NumbersIn(q.got) : n < m + 1
       /\ \A n \in NumbersIn(q.lost) : n < m + 1
  BY <1>9 DEF Outside
<1>11. Rising(x)
  <2>1. Ahead(s, one)
    BY <1>2, <1>9 DEF Ahead
  <2>2. Rising(s)
    BY <1>1, <1>5 DEF Ordered, InLine
  <2> QED BY <1>1, <1>2, <1>3, <2>1, <2>2, RisingConcat
<1>12. Ordered(p)
  <2>1. InLine(q.got, q.socket, s) /\ InLine(q.lost, q.socket, s)
    BY <1>1, <1>5 DEF Ordered
  <2>2. Ahead(q.got, x) /\ Ahead(q.lost, x) /\ Ahead(q.socket, x)
    BY <1>7, <1>10, <2>1 DEF InLine, Ahead
  <2> QED BY <1>6, <1>11, <2>1, <2>2 DEF Ordered, InLine
<1>13. Outside(p) = Outside(q)
  BY <1>6 DEF Outside
<1>14. Bounded(p, m + 1)
  BY <1>6, <1>7, <1>9, <1>13 DEF Bounded
<1>15. Out(p, A)
  <2>1. \A n \in A : n \in Outside(q) /\ \A k \in NumbersIn(s) : k > n
    BY <1>1, <1>5 DEF Out
  <2>2. \A n \in A : m + 1 > n
    BY <1>9, <2>1
  <2> QED BY <1>6, <1>7, <1>13, <2>1, <2>2 DEF Out
<1>16. Weight(p) = w + 1
  <2>1. Weight(p) = Tells(q.got) + Tells(q.lost) + Tells(q.socket) + (Tells(s) + 1) + q.dropped
    BY <1>6, <1>8 DEF Weight
  <2>2. w = Tells(q.got) + Tells(q.lost) + Tells(q.socket) + Tells(s) + q.dropped
    BY <1>1, <1>5 DEF Weight
  <2>3. /\ q.dropped \in Nat /\ Tells(q.socket) \in Nat /\ Tells(s) \in Nat
        /\ Tells(q.got) \in Nat /\ Tells(q.lost) \in Nat
    BY <1>1
  <2> QED BY <2>1, <2>2, <2>3
<1> QED BY <1>4, <1>6, <1>12, <1>14, <1>15, <1>16 DEF Good

(* A marker put behind the others tells of what was dropped instead.       *)
LEMMA GapQueued ==
  ASSUME NEW m, NEW A, NEW w, NEW q \in Good(m, A, w)
  PROVE  [q EXCEPT !.pending = Append(@, Gap(q.dropped)), !.dropped = 0] \in Good(m, A, w)
<1> DEFINE s == q.pending
           n == q.dropped
           one == <<Gap(n)>>
           x == Append(s, Gap(n))
           p == [q EXCEPT !.pending = x, !.dropped = 0]
<1>1. /\ q \in QueueState /\ Ordered(q) /\ Bounded(q, m) /\ Out(q, A) /\ Weight(q) = w
      /\ s \in Seq(Entry) /\ q.socket \in Seq(Entry) /\ q.got \in Seq(Entry)
      /\ q.lost \in Seq(Entry) /\ n \in Nat
      /\ Tells(s) \in Nat /\ Tells(q.socket) \in Nat
      /\ Tells(q.got) \in Nat /\ Tells(q.lost) \in Nat
  BY GoodTypes
<1>2. /\ Gap(n) \in Entry /\ one \in Seq(Entry)
      /\ NumbersIn(one) = {} /\ Rising(one) /\ Tells(one) = n
  BY <1>1, GapIs
<1>3. x = s \o one /\ x \in Seq(Entry)
  <2> DEFINE g == Gap(n)
  <2>1. g \in Entry
    BY <1>2
  <2> HIDE DEF s, g
  <2>2. Append(s, g) \in Seq(Entry)
    BY <1>1, <2>1
  <2>3. Append(s, g) = s \o <<g>>
    BY <1>1, <2>1, AppendIsConcat
  <2> QED BY <2>2, <2>3 DEF g
<1>4. [q EXCEPT !.pending = Append(@, Gap(q.dropped)), !.dropped = 0] = p
  BY <1>1 DEF QueueState
<1>5. q.pending = s /\ q.dropped = n
  OBVIOUS
<1>6. /\ p \in QueueState /\ p.socket = q.socket /\ p.pending = x /\ p.got = q.got
      /\ p.lost = q.lost /\ p.dropped = 0
  <2> HIDE DEF x
  <2> QED BY <1>1, <1>3 DEF QueueState
<1> HIDE DEF p, s, one, x, n
<1>7. NumbersIn(x) = NumbersIn(s)
  <2>1. s \in Seq(Entry) /\ one \in Seq(Entry)
    BY <1>1, <1>2
  <2>2. NumbersIn(s \o one) = NumbersIn(s) \cup NumbersIn(one)
    BY <2>1, NumbersConcat
  <2> QED BY <1>2, <1>3, <2>2
<1>8. Tells(x) = Tells(s) + n
  BY <1>1, <1>2, <1>3, TellsConcat
<1>9. Rising(x) <=> Rising(s)
  BY <1>1, <1>2, <1>3, RisingConcat DEF Ahead
<1>10. Ordered(p)
  <2>1. InLine(q.got, q.socket, s) /\ InLine(q.lost, q.socket, s)
    BY <1>1, <1>5 DEF Ordered
  <2> QED BY <1>6, <1>7, <1>9, <2>1 DEF Ordered, InLine, Ahead
<1>11. Outside(p) = Outside(q)
  BY <1>6 DEF Outside
<1>12. Bounded(p, m) /\ Out(p, A)
  BY <1>1, <1>5, <1>6, <1>7, <1>11 DEF Bounded, Out
<1>13. Weight(p) = w
  BY <1>1, <1>5, <1>6, <1>8 DEF Weight
<1> QED BY <1>4, <1>6, <1>10, <1>12, <1>13 DEF Good

(* A human record that is counted and not kept.                            *)
LEMMA DropGood ==
  ASSUME NEW m \in Nat, NEW A, NEW w \in Int, NEW q \in Good(m, A, w)
  PROVE  [q EXCEPT !.dropped = @ + 1] \in Good(m + 1, A, w + 1)
<1> DEFINE n == q.dropped + 1
           p == [q EXCEPT !.dropped = n]
<1>1. q \in Good(m + 1, A, w)
  BY MoreGood
<1>2. /\ q \in QueueState /\ Ordered(q) /\ Bounded(q, m + 1) /\ Out(q, A) /\ Weight(q) = w
      /\ q.dropped \in Nat
      /\ Tells(q.pending) \in Nat /\ Tells(q.socket) \in Nat
      /\ Tells(q.got) \in Nat /\ Tells(q.lost) \in Nat
  BY <1>1, GoodTypes
<1>3. [q EXCEPT !.dropped = @ + 1] = p
  BY <1>2 DEF QueueState
<1>4. n \in Nat /\ n = q.dropped + 1
  BY <1>2
<1> HIDE DEF n
<1>5. /\ p \in QueueState /\ p.pending = q.pending /\ p.socket = q.socket /\ p.got = q.got
      /\ p.lost = q.lost /\ p.dropped = n
  BY <1>2, <1>4 DEF QueueState
<1> HIDE DEF p
<1>6. Ordered(p) /\ Bounded(p, m + 1) /\ Out(p, A)
  BY <1>2, <1>5 DEF Ordered, Bounded, Out, Outside
<1>7. Weight(p) = w + 1
  BY <1>2, <1>4, <1>5 DEF Weight
<1> QED BY <1>3, <1>5, <1>6, <1>7 DEF Good

(* A record of the human is kept behind a marker, or counted.              *)
LEMMA QueueHumanGood ==
  ASSUME NEW m \in Nat, NEW A, NEW w \in Int, NEW q \in Good(m, A, w), NEW r, NextRecord(r, m)
  PROVE  Queue!QueueHuman(q, r) \in Good(m + 1, A, w + 1)
<1>1. q \in QueueState /\ q.pending \in Seq(Entry) /\ q.dropped \in Nat /\ r \in Entry
  BY GoodTypes DEF NextRecord
<1>2. CASE Len(q.pending) >= Ring
  BY <1>2, DropGood DEF Queue!QueueHuman
<1>3. CASE ~(Len(q.pending) >= Ring) /\ ~(q.dropped > 0)
  <2> DEFINE s == q.pending
  <2>1. s \in Seq(Entry)
    BY <1>1
  <2>2. s \o <<r>> = Append(s, r)
    <3> HIDE DEF s
    <3> QED BY <1>1, <2>1, AppendIsConcat
  <2>3. Queue!QueueHuman(q, r) = [q EXCEPT !.pending = s \o <<r>>, !.dropped = 0]
    BY <1>3 DEF Queue!QueueHuman
  <2> DEFINE x == Append(s, r)
  <2>4. q.dropped = 0
    BY <1>1, <1>3
  <2>5. [q EXCEPT !.pending = x, !.dropped = 0] = [q EXCEPT !.pending = x]
    <3> HIDE DEF x
    <3> QED BY <1>1, <2>4 DEF QueueState
  <2>6. [q EXCEPT !.pending = Append(@, r)] = [q EXCEPT !.pending = x]
    BY <1>1 DEF QueueState
  <2>7. [q EXCEPT !.pending = Append(@, r)] \in Good(m + 1, A, w + 1)
    BY QueuedGood
  <2>8. Queue!QueueHuman(q, r) = [q EXCEPT !.pending = x, !.dropped = 0]
    BY <2>2, <2>3
  <2> HIDE DEF x, s
  <2>9. Queue!QueueHuman(q, r) = [q EXCEPT !.pending = Append(@, r)]
    BY <2>5, <2>6, <2>8, Zenon
  <2> QED BY <2>7, <2>9, Zenon
<1>4. CASE ~(Len(q.pending) >= Ring) /\ q.dropped > 0
  <2> DEFINE s == q.pending
             g == Gap(q.dropped)
             x == Append(s, g)
             y == Append(x, r)
             p == [q EXCEPT !.pending = x, !.dropped = 0]
  <2>1. s \in Seq(Entry) /\ g \in Entry
    BY <1>1, GapIs
  <2>2. s \o <<g, r>> = y /\ x \in Seq(Entry) /\ y \in Seq(Entry)
    <3> HIDE DEF s, g
    <3> QED BY <1>1, <2>1
  <2>3. Queue!QueueHuman(q, r) = [q EXCEPT !.pending = s \o <<g, r>>, !.dropped = 0]
    BY <1>4 DEF Queue!QueueHuman, Queue!Gap, Gap
  <2>4. p \in Good(m, A, w)
    <3>1. [q EXCEPT !.pending = Append(@, Gap(q.dropped)), !.dropped = 0] \in Good(m, A, w)
      BY GapQueued
    <3>2. [q EXCEPT !.pending = Append(@, Gap(q.dropped)), !.dropped = 0] = p
      BY <1>1 DEF QueueState
    <3> QED BY <3>1, <3>2
  <2>5. [p EXCEPT !.pending = Append(@, r)] \in Good(m + 1, A, w + 1)
    <3> HIDE DEF p
    <3> QED BY <2>4, QueuedGood
  <2>6. [p EXCEPT !.pending = Append(@, r)] = [q EXCEPT !.pending = y, !.dropped = 0]
    <3> HIDE DEF g, s
    <3>1. p \in QueueState /\ p.pending = x
      <4> HIDE DEF x
      <4> QED BY <1>1, <2>2 DEF QueueState
    <3>2. [p EXCEPT !.pending = Append(@, r)] = [p EXCEPT !.pending = y]
      <4> HIDE DEF p, x
      <4> QED BY <3>1 DEF QueueState
    <3>3. [p EXCEPT !.pending = y] = [q EXCEPT !.pending = y, !.dropped = 0]
      <4> HIDE DEF x, y
      <4> QED BY <1>1 DEF QueueState
    <3> QED BY <3>2, <3>3
  <2> QED BY <2>2, <2>3, <2>5, <2>6
<1> QED BY <1>2, <1>3, <1>4

(* policyd's end closes on what it did not read.                           *)
LEMMA CutGood ==
  ASSUME NEW m, NEW A, NEW w, NEW q \in Good(m, A, w)
  PROVE  Queue!Cut(q) \in Good(m, A, w)
<1> DEFINE s == q.socket
           l == q.lost
           x == l \o s
           e == <<>>
           p == [q EXCEPT !.alive = FALSE, !.socket = e, !.lost = x]
<1>1. /\ q \in QueueState /\ Ordered(q) /\ Bounded(q, m) /\ Out(q, A) /\ Weight(q) = w
      /\ s \in Seq(Entry) /\ q.pending \in Seq(Entry) /\ q.got \in Seq(Entry)
      /\ l \in Seq(Entry) /\ q.dropped \in Nat
      /\ Tells(s) \in Nat /\ Tells(q.pending) \in Nat
      /\ Tells(q.got) \in Nat /\ Tells(l) \in Nat
  BY GoodTypes
<1>2. q.socket = s /\ q.lost = l
  OBVIOUS
<1>3. Queue!Cut(q) = p
  BY <1>1 DEF Queue!Cut, QueueState
<1>4. e \in Seq(Entry)
  OBVIOUS
<1>5. NumbersIn(e) = {} /\ Rising(e)
  BY NumbersSingle, RisingSingle
<1>6. Tells(e) = 0
  <2>1. Gap(0) \in Entry
    BY GapIs
  <2> QED BY <2>1, TellsSingle
<1> HIDE DEF s, l, e, x
<1>7. /\ x \in Seq(Entry) /\ NumbersIn(x) = NumbersIn(l) \cup NumbersIn(s)
      /\ (Rising(x) <=> Rising(l) /\ Rising(s) /\ Ahead(l, s))
      /\ Tells(x) = Tells(l) + Tells(s)
  <2>1. l \o s \in Seq(Entry)
    BY <1>1
  <2>2. NumbersIn(l \o s) = NumbersIn(l) \cup NumbersIn(s)
    BY <1>1, NumbersConcat
  <2>3. Rising(l \o s) <=> Rising(l) /\ Rising(s) /\ Ahead(l, s)
    BY <1>1, RisingConcat
  <2>4. Tells(l \o s) = Tells(l) + Tells(s)
    BY <1>1, TellsConcat
  <2> QED BY <2>1, <2>2, <2>3, <2>4 DEF x
<1>8. /\ p \in QueueState /\ p.socket = e /\ p.pending = q.pending /\ p.got = q.got
      /\ p.lost = x /\ p.dropped = q.dropped
  BY <1>1, <1>4, <1>7 DEF QueueState
<1> HIDE DEF p
<1>9. Ordered(p)
  <2>1. InLine(q.got, s, q.pending) /\ InLine(l, s, q.pending)
    BY <1>1, <1>2 DEF Ordered
  <2> QED BY <1>5, <1>7, <1>8, <2>1 DEF Ordered, InLine, Ahead
<1>10. Outside(p) = Outside(q)
  BY <1>2, <1>5, <1>7, <1>8 DEF Outside
<1>11. Bounded(p, m) /\ Out(p, A)
  BY <1>1, <1>8, <1>10 DEF Bounded, Out
<1>12. Weight(p) = w
  BY <1>1, <1>2, <1>6, <1>7, <1>8 DEF Weight
<1> QED BY <1>3, <1>8, <1>9, <1>11, <1>12 DEF Good

(* The inductive invariant.                                                *)
Accepted == made - Cardinality(refused)
QueueInv ==
  made \in Nat /\ refused \subseteq 1..made /\ queue \in Good(made, admitted, Accepted)

(* One more record, kept or refused.                                       *)
LEMMA RefusedIs ==
  ASSUME NEW m \in Nat, NEW R \in SUBSET (1..m)
  PROVE  /\ R \in SUBSET (1..(m + 1)) /\ R \cup {m + 1} \in SUBSET (1..(m + 1))
         /\ Cardinality(R) \in Nat
         /\ Cardinality(R \cup {m + 1}) = Cardinality(R) + 1
<1>1. IsFiniteSet(R)
  <2>1. IsFiniteSet(1..m)
    BY FS_Interval
  <2>2. R \subseteq 1..m
    OBVIOUS
  <2> QED BY <2>1, <2>2, FS_Subset
<1>2. m + 1 \notin R
  OBVIOUS
<1>3. Cardinality(R) \in Nat
  BY <1>1, FS_CardinalityType
<1>4. Cardinality(R \cup {m + 1}) = Cardinality(R) + 1
  BY <1>1, <1>2, FS_AddElement
<1> QED BY <1>3, <1>4

(* Nothing was made and nothing waits.                                     *)
LEMMA QueueInitially ==
  Queue!Init => QueueInv
<1> SUFFICES ASSUME Queue!Init PROVE QueueInv
  OBVIOUS
<1> DEFINE e == <<>>
<1>1. made = 0 /\ admitted = {} /\ refused = {}
      /\ queue = [up |-> FALSE, alive |-> FALSE, edge |-> FALSE, pending |-> e, dropped |-> 0,
                  socket |-> e, got |-> e, lost |-> e]
  BY DEF Queue!Init
<1>2. e \in Seq(Entry)
  OBVIOUS
<1>3. NumbersIn(e) = {} /\ Rising(e)
  BY NumbersSingle, RisingSingle
<1>4. Tells(e) = 0
  <2>1. Gap(0) \in Entry
    BY GapIs
  <2> QED BY <2>1, TellsSingle
<1> HIDE DEF e
<1>5. /\ queue \in QueueState /\ queue.pending = e /\ queue.socket = e /\ queue.got = e
      /\ queue.lost = e /\ queue.dropped = 0
  BY <1>1, <1>2 DEF QueueState
<1>6. Ordered(queue)
  BY <1>3, <1>5 DEF Ordered, InLine, Ahead
<1>7. Bounded(queue, 0) /\ Out(queue, {})
  BY <1>3, <1>5 DEF Bounded, Out, Outside
<1>8. Weight(queue) = 0
  BY <1>4, <1>5 DEF Weight
<1>9. Accepted = 0
  <2>1. Cardinality({}) = 0
    BY FS_EmptySet
  <2> QED BY <1>1, <2>1 DEF Accepted
<1>10. queue \in Good(0, {}, 0)
  BY <1>5, <1>6, <1>7, <1>8 DEF Good
<1> QED BY <1>1, <1>9, <1>10 DEF QueueInv

(* What the invariant says of the number of records kept, too.             *)
LEMMA KeptType ==
  ASSUME QueueInv
  PROVE  /\ made \in Nat /\ refused \in SUBSET (1..made) /\ Accepted \in Int
         /\ queue \in Good(made, admitted, Accepted)
<1>1. /\ made \in Nat /\ refused \in SUBSET (1..made)
      /\ queue \in Good(made, admitted, Accepted)
  BY DEF QueueInv
<1>2. Cardinality(refused) \in Nat
  BY <1>1, RefusedIs
<1>3. Accepted \in Int
  BY <1>1, <1>2 DEF Accepted
<1> QED BY <1>1, <1>3

(* A record made and kept, in the queue or out.                            *)
LEMMA KeptOneMore ==
  ASSUME QueueInv, made' = made + 1, refused' = refused,
         queue' \in Good(made + 1, admitted', Accepted + 1)
  PROVE  QueueInv'
<1>1. made \in Nat /\ refused \in SUBSET (1..made) /\ Accepted \in Int
  BY KeptType
<1>2. Cardinality(refused) \in Nat
  BY <1>1, RefusedIs
<1>3. Accepted' = Accepted + 1
  BY <1>1, <1>2 DEF Accepted
<1> QED BY <1>1, <1>3, RefusedIs DEF QueueInv

(* No record made, and those there were are where they were.               *)
LEMMA KeptNoMore ==
  ASSUME QueueInv, made' = made, refused' = refused, admitted' = admitted,
         queue' \in Good(made, admitted, Accepted)
  PROVE  QueueInv'
BY DEF QueueInv, Accepted

(* The record a handler writes has the next number.                        *)
LEMMA RecordNext ==
  ASSUME NEW k \in Kinds, made \in Nat
  PROVE  NextRecord(Queue!Record(k), made)
BY DEF NextRecord, Queue!Record, IsRecord, Kinds, Entry

(* A request goes behind an empty queue, or is refused.                    *)
LEMMA BeginKeeps ==
  ASSUME QueueInv, Queue!Begin
  PROVE  QueueInv'
<1> DEFINE r == Queue!Record("request")
<1>1. made \in Nat /\ refused \in SUBSET (1..made) /\ Accepted \in Int
      /\ queue \in Good(made, admitted, Accepted)
  BY KeptType
<1>2. made' = made + 1
  BY DEF Queue!Begin, Queue!Makes
<1>3. NextRecord(r, made)
  BY <1>1, RecordNext DEF Kinds
<1> HIDE DEF r
<1>4. PICK q \in Queue!Flush(queue) :
        IF ~Queue!Backlogged(q) /\ Queue!CanSend(q)
        THEN queue' = Queue!TrySend(q, r) /\ admitted' = admitted \cup {made'} /\ refused' = refused
        ELSE queue' = q /\ refused' = refused \cup {made'} /\ admitted' = admitted
  BY DEF Queue!Begin, r
<1>5. q \in Good(made, admitted, Accepted)
  BY <1>1, FlushGood
<1>6. CASE ~Queue!Backlogged(q) /\ Queue!CanSend(q)
  <2>1. queue' = Queue!TrySend(q, r) /\ admitted' = admitted \cup {made + 1} /\ refused' = refused
    BY <1>2, <1>4, <1>6
  <2>2. q.pending = <<>>
    BY <1>6 DEF Queue!Backlogged
  <2>3. Queue!TrySend(q, r) \in Good(made + 1, admitted \cup {made + 1}, Accepted + 1)
    BY <1>1, <1>3, <1>5, <2>2, SentGood
  <2> QED BY <1>2, <2>1, <2>3, KeptOneMore
<1>7. CASE ~(~Queue!Backlogged(q) /\ Queue!CanSend(q))
  <2>1. queue' = q /\ refused' = refused \cup {made + 1} /\ admitted' = admitted
    BY <1>2, <1>4, <1>7
  <2>2. q \in Good(made + 1, admitted, Accepted)
    BY <1>1, <1>5, MoreGood
  <2>3. Accepted' = Accepted
    BY <1>1, <1>2, <2>1, RefusedIs DEF Accepted
  <2> QED BY <1>1, <1>2, <2>1, <2>2, <2>3, RefusedIs DEF QueueInv
<1> QED BY <1>6, <1>7

(* An agent's record waits behind what is queued.                          *)
LEMMA AgentKeeps ==
  ASSUME QueueInv, Queue!Agent
  PROVE  QueueInv'
<1> DEFINE r == Queue!Record("agent")
<1>1. made \in Nat /\ Accepted \in Int /\ queue \in Good(made, admitted, Accepted)
  BY KeptType
<1>2. made' = made + 1 /\ refused' = refused /\ admitted' = admitted
  BY DEF Queue!Agent, Queue!Makes
<1>3. NextRecord(r, made)
  BY <1>1, RecordNext DEF Kinds
<1> HIDE DEF r
<1>4. PICK q \in Queue!Flush(queue) :
        queue' = IF ~Queue!Backlogged(q) /\ Queue!CanSend(q) THEN Queue!TrySend(q, r)
                 ELSE [q EXCEPT !.pending = Append(@, r)]
  BY DEF Queue!Agent, r
<1>5. q \in Good(made, admitted, Accepted)
  BY <1>1, FlushGood
<1>6. [q EXCEPT !.pending = Append(@, r)] \in Good(made + 1, admitted, Accepted + 1)
  BY <1>1, <1>3, <1>5, QueuedGood
<1>7. ~Queue!Backlogged(q) => Queue!TrySend(q, r) \in Good(made + 1, admitted, Accepted + 1)
  BY <1>1, <1>3, <1>5, SentGood DEF Queue!Backlogged
<1>8. queue' \in Good(made + 1, admitted', Accepted + 1)
  BY <1>2, <1>4, <1>6, <1>7
<1> QED BY <1>2, <1>8, KeptOneMore

(* The human's waits in the ring.                                          *)
LEMMA HumanKeeps ==
  ASSUME QueueInv, Queue!Human
  PROVE  QueueInv'
<1> DEFINE r == Queue!Record("human")
<1>1. made \in Nat /\ Accepted \in Int /\ queue \in Good(made, admitted, Accepted)
  BY KeptType
<1>2. made' = made + 1 /\ refused' = refused /\ admitted' = admitted
  BY DEF Queue!Human, Queue!Makes
<1>3. NextRecord(r, made)
  BY <1>1, RecordNext DEF Kinds
<1> HIDE DEF r
<1>4. PICK q \in Queue!Flush(queue) :
        queue' = IF ~Queue!Backlogged(q) /\ Queue!CanSend(q) THEN Queue!TrySend(q, r)
                 ELSE Queue!QueueHuman(q, r)
  BY DEF Queue!Human, r
<1>5. q \in Good(made, admitted, Accepted)
  BY <1>1, FlushGood
<1>6. Queue!QueueHuman(q, r) \in Good(made + 1, admitted, Accepted + 1)
  BY <1>1, <1>3, <1>5, QueueHumanGood
<1>7. ~Queue!Backlogged(q) => Queue!TrySend(q, r) \in Good(made + 1, admitted, Accepted + 1)
  BY <1>1, <1>3, <1>5, SentGood DEF Queue!Backlogged
<1>8. queue' \in Good(made + 1, admitted', Accepted + 1)
  BY <1>2, <1>4, <1>6, <1>7
<1> QED BY <1>2, <1>8, KeptOneMore

(* A link message waits behind the others before any of them is sent.      *)
LEMMA MessageKeeps ==
  ASSUME QueueInv, Queue!Message
  PROVE  QueueInv'
<1> DEFINE r == Queue!Record("message")
           q == [queue EXCEPT !.pending = Append(@, r)]
<1>1. made \in Nat /\ Accepted \in Int /\ queue \in Good(made, admitted, Accepted)
  BY KeptType
<1>2. made' = made + 1 /\ refused' = refused /\ admitted' = admitted
  BY DEF Queue!Message, Queue!Makes
<1>3. NextRecord(r, made)
  BY <1>1, RecordNext DEF Kinds
<1>4. queue' \in Queue!Flush(q)
  BY DEF Queue!Message
<1> HIDE DEF r
<1>5. q \in Good(made + 1, admitted, Accepted + 1)
  BY <1>1, <1>3, QueuedGood
<1> HIDE DEF q
<1>6. queue' \in Good(made + 1, admitted', Accepted + 1)
  BY <1>2, <1>4, <1>5, FlushGood
<1> QED BY <1>2, <1>6, KeptOneMore

(* A step that makes no record.                                            *)
LEMMA QuietKeeps ==
  ASSUME QueueInv,
         \/ Queue!PolicydReads \/ Queue!Writable \/ Queue!Up \/ Queue!PolicydDies
         \/ Queue!LinkDown \/ Queue!HookChanges
  PROVE  QueueInv'
<1>1. made' = made /\ refused' = refused /\ admitted' = admitted
  BY DEF Queue!PolicydReads, Queue!Writable, Queue!Up, Queue!PolicydDies, Queue!LinkDown,
         Queue!HookChanges, Queue!Quiet
<1> DEFINE G == Good(made, admitted, Accepted)
<1>2. queue \in G /\ queue \in QueueState
  BY KeptType, GoodTypes
<1>3. \A q \in G : q \in QueueState /\ Queue!Took(q) \subseteq G /\ Queue!Flush(q) \subseteq G
  BY TookGood, FlushGood, GoodTypes
<1>4. \A q \in G : Queue!Cut(q) \in G
  BY CutGood
<1>5. \A q \in G : Queue!Down(q) \in G
  <2> SUFFICES ASSUME NEW q \in G PROVE Queue!Down(q) \in G
    OBVIOUS
  <2> DEFINE p == Queue!Down(q)
  <2>1. q \in QueueState
    BY <1>3
  <2>2. /\ p \in QueueState /\ p.pending = q.pending /\ p.socket = q.socket /\ p.got = q.got
        /\ p.lost = q.lost /\ p.dropped = q.dropped
    BY <2>1 DEF Queue!Down, QueueState
  <2> HIDE DEF p
  <2>3. p \in G
    BY <2>2, SameGood
  <2> QED BY <2>3 DEF p
<1>6. [queue EXCEPT !.edge = FALSE] \in G
  <2> DEFINE p == [queue EXCEPT !.edge = FALSE]
  <2>1. /\ p \in QueueState /\ p.pending = queue.pending /\ p.socket = queue.socket
        /\ p.got = queue.got /\ p.lost = queue.lost /\ p.dropped = queue.dropped
    BY <1>2 DEF QueueState
  <2> HIDE DEF p
  <2>2. p \in G
    BY <1>2, <2>1, SameGood
  <2> QED BY <2>2 DEF p
<1>7. [queue EXCEPT !.up = TRUE, !.alive = TRUE, !.edge = TRUE] \in G
  <2> DEFINE p == [queue EXCEPT !.up = TRUE, !.alive = TRUE, !.edge = TRUE]
  <2>1. /\ p \in QueueState /\ p.pending = queue.pending /\ p.socket = queue.socket
        /\ p.got = queue.got /\ p.lost = queue.lost /\ p.dropped = queue.dropped
    BY <1>2 DEF QueueState
  <2> HIDE DEF p
  <2>2. p \in G
    BY <1>2, <2>1, SameGood
  <2> QED BY <2>2 DEF p
<1> HIDE DEF G
<1>8. CASE Queue!PolicydReads
  <2>1. queue' \in Queue!Took(queue)
    BY <1>8 DEF Queue!PolicydReads
  <2>2. queue' \in G
    BY <1>2, <1>3, <2>1
  <2> QED BY <1>1, <2>2, KeptNoMore DEF G
<1>9. CASE Queue!Writable
  <2>1. queue' \in Queue!Flush([queue EXCEPT !.edge = FALSE])
    BY <1>9 DEF Queue!Writable
  <2>2. queue' \in G
    BY <1>3, <1>6, <2>1
  <2> QED BY <1>1, <2>2, KeptNoMore DEF G
<1>10. CASE Queue!Up
  <2>1. queue' \in Queue!Flush([queue EXCEPT !.up = TRUE, !.alive = TRUE, !.edge = TRUE])
    BY <1>10 DEF Queue!Up
  <2>2. queue' \in G
    BY <1>3, <1>7, <2>1
  <2> QED BY <1>1, <2>2, KeptNoMore DEF G
<1>11. CASE Queue!PolicydDies
  <2>1. queue' \in G
    BY <1>2, <1>4, <1>11 DEF Queue!PolicydDies
  <2> QED BY <1>1, <2>1, KeptNoMore DEF G
<1>12. CASE Queue!LinkDown
  <2>1. queue' \in G
    BY <1>2, <1>5, <1>12 DEF Queue!LinkDown
  <2> QED BY <1>1, <2>1, KeptNoMore DEF G
<1>13. CASE Queue!HookChanges
  <2>1. queue' = queue \/ \E q \in Queue!Took(queue) : queue' = Queue!Down(Queue!Cut(q))
    BY <1>13 DEF Queue!HookChanges
  <2>2. \A q \in Queue!Took(queue) : Queue!Down(Queue!Cut(q)) \in G
    BY <1>2, <1>3, <1>4, <1>5
  <2>3. queue' \in G
    BY <1>2, <2>1, <2>2
  <2> QED BY <1>1, <2>3, KeptNoMore DEF G
<1> QED BY <1>8, <1>9, <1>10, <1>11, <1>12, <1>13

(* Every step keeps it.                                                    *)
LEMMA QueueStep ==
  QueueInv /\ [Queue!Next]_(Queue!vars) => QueueInv'
<1> SUFFICES ASSUME QueueInv, [Queue!Next]_(Queue!vars) PROVE QueueInv'
  OBVIOUS
<1>1. CASE Queue!Begin
  BY <1>1, BeginKeeps
<1>2. CASE Queue!Agent
  BY <1>2, AgentKeeps
<1>3. CASE Queue!Message
  BY <1>3, MessageKeeps
<1>4. CASE Queue!Human
  BY <1>4, HumanKeeps
<1>5. CASE \/ Queue!PolicydReads \/ Queue!Writable \/ Queue!Up \/ Queue!PolicydDies
           \/ Queue!LinkDown \/ Queue!HookChanges
  BY <1>5, QuietKeeps
<1>6. CASE UNCHANGED Queue!vars
  BY <1>6 DEF Queue!vars, QueueInv, Accepted
<1> QED BY <1>1, <1>2, <1>3, <1>4, <1>5, <1>6 DEF Queue!Next

(* The invariant always holds: what was read, lost, sent and queued is in  *)
(* order and tells of every record made, at every step of begin, agent,    *)
(* human, message and of what the link does.                               *)
THEOREM QueueHolds == Queue!Spec => []QueueInv
<1>1. Queue!Init => QueueInv
  BY QueueInitially
<1>2. QueueInv /\ [Queue!Next]_(Queue!vars) => QueueInv'
  BY QueueStep
<1> QED BY <1>1, <1>2, PTL DEF Queue!Spec

(* In order, part by part: in order as a whole.                            *)
LEMMA QueueIsInOrder ==
  ASSUME QueueInv
  PROVE  NoneOvertakes
<1> DEFINE s == queue.socket
           t == queue.pending
<1>1. /\ Ordered(queue) /\ queue.got \in Seq(Entry) /\ queue.lost \in Seq(Entry)
      /\ s \in Seq(Entry) /\ t \in Seq(Entry)
  BY KeptType, GoodTypes
<1>2. ASSUME NEW a \in Seq(Entry), InLine(a, s, t)
      PROVE  Rising(a \o s \o t)
  <2> HIDE DEF s, t
  <2> DEFINE b == a \o s
  <2>1. b \in Seq(Entry)
    BY <1>1
  <2>2. NumbersIn(b) = NumbersIn(a) \cup NumbersIn(s)
    BY <1>1, NumbersConcat
  <2>3. Rising(b)
    BY <1>1, <1>2, RisingConcat DEF InLine
  <2> HIDE DEF b
  <2>4. Ahead(b, t)
    BY <1>2, <2>2 DEF InLine, Ahead
  <2>5. Rising(b \o t)
    BY <1>1, <1>2, <2>1, <2>3, <2>4, RisingConcat DEF InLine
  <2> QED BY <2>5 DEF b
<1>3. InLine(queue.got, s, t) /\ InLine(queue.lost, s, t)
  BY <1>1 DEF Ordered
<1>4. Rising(queue.got \o s \o t) /\ Rising(queue.lost \o s \o t)
  <2> HIDE DEF s, t
  <2> QED BY <1>1, <1>2, <1>3
<1> QED BY <1>4 DEF NoneOvertakes

(* What the parts tell of is what the whole does.                          *)
LEMMA QueueTellsOfAll ==
  ASSUME QueueInv
  PROVE  MissingIsToldOrCut
<1> DEFINE a == queue.got
           b == queue.lost
           c == queue.socket
           d == queue.pending
           n == Cardinality(refused)
<1>1. /\ Weight(queue) = Accepted /\ made \in Nat
      /\ a \in Seq(Entry) /\ b \in Seq(Entry) /\ c \in Seq(Entry) /\ d \in Seq(Entry)
      /\ queue.dropped \in Nat /\ Tells(a) \in Nat /\ Tells(b) \in Nat
      /\ Tells(c) \in Nat /\ Tells(d) \in Nat
  BY KeptType, GoodTypes
<1>2. n \in Nat
  BY KeptType, RefusedIs
<1>3. Tells(a) + Tells(b) + Tells(c) + Tells(d) + queue.dropped = made - n
  BY <1>1 DEF Weight, Accepted
<1>4. MissingIsToldOrCut <=> made = Tells(a \o c \o d) + Tells(b) + n + queue.dropped
  BY DEF MissingIsToldOrCut
<1> HIDE DEF a, b, c, d, n
<1>5. a \o c \in Seq(Entry)
  BY <1>1
<1>6. Tells(a \o c) = Tells(a) + Tells(c)
  BY <1>1, TellsConcat
<1>7. Tells(a \o c \o d) = Tells(a \o c) + Tells(d)
  BY <1>1, <1>5, TellsConcat
<1>8. made = Tells(a \o c \o d) + Tells(b) + n + queue.dropped
  <2> DEFINE v == queue.dropped
             ta == Tells(a)
             tb == Tells(b)
             tc == Tells(c)
             td == Tells(d)
  <2>1. /\ ta \in Nat /\ tb \in Nat /\ tc \in Nat /\ td \in Nat /\ v \in Nat
        /\ ta + tb + tc + td + v = made - n
    BY <1>1, <1>3
  <2>2. Tells(a \o c \o d) = ta + tc + td
    BY <1>6, <1>7
  <2> HIDE DEF v, ta, tb, tc, td
  <2>3. made = (ta + tc + td) + tb + n + v
    BY <1>1, <1>2, <2>1
  <2> QED BY <2>2, <2>3 DEF v, tb
<1> QED BY <1>4, <1>8

(* What is outside is read, lost or in the socket.                         *)
LEMMA QueueAdmittedAreOut ==
  ASSUME QueueInv
  PROVE  AdmittedIsOut
<1> DEFINE a == queue.got
           b == queue.lost
           c == queue.socket
<1>1. /\ Out(queue, admitted)
      /\ a \in Seq(Entry) /\ b \in Seq(Entry) /\ c \in Seq(Entry)
  BY KeptType, GoodTypes
<1>2. Outside(queue) = NumbersIn(a) \cup NumbersIn(b) \cup NumbersIn(c)
  BY DEF Outside
<1>3. AdmittedIsOut <=>
        \A n \in admitted : /\ n \in NumbersIn(a \o b \o c)
                            /\ \A m \in NumbersIn(queue.pending) : m > n
  BY DEF AdmittedIsOut
<1> HIDE DEF a, b, c
<1>4. a \o b \in Seq(Entry)
  BY <1>1
<1>5. NumbersIn(a \o b) = NumbersIn(a) \cup NumbersIn(b)
  BY <1>1, NumbersConcat
<1>6. NumbersIn(a \o b \o c) = NumbersIn(a \o b) \cup NumbersIn(c)
  <2> DEFINE v == a \o b
  <2>1. v \in Seq(Entry) /\ c \in Seq(Entry)
    BY <1>1, <1>4
  <2> HIDE DEF v
  <2>2. NumbersIn(v \o c) = NumbersIn(v) \cup NumbersIn(c)
    BY <2>1, NumbersConcat
  <2> QED BY <2>2 DEF v
<1>7. NumbersIn(a \o b \o c) = Outside(queue)
  BY <1>2, <1>5, <1>6
<1> QED
  <2>1. \A n \in admitted : /\ n \in Outside(queue)
                           /\ \A m \in NumbersIn(queue.pending) : m > n
    BY <1>1 DEF Out
  <2> QED BY <1>3, <1>7, <2>1

(* No record overtakes another, whatever its kind (audit/mod.rs, begin and *)
(* message): policyd reads them as things happened, with holes where it    *)
(* died.                                                                   *)
THEOREM RecordsInOrder == Queue!Spec => []NoneOvertakes
<1>1. QueueInv => NoneOvertakes
  BY QueueIsInOrder
<1> QED BY <1>1, QueueHolds, PTL

(* No record is left out in silence: it is kept, answered paused, counted  *)
(* by a marker or about to be (audit/mod.rs, queue_human and flush), once. *)
THEOREM RecordsAreTold == Queue!Spec => []MissingIsToldOrCut
<1>1. QueueInv => MissingIsToldOrCut
  BY QueueTellsOfAll
<1> QED BY <1>1, QueueHolds, PTL

(* A request that begin lets through has its record in the socket or       *)
(* beyond, and every record made before it too (audit/mod.rs, begin).      *)
THEOREM AdmittedAreOut == Queue!Spec => []AdmittedIsOut
<1>1. QueueInv => AdmittedIsOut
  BY QueueAdmittedAreOut
<1> QED BY <1>1, QueueHolds, PTL
===============================================================================
