----------------------------- MODULE SllProofs -----------------------------
(***************************************************************************)
(* Proofs about Sll, for any finite set of nodes, any lists and values:    *)
(* libsll implements sequences.                                            *)
(***************************************************************************)
EXTENDS Sll, Inductions, FiniteSetTheorems, SequenceTheorems

-----------------------------------------------------------------------------
(* A chain: the nodes of a list in order, each pointing to the next one.   *)
Pointers == SllNodes \cup {SllNil}
Distinct(q) == \A i, j \in 1 .. Len(q) : q[i] = q[j] => i = j
First(q) == IF Len(q) = 0 THEN SllNil ELSE q[1]
Behind(q, i) == IF i < Len(q) THEN q[i + 1] ELSE SllNil
Chain(q, p, next) ==
  /\ q \in Seq(SllNodes) /\ Distinct(q) /\ p = First(q)
  /\ \A i \in 1 .. Len(q) : next[q[i]] = Behind(q, i)
Nodes(q) == {q[i] : i \in 1 .. Len(q)}

(* Walking goes along the chain, and stays at its end.                     *)
LEMMA WalkFollows ==
  ASSUME NEW q, NEW p, Chain(q, p, sllNext), NEW n \in Nat
  PROVE  Walk(p, n) = Behind(q, n)
<1> DEFINE Moves(g, k) == IF k = 0 THEN p
                          ELSE IF g[k - 1] = SllNil THEN SllNil ELSE sllNext[g[k - 1]]
           f == CHOOSE g : g = [k \in 0 .. n |-> Moves(g, k)]
           along == [k \in 0 .. n |-> Behind(q, k)]
<1>1. q \in Seq(SllNodes) /\ Len(q) \in Nat /\ \A i \in 1 .. Len(q) : q[i] \in SllNodes
  BY LenProperties, ElementOfSeq DEF Chain
<1>2. Behind(q, 0) = p
  BY <1>1 DEF Chain, First, Behind
<1>3. ASSUME NEW k \in Nat \ {0}
      PROVE  Behind(q, k) = IF Behind(q, k - 1) = SllNil THEN SllNil
                            ELSE sllNext[Behind(q, k - 1)]
  <2>1. CASE k - 1 < Len(q)
    <3>1. k \in 1 .. Len(q) /\ Behind(q, k - 1) = q[k]
      BY <1>1, <2>1 DEF Behind
    <3>2. q[k] # SllNil
      BY <1>1, <3>1, SllAssumption
    <3> QED
      BY <3>1, <3>2 DEF Chain
  <2>2. CASE ~(k - 1 < Len(q))
    BY <1>1, <2>2 DEF Behind
  <2> QED
    BY <2>1, <2>2
<1>4. along = [k \in 0 .. n |-> Moves(along, k)]
  <2>1. ASSUME NEW k \in 0 .. n PROVE Behind(q, k) = Moves(along, k)
    <3>1. CASE k = 0
      BY <1>2, <3>1
    <3>2. CASE k # 0
      <4>1. k \in Nat \ {0} /\ k - 1 \in 0 .. n
        BY <3>2
      <4> QED
        BY <1>3, <4>1
    <3> QED
      BY <3>1, <3>2
  <2> QED
    BY <2>1
<1>5. f = [k \in 0 .. n |-> Moves(f, k)]
  <2> HIDE DEF along
  <2> QED
    BY <1>4
<1>6. Walk(p, n) = f[n]
  BY DEF Walk
<1> HIDE DEF f
<1>7. \A k \in Nat : k \in {j \in Nat : j <= n => f[j] = Behind(q, j)}
  <2> DEFINE S == {j \in Nat : j <= n => f[j] = Behind(q, j)}
  <2>1. 0 \in S
    BY <1>2, <1>5
  <2>2. ASSUME NEW k \in Nat, k \in S PROVE k + 1 \in S
    <3>1. SUFFICES ASSUME k + 1 <= n PROVE f[k + 1] = Behind(q, k + 1)
      OBVIOUS
    <3>2. k \in 0 .. n /\ k + 1 \in 0 .. n /\ k + 1 # 0 /\ (k + 1) - 1 = k /\ k <= n
      BY <3>1
    <3>3. f[k] = Behind(q, k)
      BY <2>2, <3>2
    <3>4. f[k + 1] = IF f[k] = SllNil THEN SllNil ELSE sllNext[f[k]]
      BY <1>5, <3>2
    <3> QED
      BY <1>3, <3>2, <3>3, <3>4
  <2> HIDE DEF S
  <2>3. \A k \in Nat : k \in S
    BY <2>1, <2>2, Induct
  <2> QED
    BY <2>3 DEF S
<1> QED
  BY <1>6, <1>7

-----------------------------------------------------------------------------
(* What the routines that walk find on a chain.                            *)

LEMMA ChainFacts ==
  ASSUME NEW q, NEW p, NEW next, Chain(q, p, next)
  PROVE  /\ Len(q) \in Nat /\ \A i \in 1 .. Len(q) : q[i] \in SllNodes
         /\ Len(q) <= Cardinality(SllNodes) /\ Cardinality(SllNodes) \in Nat
         /\ Cardinality(Nodes(q)) = Len(q)
<1>1. /\ q \in Seq(SllNodes) /\ Len(q) \in Nat /\ \A i \in 1 .. Len(q) : q[i] \in SllNodes
      /\ Distinct(q)
  BY LenProperties, ElementOfSeq DEF Chain
<1>2. IsFiniteSet(SllNodes) /\ Cardinality(SllNodes) \in Nat
  BY SllAssumption, FS_CardinalityType
<1>3. IsFiniteSet(1 .. Len(q)) /\ Cardinality(1 .. Len(q)) = Len(q)
  <2>1. 1 \in Int /\ Len(q) \in Int /\ (IF 1 > Len(q) THEN 0 ELSE Len(q) - 1 + 1) = Len(q)
    BY <1>1
  <2>2. /\ IsFiniteSet(1 .. Len(q))
        /\ Cardinality(1 .. Len(q)) = IF 1 > Len(q) THEN 0 ELSE Len(q) - 1 + 1
    BY <2>1, FS_Interval
  <2> QED
    BY <2>1, <2>2
<1> DEFINE f == [i \in 1 .. Len(q) |-> q[i]]
<1>4. f \in Injection(1 .. Len(q), SllNodes)
  <2>1. f \in [1 .. Len(q) -> SllNodes]
    BY <1>1
  <2>2. \A i, j \in 1 .. Len(q) : f[i] = f[j] => i = j
    BY <1>1 DEF Distinct
  <2> HIDE DEF f
  <2> QED
    BY <2>1, <2>2 DEF Injection, IsInjective
<1>5. f \in Surjection(1 .. Len(q), Nodes(q)) /\ f \in Injection(1 .. Len(q), Nodes(q))
  <2>1. f \in [1 .. Len(q) -> Nodes(q)]
    BY DEF Nodes
  <2>2. \A i, j \in 1 .. Len(q) : f[i] = f[j] => i = j
    BY <1>1 DEF Distinct
  <2>3. \A n \in Nodes(q) : \E i \in 1 .. Len(q) : f[i] = n
    BY DEF Nodes
  <2> HIDE DEF f
  <2> QED
    BY <2>1, <2>2, <2>3 DEF Injection, Surjection, IsInjective
<1> HIDE DEF f
<1>6. Len(q) <= Cardinality(SllNodes)
  BY <1>2, <1>3, <1>4, FS_Injection
<1>7. Cardinality(Nodes(q)) = Len(q)
  BY <1>3, <1>5, FS_Surjection
<1> QED
  BY <1>1, <1>2, <1>6, <1>7

LEMMA Found ==
  ASSUME NEW q, NEW p, Chain(q, p, sllNext)
  PROVE  /\ NumNodes(p) = Len(q)
         /\ \A i \in 1 .. Len(q) : GetNthNode(p, i) = q[i]
         /\ OnList(p) = Nodes(q)
         /\ Len(q) # 0 => LastNode(p) = q[Len(q)]
         /\ p = SllNil <=> Len(q) = 0
         /\ Walk(p, Cardinality(SllNodes)) = SllNil
<1> DEFINE N == Cardinality(SllNodes)
<1>1. /\ Len(q) \in Nat /\ \A i \in 1 .. Len(q) : q[i] \in SllNodes
      /\ Len(q) <= N /\ N \in Nat
  BY ChainFacts
<1> HIDE DEF N
<1>2. \A i \in Nat : Walk(p, i) = Behind(q, i)
  BY WalkFollows
<1>3. \A i \in Nat : Behind(q, i) # SllNil <=> i < Len(q)
  <2> TAKE i \in Nat
  <2>1. i < Len(q) => i + 1 \in 1 .. Len(q)
    BY <1>1
  <2> QED
    BY <1>1, <2>1, SllAssumption DEF Behind
<1>4. NumNodes(p) = Len(q)
  <2>1. {i \in 0 .. N - 1 : Walk(p, i) # SllNil} = 0 .. Len(q) - 1
    <3>1. ASSUME NEW i \in Nat PROVE Walk(p, i) # SllNil <=> i < Len(q)
      BY <1>2, <1>3
    <3> QED
      BY <1>1, <3>1
  <2>2. Cardinality(0 .. Len(q) - 1) = Len(q)
    <3> DEFINE last == Len(q) - 1
    <3>1. 0 \in Int /\ last \in Int /\ (IF 0 > last THEN 0 ELSE last - 0 + 1) = Len(q)
      BY <1>1
    <3> HIDE DEF last
    <3>2. Cardinality(0 .. last) = IF 0 > last THEN 0 ELSE last - 0 + 1
      BY <3>1, FS_Interval
    <3> QED
      BY <3>1, <3>2 DEF last
  <2> QED
    BY <2>1, <2>2 DEF NumNodes, N
<1>5. ASSUME NEW i \in 1 .. Len(q) PROVE GetNthNode(p, i) = q[i]
  <2>1. i - 1 \in Nat /\ i - 1 < Len(q) /\ (i - 1) + 1 = i
    BY <1>1
  <2> QED
    BY <1>2, <2>1 DEF GetNthNode, Behind
<1>6. OnList(p) = Nodes(q)
  BY <1>4, <1>5 DEF OnList, Nodes
<1>7. Len(q) # 0 => LastNode(p) = q[Len(q)]
  BY <1>1, <1>4, <1>5 DEF LastNode
<1>8. p = SllNil <=> Len(q) = 0
  BY <1>1, SllAssumption DEF Chain, First
<1>9. Walk(p, N) = SllNil
  BY <1>1, <1>2, <1>3
<1> QED
  BY <1>4, <1>5, <1>6, <1>7, <1>8, <1>9 DEF N

-----------------------------------------------------------------------------
(* One element more or less.                                               *)

Inserted(s, k, x) ==
  [i \in 1 .. Len(s) + 1 |-> IF i < k THEN s[i] ELSE IF i = k THEN x ELSE s[i - 1]]
Removed(s, k) == [i \in 1 .. Len(s) - 1 |-> IF i < k THEN s[i] ELSE s[i + 1]]

LEMMA InsertedIsSeq ==
  ASSUME NEW S, NEW s \in Seq(S), NEW k \in 1 .. Len(s) + 1, NEW x \in S
  PROVE  Inserted(s, k, x) \in Seq(S) /\ Len(Inserted(s, k, x)) = Len(s) + 1
<1> DEFINE t == Inserted(s, k, x)
<1>1. Len(s) \in Nat /\ k \in Nat /\ \A i \in 1 .. Len(s) : s[i] \in S
  BY LenProperties, ElementOfSeq
<1>2. t \in [1 .. Len(s) + 1 -> S]
  <2>1. ASSUME NEW i \in 1 .. Len(s) + 1
        PROVE  (IF i < k THEN s[i] ELSE IF i = k THEN x ELSE s[i - 1]) \in S
    <3>1. i < k => i \in 1 .. Len(s)
      BY <1>1
    <3>2. ~(i < k) /\ i # k => i - 1 \in 1 .. Len(s)
      BY <1>1
    <3> QED
      BY <1>1, <3>1, <3>2
  <2> QED
    BY <2>1 DEF Inserted
<1> HIDE DEF t
<1>3. Len(s) + 1 \in Nat
  BY <1>1
<1>4. t \in Seq(S)
  BY <1>2, <1>3, SeqDef
<1>5. Len(t) = Len(s) + 1
  BY <1>2, <1>3, <1>4, LenProperties
<1> QED
  BY <1>4, <1>5 DEF t

LEMMA InsertedShape ==
  ASSUME NEW S, NEW s \in Seq(S), NEW k \in 1 .. Len(s) + 1, NEW x \in S
  PROVE  /\ \A i \in 1 .. Len(s) : i < k => Inserted(s, k, x)[i] = s[i]
         /\ \A i \in 1 .. Len(s) : ~(i < k) => Inserted(s, k, x)[i + 1] = s[i]
         /\ Inserted(s, k, x)[k] = x
<1>1. Len(s) \in Nat /\ k \in Nat
  BY LenProperties
<1>2. ASSUME NEW i \in 1 .. Len(s), ~(i < k) PROVE Inserted(s, k, x)[i + 1] = s[i]
  <2>1. i + 1 \in 1 .. Len(s) + 1 /\ ~(i + 1 < k) /\ i + 1 # k /\ (i + 1) - 1 = i
    BY <1>1, <1>2
  <2> QED
    BY <2>1 DEF Inserted
<1> QED
  BY <1>1, <1>2 DEF Inserted

LEMMA RemovedShape ==
  ASSUME NEW S, NEW s \in Seq(S), NEW k \in 1 .. Len(s)
  PROVE  /\ Removed(s, k) \in Seq(S) /\ Len(Removed(s, k)) = Len(s) - 1
         /\ Len(s) \in Nat
         /\ \A i \in 1 .. Len(s) - 1 : Removed(s, k)[i] = IF i < k THEN s[i] ELSE s[i + 1]
<1> DEFINE t == Removed(s, k)
<1>1. Len(s) \in Nat /\ k \in Nat /\ \A i \in 1 .. Len(s) : s[i] \in S
  BY LenProperties, ElementOfSeq
<1>2. t \in [1 .. Len(s) - 1 -> S]
  <2>1. ASSUME NEW i \in 1 .. Len(s) - 1 PROVE (IF i < k THEN s[i] ELSE s[i + 1]) \in S
    BY <1>1
  <2> QED
    BY <2>1 DEF Removed
<1>3. \A i \in 1 .. Len(s) - 1 : t[i] = IF i < k THEN s[i] ELSE s[i + 1]
  BY DEF Removed
<1> HIDE DEF t
<1>4. t \in Seq(S) /\ Len(t) = Len(s) - 1
  <2>1. Len(s) - 1 \in Nat
    BY <1>1
  <2>2. t \in Seq(S)
    BY <1>2, <2>1, SeqDef
  <2> QED
    BY <1>2, <2>1, <2>2, LenProperties
<1> QED
  BY <1>1, <1>3, <1>4 DEF t

(* Where an element of the longer sequence comes from.                     *)
LEMMA InsertedFrom ==
  ASSUME NEW S, NEW s \in Seq(S), NEW k \in 1 .. Len(s) + 1, NEW x \in S,
         NEW j \in 1 .. Len(s) + 1
  PROVE  \/ j < k /\ j \in 1 .. Len(s) /\ Inserted(s, k, x)[j] = s[j]
         \/ j = k /\ Inserted(s, k, x)[j] = x
         \/ j > k /\ j - 1 \in 1 .. Len(s) /\ Inserted(s, k, x)[j] = s[j - 1]
<1>1. Len(s) \in Nat /\ k \in Nat
  BY LenProperties
<1>2. \/ j < k /\ j \in 1 .. Len(s)
      \/ j = k
      \/ j > k /\ j - 1 \in 1 .. Len(s)
  BY <1>1
<1> QED
  BY <1>1, <1>2 DEF Inserted

-----------------------------------------------------------------------------
(* The two changes of a chain.                                             *)

LEMMA ChainStays ==
  ASSUME NEW q, NEW p, NEW next, Chain(q, p, next),
         NEW next2, \A i \in 1 .. Len(q) : next2[q[i]] = next[q[i]]
  PROVE  Chain(q, p, next2)
BY DEF Chain

(* A new node comes before position k: it points to what was there, and    *)
(* the one before, or the head, to it.                                     *)
LinksIn(q, k, n, next, next2) ==
  /\ next2[n] = Behind(q, k - 1)
  /\ k > 1 => next2[q[k - 1]] = n
  /\ \A i \in 1 .. Len(q) : q[i] # n /\ (i # k - 1 => next2[q[i]] = next[q[i]])

LEMMA ChainGrows ==
  ASSUME NEW q, NEW p, NEW next, Chain(q, p, next),
         NEW k \in 1 .. Len(q) + 1, NEW n \in SllNodes,
         NEW next2, LinksIn(q, k, n, next, next2)
  PROVE  Chain(Inserted(q, k, n), IF k = 1 THEN n ELSE p, next2)
<1> DEFINE r == Inserted(q, k, n)
<1>0. \A i \in 1 .. Len(q) : q[i] # n
  BY DEF LinksIn
<1>1. /\ q \in Seq(SllNodes) /\ Len(q) \in Nat /\ Distinct(q) /\ p = First(q)
      /\ \A i \in 1 .. Len(q) : next[q[i]] = Behind(q, i)
  BY ChainFacts DEF Chain
<1>2. /\ r \in Seq(SllNodes) /\ Len(r) = Len(q) + 1
      /\ \A i \in 1 .. Len(q) : i < k => r[i] = q[i]
      /\ \A i \in 1 .. Len(q) : ~(i < k) => r[i + 1] = q[i]
      /\ r[k] = n
  BY <1>1, InsertedIsSeq, InsertedShape
<1>3. \A j \in 1 .. Len(q) + 1 :
        \/ j < k /\ j \in 1 .. Len(q) /\ r[j] = q[j]
        \/ j = k /\ r[j] = n
        \/ j > k /\ j - 1 \in 1 .. Len(q) /\ r[j] = q[j - 1]
  BY <1>1, InsertedFrom
<1> HIDE DEF r
<1>4. Distinct(r)
  <2> SUFFICES ASSUME NEW i \in 1 .. Len(q) + 1, NEW j \in 1 .. Len(q) + 1, r[i] = r[j]
               PROVE  i = j
    BY <1>2 DEF Distinct
  <2> USE DEF Distinct
  <2>1. CASE i = k
    BY <1>0, <1>3, <2>1
  <2>2. CASE j = k
    BY <1>0, <1>3, <2>2
  <2>3. CASE i < k /\ j < k
    BY <1>1, <1>3, <2>3
  <2>4. CASE i > k /\ j > k
    <3>1. /\ i - 1 \in 1 .. Len(q) /\ r[i] = q[i - 1]
          /\ j - 1 \in 1 .. Len(q) /\ r[j] = q[j - 1]
      BY <1>3, <2>4
    <3>2. i - 1 = j - 1
      BY <1>1, <3>1
    <3> QED
      BY <3>2
  <2>5. CASE i < k /\ j > k
    <3>1. /\ i \in 1 .. Len(q) /\ r[i] = q[i]
          /\ j - 1 \in 1 .. Len(q) /\ r[j] = q[j - 1]
      BY <1>3, <2>5
    <3>2. i = j - 1
      BY <1>1, <3>1
    <3> QED
      BY <2>5, <3>2
  <2>6. CASE i > k /\ j < k
    <3>1. /\ i - 1 \in 1 .. Len(q) /\ r[i] = q[i - 1]
          /\ j \in 1 .. Len(q) /\ r[j] = q[j]
      BY <1>3, <2>6
    <3>2. i - 1 = j
      BY <1>1, <3>1
    <3> QED
      BY <2>6, <3>2
  <2> QED
    BY <2>1, <2>2, <2>3, <2>4, <2>5, <2>6
<1>5. (IF k = 1 THEN n ELSE p) = First(r)
  <2>1. CASE k = 1
    BY <1>1, <1>2, <2>1 DEF First
  <2>2. CASE k # 1
    <3>1. 1 \in 1 .. Len(q) /\ 1 < k
      BY <1>1, <2>2
    <3> QED
      BY <1>1, <1>2, <2>2, <3>1 DEF First
  <2> QED
    BY <2>1, <2>2
<1>6. ASSUME NEW j \in 1 .. Len(q) + 1 PROVE next2[r[j]] = Behind(r, j)
  <2>1. CASE j = k
    <3>1. CASE k = Len(q) + 1
      BY <1>1, <1>2, <2>1, <3>1 DEF Behind, LinksIn
    <3>2. CASE k # Len(q) + 1
      <4>1. k \in 1 .. Len(q) /\ ~(k < k) /\ k - 1 < Len(q) /\ (k - 1) + 1 = k /\ k < Len(r)
        BY <1>1, <1>2, <3>2
      <4> QED
        BY <1>2, <2>1, <4>1 DEF Behind, LinksIn
    <3> QED
      BY <3>1, <3>2
  <2>2. CASE j = k - 1
    <3>1. j \in 1 .. Len(q) /\ j < k /\ k > 1 /\ j + 1 = k /\ j < Len(r)
      BY <1>1, <1>2, <2>2
    <3> QED
      BY <1>2, <2>2, <3>1 DEF Behind, LinksIn
  <2>3. CASE j < k - 1
    <3>1. /\ j \in 1 .. Len(q) /\ j < k /\ j # k - 1 /\ j < Len(r) /\ j < Len(q)
          /\ j + 1 \in 1 .. Len(q) /\ j + 1 < k
      BY <1>1, <1>2, <2>3
    <3>2. r[j] = q[j] /\ r[j + 1] = q[j + 1]
      BY <1>2, <3>1
    <3> QED
      BY <1>1, <3>1, <3>2 DEF Behind, LinksIn
  <2>4. CASE j > k
    <3>1. /\ j - 1 \in 1 .. Len(q) /\ ~(j - 1 < k) /\ (j - 1) + 1 = j /\ j - 1 # k - 1
          /\ (j < Len(r) <=> j - 1 < Len(q))
          /\ j < Len(r) => j \in 1 .. Len(q) /\ ~(j < k)
      BY <1>1, <1>2, <2>4
    <3>2. r[j] = q[j - 1] /\ (j < Len(r) => r[j + 1] = q[j])
      BY <1>2, <3>1
    <3>3. next2[r[j]] = Behind(q, j - 1)
      BY <1>1, <3>1, <3>2 DEF LinksIn
    <3> QED
      BY <3>1, <3>2, <3>3 DEF Behind
  <2> QED
    BY <1>1, <2>1, <2>2, <2>3, <2>4
<1> QED
  BY <1>2, <1>4, <1>5, <1>6 DEF Chain, r

(* A node goes: the one before, or the head, points behind it.             *)
LEMMA ChainShrinks ==
  ASSUME NEW q, NEW p, NEW next, Chain(q, p, next),
         NEW k \in 1 .. Len(q), NEW next2,
         k > 1 => next2[q[k - 1]] = Behind(q, k),
         \A i \in 1 .. Len(q) : i # k - 1 => next2[q[i]] = next[q[i]]
  PROVE  Chain(Removed(q, k), IF k = 1 THEN Behind(q, k) ELSE p, next2)
<1> DEFINE r == Removed(q, k)
<1>1. /\ q \in Seq(SllNodes) /\ Len(q) \in Nat /\ Distinct(q) /\ p = First(q)
      /\ \A i \in 1 .. Len(q) : next[q[i]] = Behind(q, i)
  BY ChainFacts DEF Chain
<1>2. /\ r \in Seq(SllNodes) /\ Len(r) = Len(q) - 1
      /\ \A i \in 1 .. Len(q) - 1 : r[i] = IF i < k THEN q[i] ELSE q[i + 1]
  BY <1>1, RemovedShape
<1> HIDE DEF r
<1>3. Distinct(r)
  <2> SUFFICES ASSUME NEW i \in 1 .. Len(q) - 1, NEW j \in 1 .. Len(q) - 1, r[i] = r[j]
               PROVE  i = j
    BY <1>2 DEF Distinct
  <2> DEFINE at(m) == IF m < k THEN m ELSE m + 1
  <2>1. /\ at(i) \in 1 .. Len(q) /\ at(j) \in 1 .. Len(q)
        /\ at(i) = at(j) => i = j
    BY <1>1
  <2>2. r[i] = q[at(i)] /\ r[j] = q[at(j)]
    BY <1>2
  <2> HIDE DEF at
  <2>3. q[at(i)] = q[at(j)]
    BY <2>2
  <2>4. at(i) = at(j)
    BY <1>1, <2>1, <2>3 DEF Distinct
  <2> QED
    BY <2>1, <2>4
<1>4. (IF k = 1 THEN Behind(q, k) ELSE p) = First(r)
  <2>1. CASE k = 1 /\ Len(q) = 1
    BY <1>2, <2>1 DEF Behind, First
  <2>2. CASE k = 1 /\ Len(q) # 1
    <3>1. 1 \in 1 .. Len(q) - 1 /\ ~(1 < k) /\ Len(r) # 0 /\ 1 < Len(q)
      BY <1>1, <1>2, <2>2
    <3> QED
      BY <1>2, <2>2, <3>1 DEF Behind, First
  <2>3. CASE k # 1
    <3>1. 1 \in 1 .. Len(q) - 1 /\ 1 < k /\ Len(r) # 0 /\ Len(q) # 0
      BY <1>1, <1>2, <2>3
    <3> QED
      BY <1>1, <1>2, <2>3, <3>1 DEF First
  <2> QED
    BY <2>1, <2>2, <2>3
<1>5. ASSUME NEW j \in 1 .. Len(q) - 1 PROVE next2[r[j]] = Behind(r, j)
  <2>1. CASE j = k - 1
    <3>1. /\ j < k /\ k > 1 /\ (j < Len(r) <=> k < Len(q))
          /\ j < Len(r) => j + 1 \in 1 .. Len(q) - 1 /\ ~(j + 1 < k) /\ (j + 1) + 1 = k + 1
      BY <1>1, <1>2, <2>1
    <3> QED
      BY <1>2, <2>1, <3>1 DEF Behind
  <2>2. CASE j < k - 1
    <3>1. /\ j \in 1 .. Len(q) /\ j < k /\ j # k - 1 /\ j < Len(r) /\ j < Len(q)
          /\ j + 1 \in 1 .. Len(q) - 1 /\ j + 1 < k
      BY <1>1, <1>2, <2>2
    <3> QED
      BY <1>1, <1>2, <3>1 DEF Behind
  <2>3. CASE ~(j < k)
    <3>1. /\ j + 1 \in 1 .. Len(q) /\ j + 1 # k - 1 /\ (j < Len(r) <=> j + 1 < Len(q))
          /\ j < Len(r) => j + 1 \in 1 .. Len(q) - 1 /\ ~(j + 1 < k)
      BY <1>1, <1>2, <2>3
    <3>2. r[j] = q[j + 1] /\ (j < Len(r) => r[j + 1] = q[(j + 1) + 1])
      BY <1>2, <2>3, <3>1
    <3>3. next2[r[j]] = Behind(q, j + 1)
      BY <1>1, <3>1, <3>2
    <3> QED
      BY <3>1, <3>2, <3>3 DEF Behind
  <2> QED
    BY <1>1, <2>1, <2>2, <2>3
<1> QED
  BY <1>2, <1>3, <1>4, <1>5 DEF Chain, r

-----------------------------------------------------------------------------
(* What SeqLists says of the two changes.                                  *)

LEMMA SameSeq ==
  ASSUME NEW S, NEW s \in Seq(S), NEW t \in Seq(S), Len(s) = Len(t),
         \A i \in 1 .. Len(s) : s[i] = t[i]
  PROVE  s = t
OBVIOUS

LEMMA Piece ==
  ASSUME NEW S, NEW s \in Seq(S), NEW m \in 1 .. Len(s) + 1, NEW n \in 0 .. Len(s), m <= n + 1
  PROVE  /\ SubSeq(s, m, n) \in Seq(S) /\ Len(SubSeq(s, m, n)) = n - m + 1
         /\ \A i \in 1 .. n - m + 1 : SubSeq(s, m, n)[i] = s[m + i - 1]
<1>1. Len(s) \in Nat /\ \A i \in 1 .. Len(s) : s[i] \in S
  BY LenProperties, ElementOfSeq
<1>2. m \in Int /\ n \in Int /\ \A i \in m .. n : s[i] \in S
  BY <1>1
<1>3. (IF m <= n THEN n - m + 1 ELSE 0) = n - m + 1
  BY <1>2
<1> QED
  BY <1>2, <1>3, SubSeqProperties

LEMMA WithIsInserted ==
  ASSUME NEW S, NEW s \in Seq(S), NEW k \in 1 .. Len(s) + 1, NEW v \in S
  PROVE  Abstract!With(s, k, v) = Inserted(s, k, v)
<1> DEFINE a == SubSeq(s, 1, k - 1)
           c == SubSeq(s, k, Len(s))
           b == a \o <<v>>
           t == b \o c
           r == Inserted(s, k, v)
<1>1. Len(s) \in Nat
  BY LenProperties
<1>2. /\ a \in Seq(S) /\ Len(a) = k - 1 /\ \A i \in 1 .. k - 1 : a[i] = s[i]
  <2>1. 1 \in 1 .. Len(s) + 1 /\ k - 1 \in 0 .. Len(s) /\ 1 <= (k - 1) + 1 /\ (k - 1) - 1 + 1 = k - 1
    BY <1>1
  <2>2. \A i \in 1 .. k - 1 : 1 + i - 1 = i
    BY <1>1
  <2> QED
    BY <2>1, <2>2, Piece
<1>3. /\ c \in Seq(S) /\ Len(c) = Len(s) - k + 1
      /\ \A i \in 1 .. Len(s) - k + 1 : c[i] = s[k + i - 1]
  <2>1. Len(s) \in 0 .. Len(s) /\ k <= Len(s) + 1
    BY <1>1
  <2> QED
    BY <2>1, Piece
<1> HIDE DEF a, c
<1>4. /\ b \in Seq(S) /\ Len(b) = k
      /\ \A i \in 1 .. k : b[i] = IF i < k THEN s[i] ELSE v
  <2>1. <<v>> \in Seq(S) /\ Len(<<v>>) = 1 /\ <<v>>[1] = v
    OBVIOUS
  <2>2. /\ b \in Seq(S) /\ Len(b) = (k - 1) + 1
        /\ \A i \in 1 .. (k - 1) + 1 : b[i] = IF i <= k - 1 THEN a[i] ELSE <<v>>[i - (k - 1)]
    BY <1>2, <2>1, ConcatProperties
  <2>3. (k - 1) + 1 = k
    BY <1>1
  <2> HIDE DEF b
  <2>4. ASSUME NEW i \in 1 .. k PROVE b[i] = IF i < k THEN s[i] ELSE v
    <3>1. CASE i < k
      BY <1>1, <1>2, <2>2, <2>3, <3>1
    <3>2. CASE ~(i < k)
      <4>1. i - (k - 1) = 1 /\ ~(i <= k - 1)
        BY <1>1, <3>2
      <4> QED
        BY <2>1, <2>2, <2>3, <3>2, <4>1
    <3> QED
      BY <3>1, <3>2
  <2> QED
    BY <2>2, <2>3, <2>4
<1> HIDE DEF b
<1>5. /\ t \in Seq(S) /\ Len(t) = Len(s) + 1
      /\ \A i \in 1 .. Len(s) + 1 : t[i] = IF i <= k THEN b[i] ELSE c[i - k]
  <2>1. b \in Seq(S) /\ c \in Seq(S)
    BY <1>3, <1>4
  <2>2. /\ t \in Seq(S) /\ Len(t) = Len(b) + Len(c)
        /\ \A i \in 1 .. Len(b) + Len(c) : t[i] = IF i <= Len(b) THEN b[i] ELSE c[i - Len(b)]
    BY <2>1, ConcatProperties
  <2>3. Len(b) = k /\ Len(b) + Len(c) = Len(s) + 1
    BY <1>1, <1>3, <1>4
  <2> HIDE DEF t
  <2> QED
    BY <2>2, <2>3
<1> HIDE DEF t
<1>6. r \in Seq(S) /\ Len(r) = Len(s) + 1
  BY InsertedIsSeq
<1>7. ASSUME NEW i \in 1 .. Len(s) + 1 PROVE t[i] = r[i]
  <2>1. CASE i < k
    BY <1>1, <1>4, <1>5, <2>1 DEF Inserted
  <2>2. CASE i = k
    BY <1>1, <1>4, <1>5, <2>2 DEF Inserted
  <2>3. CASE i > k
    <3>1. i - k \in 1 .. Len(s) - k + 1 /\ k + (i - k) - 1 = i - 1 /\ ~(i <= k) /\ ~(i < k) /\ i # k
      BY <1>1, <2>3
    <3>2. t[i] = s[i - 1]
      BY <1>3, <1>5, <3>1
    <3> QED
      BY <3>1, <3>2 DEF Inserted
  <2> QED
    BY <1>1, <2>1, <2>2, <2>3
<1> HIDE DEF r
<1>8. t = r
  BY <1>5, <1>6, <1>7, SameSeq
<1> QED
  BY <1>8 DEF t, b, a, c, r, Abstract!With

LEMMA AppendIsInserted ==
  ASSUME NEW S, NEW s \in Seq(S), NEW v \in S
  PROVE  Append(s, v) = Inserted(s, Len(s) + 1, v)
<1> DEFINE r == Inserted(s, Len(s) + 1, v)
<1>1. Len(s) \in Nat /\ Len(s) + 1 \in 1 .. Len(s) + 1
  BY LenProperties
<1>2. r \in Seq(S) /\ Len(r) = Len(s) + 1
  BY <1>1, InsertedIsSeq
<1>3. /\ \A i \in 1 .. Len(s) : r[i] = s[i]
      /\ r[Len(s) + 1] = v
  BY <1>1 DEF Inserted
<1> HIDE DEF r
<1>4. /\ Append(s, v) \in Seq(S) /\ Len(Append(s, v)) = Len(s) + 1
      /\ \A i \in 1 .. Len(s) + 1 : Append(s, v)[i] = r[i]
  BY <1>1, <1>3, AppendProperties
<1> QED
  BY <1>2, <1>4, SameSeq DEF r

LEMMA ConsIsInserted ==
  ASSUME NEW S, NEW s \in Seq(S), NEW v \in S
  PROVE  <<v>> \o s = Inserted(s, 1, v)
<1> DEFINE r == Inserted(s, 1, v)
           t == <<v>> \o s
<1>1. Len(s) \in Nat /\ 1 \in 1 .. Len(s) + 1
  BY LenProperties
<1>2. r \in Seq(S) /\ Len(r) = Len(s) + 1
  BY <1>1, InsertedIsSeq
<1>3. <<v>> \in Seq(S) /\ Len(<<v>>) = 1 /\ <<v>>[1] = v
  OBVIOUS
<1>4. /\ t \in Seq(S) /\ Len(t) = 1 + Len(s)
      /\ \A i \in 1 .. 1 + Len(s) : t[i] = IF i <= 1 THEN <<v>>[i] ELSE s[i - 1]
  BY <1>3, ConcatProperties
<1>5. ASSUME NEW i \in 1 .. Len(s) + 1 PROVE t[i] = r[i]
  <2>1. CASE i = 1
    <3>1. t[1] = v
      BY <1>1, <1>3, <1>4
    <3>2. r[1] = v
      BY <1>1 DEF Inserted
    <3> QED
      BY <2>1, <3>1, <3>2
  <2>2. CASE i # 1
    <3>1. t[i] = s[i - 1]
      BY <1>1, <1>4, <2>2
    <3>2. r[i] = s[i - 1]
      BY <1>1, <2>2 DEF Inserted
    <3> QED
      BY <3>1, <3>2
  <2> QED
    BY <2>1, <2>2
<1> HIDE DEF r, t
<1>6. Len(t) = Len(s) + 1
  BY <1>1, <1>4
<1> QED
  BY <1>2, <1>4, <1>5, <1>6, SameSeq DEF r, t

LEMMA WithoutIsRemoved ==
  ASSUME NEW S, NEW s \in Seq(S), NEW k \in 1 .. Len(s)
  PROVE  Abstract!Without(s, k) = Removed(s, k)
<1> DEFINE a == SubSeq(s, 1, k - 1)
           c == SubSeq(s, k + 1, Len(s))
           t == a \o c
           r == Removed(s, k)
<1>1. Len(s) \in Nat
  BY LenProperties
<1>2. /\ a \in Seq(S) /\ Len(a) = k - 1 /\ \A i \in 1 .. k - 1 : a[i] = s[i]
  <2>1. 1 \in 1 .. Len(s) + 1 /\ k - 1 \in 0 .. Len(s) /\ 1 <= (k - 1) + 1 /\ (k - 1) - 1 + 1 = k - 1
    BY <1>1
  <2>2. \A i \in 1 .. k - 1 : 1 + i - 1 = i
    BY <1>1
  <2> QED
    BY <2>1, <2>2, Piece
<1>3. /\ c \in Seq(S) /\ Len(c) = Len(s) - k
      /\ \A i \in 1 .. Len(s) - k : c[i] = s[k + i]
  <2> DEFINE m == k + 1
             n == Len(s)
  <2>1. /\ m \in 1 .. Len(s) + 1 /\ n \in 0 .. Len(s) /\ m <= n + 1 /\ n - m + 1 = Len(s) - k
        /\ \A i \in 1 .. Len(s) - k : m + i - 1 = k + i
    BY <1>1
  <2> HIDE DEF m, n
  <2>2. /\ SubSeq(s, m, n) \in Seq(S) /\ Len(SubSeq(s, m, n)) = n - m + 1
        /\ \A i \in 1 .. n - m + 1 : SubSeq(s, m, n)[i] = s[m + i - 1]
    BY <2>1, Piece
  <2> QED
    BY <2>1, <2>2 DEF c, m, n
<1> HIDE DEF a, c
<1>4. /\ t \in Seq(S) /\ Len(t) = Len(s) - 1
      /\ \A i \in 1 .. Len(s) - 1 : t[i] = IF i <= k - 1 THEN a[i] ELSE c[i - (k - 1)]
  <2>1. a \in Seq(S) /\ c \in Seq(S)
    BY <1>2, <1>3
  <2>2. /\ t \in Seq(S) /\ Len(t) = Len(a) + Len(c)
        /\ \A i \in 1 .. Len(a) + Len(c) : t[i] = IF i <= Len(a) THEN a[i] ELSE c[i - Len(a)]
    BY <2>1, ConcatProperties
  <2>3. Len(a) = k - 1 /\ Len(a) + Len(c) = Len(s) - 1
    BY <1>1, <1>2, <1>3
  <2> HIDE DEF t
  <2> QED
    BY <2>2, <2>3
<1> HIDE DEF t
<1>5. /\ r \in Seq(S) /\ Len(r) = Len(s) - 1
      /\ \A i \in 1 .. Len(s) - 1 : r[i] = IF i < k THEN s[i] ELSE s[i + 1]
  BY RemovedShape
<1> HIDE DEF r
<1>6. ASSUME NEW i \in 1 .. Len(s) - 1 PROVE t[i] = r[i]
  <2>1. CASE i < k
    BY <1>1, <1>2, <1>4, <1>5, <2>1
  <2>2. CASE ~(i < k)
    <3>1. i - (k - 1) \in 1 .. Len(s) - k /\ k + (i - (k - 1)) = i + 1 /\ ~(i <= k - 1)
      BY <1>1, <2>2
    <3> QED
      BY <1>3, <1>4, <1>5, <2>2, <3>1
  <2> QED
    BY <2>1, <2>2
<1>7. t = r
  BY <1>4, <1>5, <1>6, SameSeq
<1> QED
  BY <1>7 DEF t, a, c, r, Abstract!Without

-----------------------------------------------------------------------------
(* The state: along which chains the lists run.                            *)

Values(q, data) == [i \in 1 .. Len(q) |-> data[q[i]]]
Held == IF sllNew = SllNil THEN {} ELSE {sllNew}
Types ==
  /\ sllHead \in [SllNames -> Pointers] /\ sllNext \in [SllNodes -> Pointers]
  /\ sllData = [n \in SllNodes |-> sllData[n]]
  /\ sllNew \in sllMemory.nodes \cup {SllNil}
  /\ sllMemory = [nodes |-> sllMemory.nodes, data |-> sllMemory.nodes]
  /\ sllMemory.nodes \subseteq SllNodes
  /\ \A n \in sllMemory.nodes : sllData[n] \in SllValues
  /\ sllNew # SllNil => sllNext[sllNew] = SllNil

(* ch has the chain of every list; each allocated node is on one of them,  *)
(* or held.                                                                *)
Chained(ch) ==
  /\ ch \in [SllNames -> Seq(SllNodes)]
  /\ \A l \in SllNames : Chain(ch[l], sllHead[l], sllNext)
  /\ \A l, m \in SllNames : l # m => Nodes(ch[l]) \cap Nodes(ch[m]) = {}
  /\ \A l \in SllNames : sllNew \notin Nodes(ch[l])
  /\ sllMemory.nodes = Held \cup UNION {Nodes(ch[l]) : l \in SllNames}

SllInv == Types /\ \E ch : Chained(ch)

Lists == [l \in SllNames |-> Sequence(l)]
Shows == \A ch : Chained(ch) => Lists = [l \in SllNames |-> Values(ch[l], sllData)]

LEMMA ListsAreShown == Shows
<1> SUFFICES ASSUME NEW ch, Chained(ch), NEW l \in SllNames
             PROVE  Sequence(l) = Values(ch[l], sllData)
  BY DEF Shows, Lists
<1>1. Chain(ch[l], sllHead[l], sllNext)
  BY DEF Chained
<1>2. /\ NumNodes(sllHead[l]) = Len(ch[l])
      /\ \A i \in 1 .. Len(ch[l]) : GetNthNode(sllHead[l], i) = ch[l][i]
  BY <1>1, Found
<1> QED
  BY <1>2 DEF Sequence, Values

LEMMA ListsWillBeShown == Shows'
BY ListsAreShown, PTL

LEMMA ValuesOf ==
  ASSUME NEW q \in Seq(SllNodes), NEW data, NEW S, \A i \in 1 .. Len(q) : data[q[i]] \in S
  PROVE  Values(q, data) \in Seq(S) /\ Len(Values(q, data)) = Len(q)
<1>1. Len(q) \in Nat
  BY LenProperties
<1> DEFINE w == Values(q, data)
<1>2. w \in [1 .. Len(q) -> S]
  BY DEF Values
<1> HIDE DEF w
<1>3. w \in Seq(S)
  BY <1>1, <1>2, SeqDef
<1>4. Len(w) = Len(q)
  BY <1>1, <1>2, <1>3, LenProperties
<1> QED
  BY <1>3, <1>4 DEF w

LEMMA InsertedValues ==
  ASSUME NEW q \in Seq(SllNodes), NEW k \in 1 .. Len(q) + 1, NEW n \in SllNodes,
         NEW data, NEW S, \A i \in 1 .. Len(q) : data[q[i]] \in S
  PROVE  Values(Inserted(q, k, n), data) = Inserted(Values(q, data), k, data[n])
<1> DEFINE w == Values(q, data)
           r == Inserted(q, k, n)
<1>1. Len(q) \in Nat /\ Len(w) = Len(q) /\ Len(r) = Len(q) + 1
  <2>1. Len(q) \in Nat
    BY LenProperties
  <2>2. Len(w) = Len(q)
    BY ValuesOf
  <2>3. Len(r) = Len(q) + 1
    BY InsertedIsSeq
  <2> QED
    BY <2>1, <2>2, <2>3
<1>2. ASSUME NEW i \in 1 .. Len(q) + 1
      PROVE  data[r[i]] = IF i < k THEN w[i] ELSE IF i = k THEN data[n] ELSE w[i - 1]
  <2>1. \/ i < k /\ i \in 1 .. Len(q) /\ r[i] = q[i]
        \/ i = k /\ r[i] = n
        \/ i > k /\ i - 1 \in 1 .. Len(q) /\ r[i] = q[i - 1]
    BY InsertedFrom
  <2>2. \A j \in 1 .. Len(q) : w[j] = data[q[j]]
    BY DEF Values
  <2> HIDE DEF w, r
  <2> QED
    BY <1>1, <2>1, <2>2
<1>3. /\ Values(r, data) = [i \in 1 .. Len(q) + 1 |-> data[r[i]]]
      /\ Inserted(w, k, data[n]) = [i \in 1 .. Len(q) + 1 |->
           IF i < k THEN w[i] ELSE IF i = k THEN data[n] ELSE w[i - 1]]
  <2> HIDE DEF w, r
  <2> QED
    BY <1>1 DEF Values, Inserted
<1> HIDE DEF w, r
<1>4. Values(r, data) = Inserted(w, k, data[n])
  BY <1>2, <1>3
<1> QED
  BY <1>4 DEF w, r

LEMMA RemovedValues ==
  ASSUME NEW q \in Seq(SllNodes), NEW k \in 1 .. Len(q),
         NEW data, NEW S, \A i \in 1 .. Len(q) : data[q[i]] \in S
  PROVE  Values(Removed(q, k), data) = Removed(Values(q, data), k)
<1> DEFINE w == Values(q, data)
           r == Removed(q, k)
<1>1. /\ Len(q) \in Nat /\ Len(w) = Len(q) /\ Len(r) = Len(q) - 1
      /\ \A i \in 1 .. Len(q) - 1 : r[i] = IF i < k THEN q[i] ELSE q[i + 1]
  BY LenProperties, ValuesOf, RemovedShape
<1>2. ASSUME NEW i \in 1 .. Len(q) - 1
      PROVE  data[r[i]] = IF i < k THEN w[i] ELSE w[i + 1]
  <2>1. i \in 1 .. Len(q) /\ i + 1 \in 1 .. Len(q)
    BY <1>1
  <2>2. \A j \in 1 .. Len(q) : w[j] = data[q[j]]
    BY DEF Values
  <2> HIDE DEF w, r
  <2> QED
    BY <1>1, <2>1, <2>2
<1>3. /\ Values(r, data) = [i \in 1 .. Len(q) - 1 |-> data[r[i]]]
      /\ Removed(w, k) = [i \in 1 .. Len(q) - 1 |-> IF i < k THEN w[i] ELSE w[i + 1]]
  <2> HIDE DEF w, r
  <2> QED
    BY <1>1 DEF Values, Removed
<1> HIDE DEF w, r
<1>4. Values(r, data) = Removed(w, k)
  BY <1>2, <1>3
<1> QED
  BY <1>4 DEF w, r

LEMMA InsertedNodes ==
  ASSUME NEW q \in Seq(SllNodes), NEW k \in 1 .. Len(q) + 1, NEW n \in SllNodes
  PROVE  Nodes(Inserted(q, k, n)) = Nodes(q) \cup {n}
<1> DEFINE r == Inserted(q, k, n)
<1>1. /\ Len(q) \in Nat /\ Len(r) = Len(q) + 1
  BY LenProperties, InsertedIsSeq
<1>2. /\ \A i \in 1 .. Len(q) : i < k => r[i] = q[i]
      /\ \A i \in 1 .. Len(q) : ~(i < k) => r[i + 1] = q[i]
      /\ r[k] = n
  BY InsertedShape
<1>3. ASSUME NEW i \in 1 .. Len(q) + 1 PROVE r[i] \in Nodes(q) \cup {n}
  BY InsertedFrom DEF Nodes
<1>4. ASSUME NEW i \in 1 .. Len(q) PROVE \E j \in 1 .. Len(q) + 1 : r[j] = q[i]
  <2>1. i \in 1 .. Len(q) + 1 /\ i + 1 \in 1 .. Len(q) + 1
    BY <1>1
  <2> HIDE DEF r
  <2> QED
    BY <1>2, <2>1
<1> HIDE DEF r
<1>5. Nodes(r) \subseteq Nodes(q) \cup {n}
  BY <1>1, <1>3 DEF Nodes
<1>6. n \in Nodes(r)
  BY <1>1, <1>2 DEF Nodes
<1>7. Nodes(q) \subseteq Nodes(r)
  BY <1>1, <1>4 DEF Nodes
<1> QED
  BY <1>5, <1>6, <1>7 DEF r

LEMMA RemovedNodes ==
  ASSUME NEW q \in Seq(SllNodes), Distinct(q), NEW k \in 1 .. Len(q)
  PROVE  Nodes(Removed(q, k)) = Nodes(q) \ {q[k]}
<1> DEFINE r == Removed(q, k)
<1>1. /\ Len(q) \in Nat /\ Len(r) = Len(q) - 1
      /\ \A i \in 1 .. Len(q) - 1 : r[i] = IF i < k THEN q[i] ELSE q[i + 1]
  BY LenProperties, RemovedShape
<1> HIDE DEF r
<1>2. ASSUME NEW i \in 1 .. Len(q) - 1 PROVE r[i] \in Nodes(q) \ {q[k]}
  <2>1. CASE i < k
    <3>1. i \in 1 .. Len(q) /\ i # k /\ r[i] = q[i]
      BY <1>1, <2>1
    <3> QED
      BY <3>1 DEF Nodes, Distinct
  <2>2. CASE ~(i < k)
    <3>1. i + 1 \in 1 .. Len(q) /\ i + 1 # k /\ r[i] = q[i + 1]
      BY <1>1, <2>2
    <3> QED
      BY <3>1 DEF Nodes, Distinct
  <2> QED
    BY <2>1, <2>2
<1>3. ASSUME NEW i \in 1 .. Len(q), i # k PROVE \E j \in 1 .. Len(q) - 1 : r[j] = q[i]
  <2>1. CASE i < k
    BY <1>1, <2>1
  <2>2. CASE ~(i < k)
    <3>1. i - 1 \in 1 .. Len(q) - 1 /\ ~(i - 1 < k) /\ (i - 1) + 1 = i
      BY <1>1, <1>3, <2>2
    <3> QED
      BY <1>1, <3>1
  <2> QED
    BY <2>1, <2>2
<1>4. Nodes(r) \subseteq Nodes(q) \ {q[k]}
  BY <1>1, <1>2 DEF Nodes
<1>5. Nodes(q) \ {q[k]} \subseteq Nodes(r)
  <2> SUFFICES ASSUME NEW i \in 1 .. Len(q), q[i] # q[k] PROVE q[i] \in Nodes(r)
    BY DEF Nodes
  <2>1. PICK j \in 1 .. Len(q) - 1 : r[j] = q[i]
    BY <1>3
  <2> QED
    BY <1>1, <2>1 DEF Nodes
<1> QED
  BY <1>4, <1>5 DEF r

-----------------------------------------------------------------------------
(* The steps.                                                              *)

LEMMA ChainOf ==
  ASSUME Types, NEW ch, Chained(ch), NEW l \in SllNames
  PROVE  /\ ch[l] \in Seq(SllNodes) /\ Len(ch[l]) \in Nat /\ Distinct(ch[l])
         /\ Chain(ch[l], sllHead[l], sllNext)
         /\ \A i \in 1 .. Len(ch[l]) :
              ch[l][i] \in Nodes(ch[l]) /\ ch[l][i] \in SllNodes /\ ch[l][i] # sllNew
              /\ ch[l][i] \in sllMemory.nodes /\ sllData[ch[l][i]] \in SllValues
<1>1. Chain(ch[l], sllHead[l], sllNext) /\ ch[l] \in Seq(SllNodes) /\ Distinct(ch[l])
  BY DEF Chained, Chain
<1>2. Len(ch[l]) \in Nat
  BY <1>1, LenProperties
<1>3. \A i \in 1 .. Len(ch[l]) : ch[l][i] \in Nodes(ch[l])
  BY DEF Nodes
<1>4. Nodes(ch[l]) \subseteq sllMemory.nodes /\ sllNew \notin Nodes(ch[l])
  BY DEF Chained
<1> QED
  BY <1>1, <1>2, <1>3, <1>4 DEF Types

(* The new node comes into a list, at k.                                   *)
Joins(q, l, k, n) ==
  /\ k \in 1 .. Len(q) + 1
  /\ sllHead' = [sllHead EXCEPT ![l] = IF k = 1 THEN n ELSE sllHead[l]]
  /\ sllNext' \in [SllNodes -> Pointers] /\ sllNext'[n] = Behind(q, k - 1)
  /\ k > 1 => sllNext'[q[k - 1]] = n
  /\ \A m \in SllNodes : m # n /\ (k > 1 => m # q[k - 1]) => sllNext'[m] = sllNext[m]

LEMMA Grown ==
  ASSUME Types, NEW ch, Chained(ch), NEW l \in SllNames, NEW k,
         NEW n, n = sllNew, n # SllNil, Linked, Joins(ch[l], l, k, n)
  PROVE  SllInv' /\ Lists' = [Lists EXCEPT ![l] = Inserted(Lists[l], k, sllData[n])]
<1> DEFINE q == ch[l]
           r == Inserted(q, k, n)
<1>0. /\ k \in 1 .. Len(q) + 1
      /\ sllHead' = [sllHead EXCEPT ![l] = IF k = 1 THEN n ELSE sllHead[l]]
      /\ sllNext' \in [SllNodes -> Pointers] /\ sllNext'[n] = Behind(q, k - 1)
      /\ k > 1 => sllNext'[q[k - 1]] = n
      /\ \A m \in SllNodes : m # n /\ (k > 1 => m # q[k - 1]) => sllNext'[m] = sllNext[m]
  BY DEF Joins
<1>1. /\ q \in Seq(SllNodes) /\ Len(q) \in Nat /\ Distinct(q)
      /\ Chain(q, sllHead[l], sllNext)
      /\ \A i \in 1 .. Len(q) : q[i] \in SllNodes /\ q[i] # n
      /\ \A i \in 1 .. Len(q) : sllData[q[i]] \in SllValues
  BY ChainOf
<1>2. n \in SllNodes /\ n \in sllMemory.nodes /\ sllData[n] \in SllValues
  BY DEF Types
<1>3. r \in Seq(SllNodes) /\ Nodes(r) = Nodes(q) \cup {n}
  BY <1>0, <1>1, <1>2, InsertedIsSeq, InsertedNodes
<1>4. sllNew' = SllNil /\ sllData' = sllData /\ sllMemory' = sllMemory
  BY DEF Linked
<1>5. Chain(r, sllHead'[l], sllNext')
  <2>1. \A i \in 1 .. Len(q) : i # k - 1 => sllNext'[q[i]] = sllNext[q[i]]
    <3> TAKE i \in 1 .. Len(q)
    <3>1. k > 1 => k - 1 \in 1 .. Len(q)
      BY <1>0, <1>1
    <3>2. i # k - 1 => (k > 1 => q[i] # q[k - 1])
      BY <3>1, <1>1 DEF Distinct
    <3> QED
      BY <1>0, <1>1, <3>2
  <2>2. Chain(r, IF k = 1 THEN n ELSE sllHead[l], sllNext')
    <3> PICK p, next, next2 : p = sllHead[l] /\ next = sllNext /\ next2 = sllNext'
      OBVIOUS
    <3>1. /\ Chain(q, p, next) /\ k \in 1 .. Len(q) + 1 /\ n \in SllNodes
          /\ LinksIn(q, k, n, next, next2)
      BY <1>0, <1>1, <1>2, <2>1 DEF LinksIn
    <3> HIDE DEF q
    <3>2. Chain(Inserted(q, k, n), IF k = 1 THEN n ELSE p, next2)
      BY <3>1, ChainGrows
    <3> QED
      BY <3>2
  <2>3. sllHead'[l] = IF k = 1 THEN n ELSE sllHead[l]
    BY <1>0 DEF Types
  <2> QED
    BY <2>2, <2>3
<1>6. ASSUME NEW m \in SllNames, m # l PROVE Chain(ch[m], sllHead'[m], sllNext')
  <2>1. /\ Chain(ch[m], sllHead[m], sllNext)
        /\ \A i \in 1 .. Len(ch[m]) :
             ch[m][i] \in Nodes(ch[m]) /\ ch[m][i] \in SllNodes /\ ch[m][i] # n
    BY ChainOf
  <2>2. k > 1 => q[k - 1] \in Nodes(q)
    BY <1>0, <1>1 DEF Nodes
  <2>3. Nodes(ch[m]) \cap Nodes(q) = {}
    BY <1>6 DEF Chained
  <2>4. \A i \in 1 .. Len(ch[m]) : sllNext'[ch[m][i]] = sllNext[ch[m][i]]
    BY <1>0, <2>1, <2>2, <2>3
  <2>5. sllHead'[m] = sllHead[m]
    BY <1>0, <1>6 DEF Types
  <2> QED
    BY <2>1, <2>4, <2>5, ChainStays
<1> HIDE DEF r
<1>7. PICK ch2 : ch2 = [ch EXCEPT ![l] = r]
  OBVIOUS
<1>8. /\ ch2 \in [SllNames -> Seq(SllNodes)] /\ ch2[l] = r
      /\ \A m \in SllNames : m # l => ch2[m] = ch[m]
  BY <1>3, <1>7 DEF Chained
<1>9. Chained(ch2)'
  <2>1. \A m \in SllNames : Chain(ch2[m], sllHead'[m], sllNext')
    BY <1>5, <1>6, <1>8
  <2>2. \A i, j \in SllNames : i # j => Nodes(ch2[i]) \cap Nodes(ch2[j]) = {}
    <3>1. /\ \A i, j \in SllNames : i # j => Nodes(ch[i]) \cap Nodes(ch[j]) = {}
          /\ \A i \in SllNames : n \notin Nodes(ch[i])
      BY DEF Chained
    <3>2. \A m \in SllNames : Nodes(ch2[m]) = IF m = l THEN Nodes(ch[m]) \cup {n} ELSE Nodes(ch[m])
      BY <1>3, <1>8
    <3> TAKE i, j \in SllNames
    <3> HAVE i # j
    <3>3. Nodes(ch[i]) \cap Nodes(ch[j]) = {} /\ n \notin Nodes(ch[i]) /\ n \notin Nodes(ch[j])
      BY <3>1
    <3>4. CASE i = l
      <4>1. Nodes(ch2[i]) = Nodes(ch[i]) \cup {n} /\ Nodes(ch2[j]) = Nodes(ch[j])
        BY <3>2, <3>4
      <4> QED
        BY <3>3, <4>1
    <3>5. CASE i # l
      <4>1. /\ Nodes(ch2[i]) = Nodes(ch[i])
            /\ Nodes(ch2[j]) = Nodes(ch[j]) \/ Nodes(ch2[j]) = Nodes(ch[j]) \cup {n}
        BY <3>2, <3>5
      <4> QED
        BY <3>3, <4>1
    <3> QED
      BY <3>4, <3>5
  <2>3. \A m \in SllNames : SllNil \notin Nodes(ch2[m])
    <3> TAKE m \in SllNames
    <3>1. \A i \in 1 .. Len(ch2[m]) : ch2[m][i] \in SllNodes
      BY <2>1, ChainFacts
    <3> QED
      BY <3>1, SllAssumption DEF Nodes
  <2>4. sllMemory.nodes = UNION {Nodes(ch2[m]) : m \in SllNames}
    <3>1. sllMemory.nodes = {n} \cup UNION {Nodes(ch[m]) : m \in SllNames}
      BY DEF Chained, Held
    <3>2. \A m \in SllNames : Nodes(ch2[m]) = IF m = l THEN Nodes(ch[m]) \cup {n} ELSE Nodes(ch[m])
      BY <1>3, <1>8
    <3>3. \A x : x \in sllMemory.nodes <=> x = n \/ \E m \in SllNames : x \in Nodes(ch[m])
      BY <3>1
    <3>4. \A x : (\E m \in SllNames : x \in Nodes(ch2[m]))
                 <=> x = n \/ \E m \in SllNames : x \in Nodes(ch[m])
      <4> TAKE x
      <4>1. ASSUME NEW m \in SllNames, x \in Nodes(ch2[m])
            PROVE  x = n \/ \E j \in SllNames : x \in Nodes(ch[j])
        <5>1. CASE m = l
          <6>1. Nodes(ch2[m]) = Nodes(ch[m]) \cup {n}
            BY <3>2, <5>1
          <6>2. x \in Nodes(ch[m]) \cup {n}
            BY <4>1, <6>1
          <6> QED
            BY <6>2
        <5>2. CASE m # l
          BY <3>2, <4>1, <5>2
        <5> QED
          BY <5>1, <5>2
      <4>2. ASSUME NEW m \in SllNames, x \in Nodes(ch[m])
            PROVE  \E j \in SllNames : x \in Nodes(ch2[j])
        BY <3>2, <4>2
      <4>3. n \in Nodes(ch2[l])
        BY <3>2
      <4> QED
        BY <4>1, <4>2, <4>3
    <3>5. \A x : x \in UNION {Nodes(ch2[m]) : m \in SllNames}
                 <=> \E m \in SllNames : x \in Nodes(ch2[m])
      OBVIOUS
    <3> QED
      BY <3>3, <3>4, <3>5
  <2> QED
    BY <1>4, <1>8, <2>1, <2>2, <2>3, <2>4 DEF Chained, Held
<1>10. Types'
  <2>1. sllHead' \in [SllNames -> Pointers]
    BY <1>0, <1>2 DEF Types, Pointers
  <2> QED
    BY <1>0, <1>4, <2>1 DEF Types
<1>11. Lists' = [Lists EXCEPT ![l] = Inserted(Lists[l], k, sllData[n])]
  <2>1. Lists = [m \in SllNames |-> Values(ch[m], sllData)]
    BY ListsAreShown DEF Shows
  <2>2. Lists' = [m \in SllNames |-> Values(ch2[m], sllData')]
    BY <1>9, ListsWillBeShown DEF Shows
  <2>3. Values(r, sllData) = Inserted(Values(q, sllData), k, sllData[n])
    <3> PICK d : d = sllData
      OBVIOUS
    <3>1. \A i \in 1 .. Len(q) : d[q[i]] \in SllValues
      BY <1>1
    <3>2. q \in Seq(SllNodes) /\ k \in 1 .. Len(q) + 1
      BY <1>0, <1>1
    <3> HIDE DEF q
    <3>3. Values(Inserted(q, k, n), d) = Inserted(Values(q, d), k, d[n])
      BY <1>2, <3>1, <3>2, InsertedValues
    <3> QED
      BY <3>3 DEF r
  <2>4. \A m \in SllNames : Values(ch2[m], sllData) = IF m = l THEN Inserted(Lists[l], k, sllData[n])
                                                      ELSE Lists[m]
    BY <1>8, <2>1, <2>3
  <2>5. Lists' = [m \in SllNames |-> IF m = l THEN Inserted(Lists[l], k, sllData[n]) ELSE Lists[m]]
    BY <1>4, <2>2, <2>4
  <2> QED
    BY <2>1, <2>5
<1> QED
  BY <1>9, <1>10, <1>11 DEF SllInv

(* A node leaves its list, from k, and is freed.                           *)
Leaves(q, l, k, n) ==
  /\ n = q[k]
  /\ sllHead' = [sllHead EXCEPT ![l] = IF k = 1 THEN sllNext[n] ELSE sllHead[l]]
  /\ sllNext' \in [SllNodes -> Pointers]
  /\ k > 1 => sllNext'[q[k - 1]] = sllNext[n]
  /\ \A m \in SllNodes : (k > 1 => m # q[k - 1]) => sllNext'[m] = sllNext[m]

LEMMA Shrunk ==
  ASSUME Types, NEW ch, Chained(ch), NEW l \in SllNames, NEW k \in 1 .. Len(ch[l]),
         NEW n, Leaves(ch[l], l, k, n),
         sllMemory' = [nodes |-> sllMemory.nodes \ {n}, data |-> sllMemory.data \ {n}],
         UNCHANGED <<sllData, sllNew>>
  PROVE  SllInv' /\ Lists' = [Lists EXCEPT ![l] = Removed(Lists[l], k)]
<1> DEFINE q == ch[l]
           r == Removed(q, k)
<1>0. /\ n = q[k]
      /\ sllHead' = [sllHead EXCEPT ![l] = IF k = 1 THEN sllNext[n] ELSE sllHead[l]]
      /\ sllNext' \in [SllNodes -> Pointers]
      /\ k > 1 => sllNext'[q[k - 1]] = sllNext[n]
      /\ \A m \in SllNodes : (k > 1 => m # q[k - 1]) => sllNext'[m] = sllNext[m]
  BY DEF Leaves
<1>1. /\ q \in Seq(SllNodes) /\ Len(q) \in Nat /\ Distinct(q)
      /\ Chain(q, sllHead[l], sllNext)
      /\ \A i \in 1 .. Len(q) : q[i] \in SllNodes /\ q[i] # sllNew
      /\ \A i \in 1 .. Len(q) : sllData[q[i]] \in SllValues
  BY ChainOf
<1>2. n \in SllNodes /\ n \in Nodes(q) /\ sllNext[n] = Behind(q, k) /\ n # sllNew
  BY <1>0, <1>1 DEF Chain, Nodes
<1>3. r \in Seq(SllNodes) /\ Nodes(r) = Nodes(q) \ {n}
  BY <1>0, <1>1, RemovedShape, RemovedNodes
<1>4. sllNew' = sllNew /\ sllData' = sllData
  OBVIOUS
<1>5. Chain(r, sllHead'[l], sllNext')
  <2>1. \A i \in 1 .. Len(q) : i # k - 1 => sllNext'[q[i]] = sllNext[q[i]]
    <3> TAKE i \in 1 .. Len(q)
    <3>1. k > 1 => k - 1 \in 1 .. Len(q)
      BY <1>1
    <3>2. i # k - 1 => (k > 1 => q[i] # q[k - 1])
      BY <3>1, <1>1 DEF Distinct
    <3> QED
      BY <1>0, <1>1, <3>2
  <2>2. Chain(r, IF k = 1 THEN Behind(q, k) ELSE sllHead[l], sllNext')
    BY <1>0, <1>1, <1>2, <2>1, ChainShrinks
  <2>3. sllHead'[l] = IF k = 1 THEN Behind(q, k) ELSE sllHead[l]
    BY <1>0, <1>2 DEF Types
  <2> QED
    BY <2>2, <2>3
<1>6. ASSUME NEW m \in SllNames, m # l PROVE Chain(ch[m], sllHead'[m], sllNext')
  <2>1. /\ Chain(ch[m], sllHead[m], sllNext)
        /\ \A i \in 1 .. Len(ch[m]) : ch[m][i] \in Nodes(ch[m]) /\ ch[m][i] \in SllNodes
    BY ChainOf
  <2>2. k > 1 => q[k - 1] \in Nodes(q)
    BY <1>1 DEF Nodes
  <2>3. Nodes(ch[m]) \cap Nodes(q) = {}
    BY <1>6 DEF Chained
  <2>4. \A i \in 1 .. Len(ch[m]) : sllNext'[ch[m][i]] = sllNext[ch[m][i]]
    BY <1>0, <2>1, <2>2, <2>3
  <2>5. sllHead'[m] = sllHead[m]
    BY <1>0, <1>6 DEF Types
  <2> QED
    BY <2>1, <2>4, <2>5, ChainStays
<1> HIDE DEF r
<1>7. PICK ch2 : ch2 = [ch EXCEPT ![l] = r]
  OBVIOUS
<1>8. /\ ch2 \in [SllNames -> Seq(SllNodes)] /\ ch2[l] = r
      /\ \A m \in SllNames : m # l => ch2[m] = ch[m]
  BY <1>3, <1>7 DEF Chained
<1>9. /\ \A i, j \in SllNames : i # j => Nodes(ch[i]) \cap Nodes(ch[j]) = {}
      /\ \A i \in SllNames : sllNew \notin Nodes(ch[i])
      /\ sllMemory.nodes = Held \cup UNION {Nodes(ch[m]) : m \in SllNames}
      /\ sllMemory = [nodes |-> sllMemory.nodes, data |-> sllMemory.nodes]
  BY DEF Chained, Types
<1>10. \A m \in SllNames : Nodes(ch2[m]) = Nodes(ch[m]) \ {n}
  <2> TAKE m \in SllNames
  <2>1. CASE m = l
    BY <1>3, <1>8, <2>1
  <2>2. CASE m # l
    BY <1>2, <1>8, <1>9, <2>2
  <2> QED
    BY <2>1, <2>2
<1>11. Chained(ch2)'
  <2>1. \A m \in SllNames : Chain(ch2[m], sllHead'[m], sllNext')
    BY <1>5, <1>6, <1>8
  <2>2. \A i, j \in SllNames : i # j => Nodes(ch2[i]) \cap Nodes(ch2[j]) = {}
    BY <1>9, <1>10
  <2>3. \A m \in SllNames : sllNew \notin Nodes(ch2[m])
    BY <1>9, <1>10
  <2>4. n \notin Held
    BY <1>2 DEF Held
  <2>5. sllMemory.nodes \ {n} = Held \cup UNION {Nodes(ch2[m]) : m \in SllNames}
    <3>1. \A x : x \in sllMemory.nodes <=> x \in Held \/ \E m \in SllNames : x \in Nodes(ch[m])
      BY <1>9
    <3>2. \A x : (\E m \in SllNames : x \in Nodes(ch2[m]))
                 <=> x # n /\ \E m \in SllNames : x \in Nodes(ch[m])
      BY <1>10
    <3> QED
      BY <2>4, <3>1, <3>2
  <2>6. Held' = Held
    BY <1>4 DEF Held
  <2> QED
    BY <1>4, <1>8, <2>1, <2>2, <2>3, <2>5, <2>6 DEF Chained
<1>12. Types'
  <2>1. Behind(q, k) \in Pointers
    BY <1>1 DEF Behind, Pointers
  <2>2. sllHead' \in [SllNames -> Pointers]
    BY <1>0, <1>2, <2>1 DEF Types
  <2>3. /\ sllMemory'.nodes = sllMemory.nodes \ {n}
        /\ sllMemory' = [nodes |-> sllMemory'.nodes, data |-> sllMemory'.nodes]
    <3>1. sllMemory.data = sllMemory.nodes
      BY <1>9
    <3> PICK A, w : A = sllMemory.nodes \ {n} /\ w = sllMemory'
      OBVIOUS
    <3>2. w = [nodes |-> A, data |-> A]
      BY <3>1
    <3>3. w.nodes = A /\ w = [nodes |-> w.nodes, data |-> w.nodes]
      BY ONLY <3>2
    <3> QED
      BY <3>3
  <2>4. sllNew # SllNil => sllNext'[sllNew] = sllNext[sllNew]
    <3> SUFFICES ASSUME sllNew # SllNil PROVE sllNext'[sllNew] = sllNext[sllNew]
      OBVIOUS
    <3>1. sllNew \in SllNodes
      BY DEF Types
    <3>2. k > 1 => k - 1 \in 1 .. Len(q)
      BY <1>1
    <3> QED
      BY <1>0, <1>1, <3>1, <3>2
  <2>5. sllNew \in sllMemory'.nodes \cup {SllNil}
    BY <1>2, <2>3 DEF Types
  <2> QED
    BY <1>0, <1>4, <2>2, <2>3, <2>4, <2>5 DEF Types
<1>13. Lists' = [Lists EXCEPT ![l] = Removed(Lists[l], k)]
  <2>1. Lists = [m \in SllNames |-> Values(ch[m], sllData)]
    BY ListsAreShown DEF Shows
  <2>2. Lists' = [m \in SllNames |-> Values(ch2[m], sllData')]
    BY <1>11, ListsWillBeShown DEF Shows
  <2>3. Values(r, sllData) = Removed(Values(q, sllData), k)
    BY <1>1, RemovedValues DEF r
  <2>4. \A m \in SllNames : Values(ch2[m], sllData) = IF m = l THEN Removed(Lists[l], k) ELSE Lists[m]
    BY <1>8, <2>1, <2>3
  <2>5. Lists' = [m \in SllNames |-> IF m = l THEN Removed(Lists[l], k) ELSE Lists[m]]
    BY <1>4, <2>2, <2>4
  <2> QED
    BY <2>1, <2>5
<1> QED
  BY <1>11, <1>12, <1>13 DEF SllInv

-----------------------------------------------------------------------------
(* Every operation is one of SeqLists.                                     *)

LEMMA Changed ==
  ASSUME NEW l \in SllNames, NEW s, Lists' = [Lists EXCEPT ![l] = s]
  PROVE  Abstract!Changes(l, s)
BY DEF Abstract!Changes, Lists

LEMMA ListIs ==
  ASSUME Types, NEW ch, Chained(ch), NEW l \in SllNames
  PROVE  /\ Lists[l] \in Seq(SllValues) /\ Len(Lists[l]) = Len(ch[l])
         /\ \A i \in 1 .. Len(ch[l]) : Lists[l][i] = sllData[ch[l][i]]
<1>1. Lists[l] = Values(ch[l], sllData)
  BY ListsAreShown DEF Shows
<1>2. ch[l] \in Seq(SllNodes) /\ \A i \in 1 .. Len(ch[l]) : sllData[ch[l][i]] \in SllValues
  BY ChainOf
<1>3. Values(ch[l], sllData) \in Seq(SllValues) /\ Len(Values(ch[l], sllData)) = Len(ch[l])
  <2> PICK q, data : q = ch[l] /\ data = sllData
    OBVIOUS
  <2>1. q \in Seq(SllNodes) /\ \A i \in 1 .. Len(q) : data[q[i]] \in SllValues
    BY <1>2
  <2>2. Values(q, data) \in Seq(SllValues) /\ Len(Values(q, data)) = Len(q)
    BY <2>1, ValuesOf
  <2> QED
    BY <2>2
<1>4. \A i \in 1 .. Len(ch[l]) : Values(ch[l], sllData)[i] = sllData[ch[l][i]]
  BY DEF Values
<1> QED
  BY <1>1, <1>3, <1>4

LEMMA Starts == SllInit => SllInv /\ Abstract!Empty
<1> SUFFICES ASSUME SllInit PROVE SllInv /\ Abstract!Empty
  OBVIOUS
<1> PICK ch : ch = [l \in SllNames |-> << >>]
  OBVIOUS
<1>1. \A l \in SllNames : ch[l] = << >> /\ Nodes(ch[l]) = {} /\ Values(ch[l], sllData) = << >>
  BY DEF Nodes, Values
<1>2. Chained(ch)
  <2>1. \A l \in SllNames : Chain(ch[l], sllHead[l], sllNext)
    BY DEF SllInit, Chain, Distinct, First
  <2>2. ch \in [SllNames -> Seq(SllNodes)]
    OBVIOUS
  <2>3. sllMemory.nodes = {} /\ Held = {}
    BY DEF SllInit, Held
  <2>4. UNION {Nodes(ch[l]) : l \in SllNames} = {}
    BY <1>1
  <2> QED
    BY <1>1, <2>1, <2>2, <2>3, <2>4 DEF Chained
<1>3. Types
  BY DEF SllInit, Types, Pointers
<1>4. Lists = [l \in SllNames |-> << >>]
  <2>1. Lists = [l \in SllNames |-> Values(ch[l], sllData)]
    BY <1>2, ListsAreShown DEF Shows
  <2> QED
    BY <1>1, <2>1
<1> QED
  BY <1>2, <1>3, <1>4 DEF SllInv, Lists, Abstract!Empty

LEMMA Allocates == SllInv /\ AllocateNode => SllInv' /\ Lists' = Lists
<1> SUFFICES ASSUME Types, NEW ch, Chained(ch), AllocateNode
             PROVE  SllInv' /\ Lists' = Lists
  BY DEF SllInv
<1>1. PICK n \in SllNodes \ sllMemory.nodes, v \in SllValues :
        /\ sllNew' = n
        /\ sllData' = [sllData EXCEPT ![n] = v]
        /\ sllMemory' = [nodes |-> sllMemory.nodes \cup {n}, data |-> sllMemory.data \cup {n}]
        /\ sllNext' = [sllNext EXCEPT ![n] = SllNil]
  BY DEF AllocateNode, Links
<1>2. sllNew = SllNil /\ sllHead' = sllHead /\ n # SllNil
  BY SllAssumption DEF AllocateNode
<1>3. /\ sllMemory'.nodes = sllMemory.nodes \cup {n}
      /\ sllMemory' = [nodes |-> sllMemory'.nodes, data |-> sllMemory'.nodes]
  <2>1. sllMemory.data = sllMemory.nodes
    BY DEF Types
  <2> PICK A, w : A = sllMemory.nodes \cup {n} /\ w = sllMemory'
    OBVIOUS
  <2>2. w = [nodes |-> A, data |-> A]
    BY <1>1, <2>1
  <2>3. w.nodes = A /\ w = [nodes |-> w.nodes, data |-> w.nodes]
    BY ONLY <2>2
  <2> QED
    BY <2>3
<1>4. ASSUME NEW l \in SllNames
      PROVE  /\ n \notin Nodes(ch[l])
             /\ \A i \in 1 .. Len(ch[l]) : ch[l][i] # n /\ ch[l][i] \in SllNodes
             /\ Chain(ch[l], sllHead[l], sllNext) /\ ch[l] \in Seq(SllNodes)
  BY ChainOf DEF Chained
<1>5. Chained(ch)'
  <2>1. ASSUME NEW l \in SllNames PROVE Chain(ch[l], sllHead'[l], sllNext')
    <3>1. \A i \in 1 .. Len(ch[l]) : sllNext'[ch[l][i]] = sllNext[ch[l][i]]
      BY <1>1, <1>4 DEF Types
    <3> QED
      BY <1>2, <1>4, <3>1, ChainStays
  <2>2. sllMemory'.nodes = {n} \cup UNION {Nodes(ch[l]) : l \in SllNames}
    BY <1>2, <1>3 DEF Chained, Held
  <2>3. Held' = {n}
    BY <1>1, <1>2 DEF Held
  <2>4. \A l \in SllNames : sllNew' \notin Nodes(ch[l])
    BY <1>1, <1>4
  <2>5. /\ ch \in [SllNames -> Seq(SllNodes)]
        /\ \A l, m \in SllNames : l # m => Nodes(ch[l]) \cap Nodes(ch[m]) = {}
    BY DEF Chained
  <2> QED
    BY <2>1, <2>2, <2>3, <2>4, <2>5 DEF Chained
<1>6. Types'
  <2>1. sllNext' \in [SllNodes -> Pointers] /\ sllNext'[n] = SllNil
    BY <1>1 DEF Types, Pointers
  <2>2. sllData' = [m \in SllNodes |-> sllData'[m]] /\ sllData'[n] = v
    BY <1>1 DEF Types
  <2>3. \A m \in sllMemory'.nodes : sllData'[m] \in SllValues
    BY <1>1, <1>3, <2>2 DEF Types
  <2>4. /\ sllHead' \in [SllNames -> Pointers]
        /\ sllNew' \in sllMemory'.nodes \cup {SllNil} /\ sllMemory'.nodes \subseteq SllNodes
    BY <1>1, <1>2, <1>3 DEF Types
  <2> QED
    BY <1>1, <1>3, <2>1, <2>2, <2>3, <2>4 DEF Types
<1>7. Lists' = Lists
  <2>1. /\ Lists = [l \in SllNames |-> Values(ch[l], sllData)]
        /\ Lists' = [l \in SllNames |-> Values(ch[l], sllData')]
    BY <1>5, ListsAreShown, ListsWillBeShown DEF Shows
  <2>2. ASSUME NEW l \in SllNames PROVE Values(ch[l], sllData') = Values(ch[l], sllData)
    <3>1. \A i \in 1 .. Len(ch[l]) : sllData'[ch[l][i]] = sllData[ch[l][i]]
      BY <1>1, <1>4 DEF Types
    <3> QED
      BY <3>1 DEF Values
  <2> QED
    BY <2>1, <2>2
<1> QED
  BY <1>5, <1>6, <1>7 DEF SllInv

LEMMA Appends ==
  ASSUME SllInv, NEW l \in SllNames, AppendNode(l)
  PROVE  SllInv' /\ Abstract!ListNext
<1> PICK ch : Chained(ch)
  BY DEF SllInv
<1> PICK n : n = sllNew
  OBVIOUS
<1> PICK k : k = Len(ch[l]) + 1
  OBVIOUS
<1>1. /\ Types /\ n \in SllNodes /\ n # SllNil /\ sllData[n] \in SllValues
      /\ sllNext[n] = SllNil /\ Linked
  BY DEF SllInv, Types, AppendNode
<1>2. /\ Len(ch[l]) \in Nat /\ Chain(ch[l], sllHead[l], sllNext)
      /\ \A i \in 1 .. Len(ch[l]) : ch[l][i] \in SllNodes /\ ch[l][i] # n
  BY <1>1, ChainOf
<1>3. /\ sllHead[l] = SllNil <=> Len(ch[l]) = 0
      /\ Len(ch[l]) # 0 => LastNode(sllHead[l]) = ch[l][Len(ch[l])]
  BY <1>2, Found
<1>4. k \in 1 .. Len(ch[l]) + 1 /\ Behind(ch[l], k - 1) = SllNil /\ (k = 1 <=> Len(ch[l]) = 0)
      /\ (k > 1 <=> Len(ch[l]) # 0) /\ k - 1 = Len(ch[l])
      /\ (k > 1 => k - 1 \in 1 .. Len(ch[l]))
  BY <1>2 DEF Behind
<1>5. SllInv' /\ Lists' = [Lists EXCEPT ![l] = Inserted(Lists[l], k, sllData[n])]
  <2>1. CASE sllHead[l] = SllNil
    <3>1. sllHead' = [sllHead EXCEPT ![l] = n] /\ sllNext' = sllNext /\ k = 1
      BY <1>3, <1>4, <2>1 DEF AppendNode, EmptyList, Sets
    <3>2. Joins(ch[l], l, k, n)
      BY <1>1, <1>4, <3>1 DEF Types, Joins
    <3> QED
      BY <1>1, <3>2, Grown
  <2>2. CASE sllHead[l] # SllNil
    <3>1. sllHead' = sllHead /\ sllNext' = [sllNext EXCEPT ![ch[l][k - 1]] = n] /\ k > 1
      BY <1>3, <1>4, <2>2 DEF AppendNode, EmptyList, Links
    <3>2. ch[l][k - 1] \in SllNodes /\ ch[l][k - 1] # n
      BY <1>2, <1>4, <3>1
    <3>3. /\ sllHead' = [sllHead EXCEPT ![l] = IF k = 1 THEN n ELSE sllHead[l]]
      BY <1>1, <3>1, <1>4 DEF Types
    <3>4. sllNext' \in [SllNodes -> Pointers] /\ sllNext'[n] = Behind(ch[l], k - 1)
      BY <1>1, <1>4, <3>1, <3>2 DEF Types, Pointers
    <3>5. /\ k > 1 => sllNext'[ch[l][k - 1]] = n
          /\ \A m \in SllNodes : m # n /\ (k > 1 => m # ch[l][k - 1]) => sllNext'[m] = sllNext[m]
      BY <1>1, <3>1, <3>2 DEF Types
    <3>6. Joins(ch[l], l, k, n)
      BY <1>4, <3>3, <3>4, <3>5 DEF Joins
    <3> QED
      BY <1>1, <3>6, Grown
  <2> QED
    BY <2>1, <2>2
<1>6. Inserted(Lists[l], k, sllData[n]) = Append(Lists[l], sllData[n])
  <2>1. Lists[l] \in Seq(SllValues) /\ Len(Lists[l]) = Len(ch[l])
    BY <1>1, ListIs
  <2> QED
    BY <1>1, <2>1, AppendIsInserted
<1>7. Abstract!Changes(l, Append(Lists[l], sllData[n]))
  BY <1>5, <1>6, Changed
<1> QED
  BY <1>1, <1>5, <1>7 DEF Abstract!ListNext, Lists

LEMMA Inserts ==
  ASSUME SllInv, NEW l \in SllNames, InsertNode(l)
  PROVE  SllInv' /\ Abstract!ListNext
<1> PICK ch : Chained(ch)
  BY DEF SllInv
<1> PICK n : n = sllNew
  OBVIOUS
<1> PICK k : k = 1
  OBVIOUS
<1>1. /\ Types /\ n \in SllNodes /\ n # SllNil /\ sllData[n] \in SllValues
      /\ Linked
  BY DEF SllInv, Types, InsertNode
<1>2. /\ Len(ch[l]) \in Nat /\ Chain(ch[l], sllHead[l], sllNext)
  BY <1>1, ChainOf
<1>3. k \in 1 .. Len(ch[l]) + 1 /\ Behind(ch[l], k - 1) = sllHead[l] /\ ~(k > 1)
  BY <1>2 DEF Behind, Chain, First
<1>4. sllHead' = [sllHead EXCEPT ![l] = n] /\ sllNext' = [sllNext EXCEPT ![n] = sllHead[l]]
  BY DEF InsertNode, Sets, Links
<1>5. SllInv' /\ Lists' = [Lists EXCEPT ![l] = Inserted(Lists[l], k, sllData[n])]
  <2>1. sllHead' = [sllHead EXCEPT ![l] = IF k = 1 THEN n ELSE sllHead[l]]
    BY <1>4
  <2>2. Joins(ch[l], l, k, n)
    BY <1>1, <1>3, <1>4, <2>1 DEF Types, Joins
  <2> QED
    BY <1>1, <2>2, Grown
<1>6. Inserted(Lists[l], k, sllData[n]) = <<sllData[n]>> \o Lists[l]
  <2>1. Lists[l] \in Seq(SllValues)
    BY <1>1, ListIs
  <2> QED
    BY <1>1, <2>1, ConsIsInserted
<1>7. Abstract!Changes(l, <<sllData[n]>> \o Lists[l])
  BY <1>5, <1>6, Changed
<1> QED
  BY <1>1, <1>5, <1>7 DEF Abstract!ListNext, Lists

(* The place that SortedAt chooses is the only one of its kind.            *)
LEMMA OneSortedPlace ==
  ASSUME NEW s \in Seq(SllValues), NEW v \in SllValues, NEW k \in 1 .. Len(s) + 1,
         \A j \in 1 .. k - 1 : s[j] <= v, k <= Len(s) => s[k] > v
  PROVE  Abstract!SortedAt(s, v) = k
<1> DEFINE Place(i) == /\ \A j \in 1 .. i - 1 : s[j] <= v
                       /\ i <= Len(s) => s[i] > v
<1>1. Len(s) \in Nat /\ v \in Int /\ \A i \in 1 .. Len(s) : s[i] \in Int
  BY LenProperties, ElementOfSeq, SllAssumption
<1>2. Place(k)
  OBVIOUS
<1>3. ASSUME NEW a \in 1 .. Len(s) + 1, NEW b \in 1 .. Len(s) + 1, Place(a), Place(b), a < b
      PROVE  FALSE
  <2>1. a \in 1 .. b - 1 /\ a <= Len(s) /\ a \in 1 .. Len(s)
    BY <1>1, <1>3
  <2>2. s[a] <= v /\ s[a] > v /\ s[a] \in Int
    BY <1>1, <1>3, <2>1
  <2> QED
    BY <1>1, <2>2
<1> HIDE DEF Place
<1>4. ASSUME NEW i \in 1 .. Len(s) + 1, Place(i) PROVE i = k
  <2>1. ~(i < k) /\ ~(k < i)
    BY <1>2, <1>3, <1>4
  <2> QED
    BY <1>1, <2>1
<1>5. (CHOOSE i \in 1 .. Len(s) + 1 : Place(i)) = k
  BY <1>2, <1>4
<1> QED
  BY <1>5 DEF Place, Abstract!SortedAt

(* The new node comes where SortedAt says, wherever it comes.              *)
LEMMA ComesSorted ==
  ASSUME Types, NEW ch, Chained(ch), NEW l \in SllNames, NEW k, NEW n, n = sllNew, n # SllNil,
         Linked, Joins(ch[l], l, k, n),
         \A j \in 1 .. k - 1 : sllData[ch[l][j]] <= sllData[n],
         k <= Len(ch[l]) => sllData[ch[l][k]] > sllData[n]
  PROVE  SllInv' /\ Abstract!ListNext
<1>0. SllInv' /\ Lists' = [Lists EXCEPT ![l] = Inserted(Lists[l], k, sllData[n])]
  <2>1. /\ Types /\ Chained(ch) /\ l \in SllNames /\ n = sllNew /\ n # SllNil /\ Linked
        /\ Joins(ch[l], l, k, n)
    OBVIOUS
  <2> QED
    BY ONLY <2>1, Grown
<1> PICK w, v : w = Lists[l] /\ v = sllData[n]
  OBVIOUS
<1>1. SllInv' /\ Lists' = [Lists EXCEPT ![l] = Inserted(w, k, v)]
  BY <1>0
<1>2. /\ w \in Seq(SllValues) /\ Len(w) = Len(ch[l]) /\ Len(ch[l]) \in Nat
      /\ \A i \in 1 .. Len(ch[l]) : w[i] = sllData[ch[l][i]]
  BY ListIs, ChainOf
<1>3. v \in SllValues /\ k \in 1 .. Len(w) + 1
  BY <1>2 DEF Types, Joins
<1>4. (\A j \in 1 .. k - 1 : w[j] <= v) /\ (k <= Len(w) => w[k] > v)
  <2>1. \A j \in 1 .. k - 1 : j \in 1 .. Len(ch[l])
    BY <1>2, <1>3
  <2>2. k <= Len(w) => k \in 1 .. Len(ch[l])
    BY <1>2, <1>3
  <2> QED
    BY <1>2, <2>1, <2>2
<1>5. Abstract!SortedAt(w, v) = k
  BY <1>2, <1>3, <1>4, OneSortedPlace
<1>6. Abstract!With(w, k, v) = Inserted(w, k, v)
  BY <1>2, <1>3, WithIsInserted
<1>7. Abstract!Changes(l, Abstract!With(w, Abstract!SortedAt(w, v), v))
  BY <1>1, <1>5, <1>6, Changed
<1> QED
  BY <1>1, <1>3, <1>7 DEF Abstract!ListNext, Lists

LEMMA AppendsSorted ==
  ASSUME SllInv, NEW l \in SllNames, AppendNodeSorted(l)
  PROVE  SllInv' /\ Abstract!ListNext
<1> PICK ch : Chained(ch)
  BY DEF SllInv
<1> PICK n, q : n = sllNew /\ q = ch[l]
  OBVIOUS
<1>1. /\ Types /\ n \in SllNodes /\ n # SllNil /\ sllData[n] \in SllValues
      /\ sllNext[n] = SllNil /\ Linked
  BY DEF SllInv, Types, AppendNodeSorted
<1>2. /\ Len(q) \in Nat /\ Chain(q, sllHead[l], sllNext) /\ Distinct(q)
      /\ \A i \in 1 .. Len(q) : q[i] \in SllNodes /\ q[i] # n /\ q[i] # SllNil
                                /\ sllData[q[i]] \in Int /\ sllNext[q[i]] = Behind(q, i)
  <2>1. /\ Len(q) \in Nat /\ Distinct(q) /\ Chain(q, sllHead[l], sllNext)
        /\ \A i \in 1 .. Len(q) : q[i] \in SllNodes /\ q[i] # n /\ sllData[q[i]] \in SllValues
    BY <1>1, ChainOf
  <2>2. \A i \in 1 .. Len(q) : sllNext[q[i]] = Behind(q, i)
    BY <2>1 DEF Chain
  <2> QED
    BY <2>1, <2>2, SllAssumption
<1>3. /\ sllHead[l] = SllNil <=> Len(q) = 0
      /\ NumNodes(sllHead[l]) = Len(q)
      /\ \A i \in 1 .. Len(q) : GetNthNode(sllHead[l], i) = q[i]
      /\ Len(q) # 0 => sllHead[l] = q[1]
      /\ Len(q) = 0 => sllHead[l] = SllNil
  BY <1>2, Found DEF Chain, First
<1>4. sllData[n] \in Int
  BY <1>1, SllAssumption
<1>5. CASE sllHead[l] = SllNil
  <2> PICK k : k = 1
    OBVIOUS
  <2>1. sllHead' = [sllHead EXCEPT ![l] = n] /\ sllNext' = sllNext /\ Len(q) = 0
    BY <1>3, <1>5 DEF AppendNodeSorted, EmptyList, Sets
  <2>2. k \in 1 .. Len(q) + 1 /\ Behind(q, k - 1) = SllNil /\ ~(k > 1) /\ ~(k <= Len(q))
    BY <2>1 DEF Behind
  <2>3. Joins(q, l, k, n)
    BY <1>1, <2>1, <2>2 DEF Types, Joins
  <2>4. \A j \in 1 .. k - 1 : sllData[q[j]] <= sllData[n]
    OBVIOUS
  <2> QED
    BY <1>1, <2>2, <2>3, <2>4, ComesSorted
<1>6. CASE sllHead[l] # SllNil /\ Greater(sllHead[l])
  <2> PICK k : k = 1
    OBVIOUS
  <2>1. /\ sllNext' = [sllNext EXCEPT ![n] = sllHead[l]] /\ sllHead' = [sllHead EXCEPT ![l] = n]
        /\ Len(q) # 0 /\ sllHead[l] = q[1]
    BY <1>3, <1>6 DEF AppendNodeSorted, EmptyList, Sets, Links
  <2>2. k \in 1 .. Len(q) + 1 /\ Behind(q, k - 1) = sllHead[l] /\ ~(k > 1)
    BY <1>2, <2>1 DEF Behind
  <2>3. Joins(q, l, k, n)
    <3>1. sllHead' = [sllHead EXCEPT ![l] = IF k = 1 THEN n ELSE sllHead[l]]
      BY <2>1
    <3> QED
      BY <1>1, <2>1, <2>2, <3>1 DEF Types, Joins
  <2>4. \A j \in 1 .. k - 1 : sllData[q[j]] <= sllData[n]
    OBVIOUS
  <2>5. k <= Len(q) => sllData[q[k]] > sllData[n]
    BY <1>6, <2>1 DEF Greater
  <2> QED
    BY <1>1, <2>3, <2>4, <2>5, ComesSorted
<1>7. CASE sllHead[l] # SllNil /\ ~Greater(sllHead[l])
  <2> DEFINE Stops(j) == sllNext[q[j]] # SllNil => Greater(sllNext[q[j]])
  <2>1. PICK i \in 1 .. Len(q) :
          /\ Stops(i) /\ \A j \in 1 .. i - 1 : ~Stops(j)
          /\ sllNext' = [sllNext EXCEPT ![n] = sllNext[q[i]], ![q[i]] = n]
          /\ sllHead' = sllHead
    <3>1. PICK i \in 1 .. NumNodes(sllHead[l]) :
            LET tmp(j) == GetNthNode(sllHead[l], j)
                Ends(j) == sllNext[tmp(j)] # SllNil => Greater(sllNext[tmp(j)])
            IN /\ Ends(i) /\ \A j \in 1 .. i - 1 : ~Ends(j)
               /\ sllNext' = [sllNext EXCEPT ![sllNew] = sllNext[tmp(i)], ![tmp(i)] = sllNew]
               /\ UNCHANGED sllHead
      BY <1>7 DEF AppendNodeSorted, EmptyList
    <3>2. i \in 1 .. Len(q) /\ \A j \in 1 .. i - 1 : j \in 1 .. Len(q)
      BY <1>2, <1>3
    <3> QED
      BY <1>3, <3>1, <3>2
  <2> PICK k : k = i + 1
    OBVIOUS
  <2>2. /\ k \in 1 .. Len(q) + 1 /\ k # 1 /\ k > 1 /\ k - 1 = i /\ q[i] \in SllNodes /\ q[i] # n
        /\ sllNext[q[i]] = Behind(q, i)
    BY <1>2
  <2>3. Joins(q, l, k, n)
    <3>1. sllHead' = [sllHead EXCEPT ![l] = IF k = 1 THEN n ELSE sllHead[l]]
      BY <1>1, <2>1, <2>2 DEF Types
    <3>2. Behind(q, i) \in Pointers
      BY <1>2 DEF Behind, Pointers
    <3>3. sllNext' \in [SllNodes -> Pointers] /\ sllNext'[n] = Behind(q, i) /\ sllNext'[q[i]] = n
      BY <1>1, <2>1, <2>2, <3>2 DEF Types, Pointers
    <3>4. \A m \in SllNodes : m # n /\ m # q[i] => sllNext'[m] = sllNext[m]
      BY <1>1, <2>1, <2>2 DEF Types
    <3> QED
      BY <2>2, <3>1, <3>3, <3>4 DEF Joins
  <2>4. \A j \in 1 .. k - 1 : sllData[q[j]] <= sllData[n]
    <3> TAKE j \in 1 .. k - 1
    <3>1. CASE j = 1
      BY <1>2, <1>3, <1>4, <1>7, <3>1 DEF Greater
    <3>2. CASE j # 1
      <4>1. /\ j - 1 \in 1 .. i - 1 /\ j - 1 \in 1 .. Len(q) /\ j - 1 < Len(q)
            /\ (j - 1) + 1 = j /\ j \in 1 .. Len(q)
        BY <1>2, <2>2, <3>2
      <4>2. sllNext[q[j - 1]] = q[j] /\ ~Stops(j - 1)
        BY <1>2, <2>1, <4>1 DEF Behind
      <4> QED
        BY <1>2, <1>4, <4>1, <4>2 DEF Greater
    <3> QED
      BY <3>1, <3>2
  <2>5. k <= Len(q) => sllData[q[k]] > sllData[n]
    <3> SUFFICES ASSUME k <= Len(q) PROVE sllData[q[k]] > sllData[n]
      OBVIOUS
    <3>1. k \in 1 .. Len(q) /\ i < Len(q)
      BY <1>2, <2>2
    <3>2. sllNext[q[i]] = q[k] /\ q[k] # SllNil
      BY <1>2, <2>2, <3>1 DEF Behind
    <3> QED
      BY <2>1, <3>2 DEF Greater
  <2> QED
    BY <1>1, <2>3, <2>4, <2>5, ComesSorted
<1> QED
  BY <1>5, <1>6, <1>7

LEMMA Destroys ==
  ASSUME SllInv, NEW l \in SllNames, DestroyNode(l)
  PROVE  SllInv' /\ Abstract!ListNext
<1> PICK ch : Chained(ch)
  BY DEF SllInv
<1> PICK q : q = ch[l]
  OBVIOUS
<1>1. /\ Types /\ Len(q) \in Nat /\ Chain(q, sllHead[l], sllNext) /\ Distinct(q)
      /\ \A i \in 1 .. Len(q) : q[i] \in SllNodes /\ q[i] # SllNil /\ sllNext[q[i]] = Behind(q, i)
  <2>1. Types /\ Chain(q, sllHead[l], sllNext)
    BY ChainOf DEF SllInv
  <2> QED
    BY <2>1, ChainOf, SllAssumption DEF Chain
<1>2. /\ NumNodes(sllHead[l]) = Len(q)
      /\ \A i \in 1 .. Len(q) : GetNthNode(sllHead[l], i) = q[i]
      /\ OnList(sllHead[l]) = Nodes(q)
      /\ Len(q) # 0 => sllHead[l] = q[1]
  BY <1>1, Found DEF Chain, First
<1>3. PICK k \in 1 .. Len(q) :
        /\ DelNode(l, q[k])
        /\ sllMemory' = [nodes |-> sllMemory.nodes \ {q[k]}, data |-> sllMemory.data \ {q[k]}]
  BY <1>2 DEF DestroyNode
<1> PICK n : n = q[k]
  OBVIOUS
<1>4. UNCHANGED <<sllData, sllNew>> /\ n \in SllNodes /\ sllNext[n] = Behind(q, k)
  BY <1>1 DEF DestroyNode
<1>5. Behind(q, k) \in Pointers
  BY <1>1 DEF Behind, Pointers
<1>6. Leaves(q, l, k, n)
  <2>1. CASE sllHead[l] = n
    <3>1. k = 1
      BY <1>1, <1>2, <2>1 DEF Distinct
    <3>2. sllHead' = [sllHead EXCEPT ![l] = sllNext[n]] /\ sllNext' = sllNext
      BY <1>3, <2>1 DEF DelNode, Sets
    <3> QED
      BY <1>1, <3>1, <3>2 DEF Leaves, Types
  <2>2. CASE sllHead[l] # n
    <3>1. PICK p \in Nodes(q) : sllNext[p] = n /\ sllNext' = [sllNext EXCEPT ![p] = sllNext[n]]
      BY <1>2, <1>3, <2>2 DEF DelNode, Links
    <3>2. PICK j \in 1 .. Len(q) : p = q[j]
      BY DEF Nodes
    <3>3. Behind(q, j) = q[k] /\ q[k] # SllNil
      BY <1>1, <3>1, <3>2
    <3>4. j < Len(q) /\ q[j + 1] = q[k] /\ j + 1 \in 1 .. Len(q)
      BY <1>1, <3>3 DEF Behind
    <3>5. j + 1 = k
      BY <3>4, <1>1 DEF Distinct
    <3>6. k > 1 /\ k # 1 /\ k - 1 = j /\ q[j] \in SllNodes
      BY <1>1, <3>5
    <3>7. sllHead' = [sllHead EXCEPT ![l] = IF k = 1 THEN sllNext[n] ELSE sllHead[l]]
      BY <1>1, <1>3, <2>2, <3>6 DEF DelNode, Types
    <3>8. /\ sllNext' \in [SllNodes -> Pointers] /\ sllNext'[q[j]] = sllNext[n]
          /\ \A m \in SllNodes : m # q[j] => sllNext'[m] = sllNext[m]
      BY <1>1, <1>4, <1>5, <3>1, <3>2, <3>6 DEF Types
    <3> QED
      BY <3>6, <3>7, <3>8 DEF Leaves
  <2> QED
    BY <2>1, <2>2
<1>7. SllInv' /\ Lists' = [Lists EXCEPT ![l] = Removed(Lists[l], k)]
  <2>1. /\ Types /\ Chained(ch) /\ k \in 1 .. Len(ch[l]) /\ Leaves(ch[l], l, k, n)
        /\ sllMemory' = [nodes |-> sllMemory.nodes \ {n}, data |-> sllMemory.data \ {n}]
    BY <1>1, <1>3, <1>6
  <2> QED
    BY <1>4, <2>1, Shrunk
<1>8. Lists[l] \in Seq(SllValues) /\ Len(Lists[l]) = Len(q)
  BY <1>1, ListIs
<1>9. Abstract!Without(Lists[l], k) = Removed(Lists[l], k)
  <2> PICK w : w = Lists[l]
    OBVIOUS
  <2>1. Abstract!Without(w, k) = Removed(w, k)
    BY <1>8, WithoutIsRemoved
  <2> QED
    BY <2>1
<1>10. Abstract!Changes(l, Abstract!Without(Lists[l], k))
  BY <1>7, <1>9, Changed
<1>11. k \in DOMAIN Lists[l]
  BY <1>8, LenProperties
<1> QED
  BY <1>7, <1>10, <1>11 DEF Abstract!ListNext, Lists

LEMMA DestroysAll ==
  ASSUME SllInv, NEW l \in SllNames, DestroyNodes(l)
  PROVE  SllInv' /\ Abstract!ListNext
<1> PICK ch : Chained(ch)
  BY DEF SllInv
<1> PICK gone : gone = Nodes(ch[l])
  OBVIOUS
<1>1. Types /\ Chain(ch[l], sllHead[l], sllNext)
  BY ChainOf DEF SllInv
<1>2. OnList(sllHead[l]) = gone
  BY <1>1, Found
<1>3. /\ sllHead' = [sllHead EXCEPT ![l] = SllNil]
      /\ sllMemory' = [nodes |-> sllMemory.nodes \ gone, data |-> sllMemory.data \ gone]
      /\ sllNext' = sllNext /\ sllData' = sllData /\ sllNew' = sllNew
  BY <1>2 DEF DestroyNodes, Sets
<1>4. /\ sllMemory'.nodes = sllMemory.nodes \ gone
      /\ sllMemory' = [nodes |-> sllMemory'.nodes, data |-> sllMemory'.nodes]
  <2>1. sllMemory.data = sllMemory.nodes
    BY <1>1 DEF Types
  <2> PICK A, w : A = sllMemory.nodes \ gone /\ w = sllMemory'
    OBVIOUS
  <2>2. w = [nodes |-> A, data |-> A]
    BY <1>3, <2>1
  <2>3. w.nodes = A /\ w = [nodes |-> w.nodes, data |-> w.nodes]
    BY ONLY <2>2
  <2> QED
    BY <2>3
<1> PICK ch2 : ch2 = [ch EXCEPT ![l] = << >>]
  OBVIOUS
<1>5. /\ ch2 \in [SllNames -> Seq(SllNodes)] /\ ch2[l] = << >>
      /\ \A m \in SllNames : m # l => ch2[m] = ch[m]
  <2>1. << >> \in Seq(SllNodes)
    OBVIOUS
  <2> QED
    BY <2>1 DEF Chained
<1>6. /\ \A i, j \in SllNames : i # j => Nodes(ch[i]) \cap Nodes(ch[j]) = {}
      /\ \A i \in SllNames : sllNew \notin Nodes(ch[i])
      /\ sllMemory.nodes = Held \cup UNION {Nodes(ch[m]) : m \in SllNames}
  BY DEF Chained
<1>7. \A m \in SllNames : Nodes(ch2[m]) = Nodes(ch[m]) \ gone
  <2> TAKE m \in SllNames
  <2>1. CASE m = l
    BY <1>5, <2>1 DEF Nodes
  <2>2. CASE m # l
    BY <1>5, <1>6, <2>2
  <2> QED
    BY <2>1, <2>2
<1>8. sllNew \notin gone /\ Held' = Held /\ Held \cap gone = {}
  BY <1>3, <1>6 DEF Held
<1>9. Chained(ch2)'
  <2>1. ASSUME NEW m \in SllNames PROVE Chain(ch2[m], sllHead'[m], sllNext')
    <3>1. CASE m = l
      <4>1. ch2[m] = << >> /\ sllHead'[m] = SllNil /\ << >> \in Seq(SllNodes)
        BY <1>1, <1>3, <1>5, <3>1 DEF Types
      <4>2. Chain(<< >>, SllNil, sllNext')
        BY DEF Chain, Distinct, First
      <4> QED
        BY <4>1, <4>2
    <3>2. CASE m # l
      <4>1. ch2[m] = ch[m] /\ sllHead'[m] = sllHead[m]
        BY <1>1, <1>3, <1>5, <3>2 DEF Types
      <4> QED
        BY <1>3, <4>1 DEF Chained
    <3> QED
      BY <3>1, <3>2
  <2>2. \A i, j \in SllNames : i # j => Nodes(ch2[i]) \cap Nodes(ch2[j]) = {}
    BY <1>6, <1>7
  <2>3. \A m \in SllNames : sllNew \notin Nodes(ch2[m])
    BY <1>6, <1>7
  <2>4. sllMemory.nodes \ gone = Held \cup UNION {Nodes(ch2[m]) : m \in SllNames}
    <3>1. \A x : x \in sllMemory.nodes <=> x \in Held \/ \E m \in SllNames : x \in Nodes(ch[m])
      BY <1>6
    <3>2. \A x : (\E m \in SllNames : x \in Nodes(ch2[m]))
                 <=> x \notin gone /\ \E m \in SllNames : x \in Nodes(ch[m])
      BY <1>7
    <3> QED
      BY <1>8, <3>1, <3>2
  <2> QED
    BY <1>3, <1>4, <1>5, <1>8, <2>1, <2>2, <2>3, <2>4 DEF Chained
<1>10. Types'
  <2>1. sllHead' \in [SllNames -> Pointers]
    BY <1>1, <1>3 DEF Types, Pointers
  <2>2. sllNew \in sllMemory'.nodes \cup {SllNil}
    BY <1>1, <1>4, <1>8 DEF Types
  <2> QED
    BY <1>1, <1>3, <1>4, <2>1, <2>2 DEF Types
<1>11. Lists' = [Lists EXCEPT ![l] = << >>]
  <2>1. /\ Lists = [m \in SllNames |-> Values(ch[m], sllData)]
        /\ Lists' = [m \in SllNames |-> Values(ch2[m], sllData')]
    <3>1. Lists = [m \in SllNames |-> Values(ch[m], sllData)]
      BY ListsAreShown DEF Shows
    <3>2. Lists' = [m \in SllNames |-> Values(ch2[m], sllData')]
      BY <1>9, ListsWillBeShown DEF Shows
    <3> QED
      BY <3>1, <3>2
  <2>2. Values(<< >>, sllData) = << >>
    BY DEF Values
  <2>3. \A m \in SllNames : Values(ch2[m], sllData) = IF m = l THEN << >> ELSE Lists[m]
    BY <1>5, <2>1, <2>2
  <2>4. Lists' = [m \in SllNames |-> IF m = l THEN << >> ELSE Lists[m]]
    BY <1>3, <2>1, <2>3
  <2> QED
    BY <2>1, <2>4
<1>12. Abstract!Changes(l, << >>)
  BY <1>11, Changed
<1> QED
  BY <1>9, <1>10, <1>12 DEF SllInv, Abstract!ListNext

-----------------------------------------------------------------------------
(* The theorems.                                                           *)

LEMMA StepsOfLists == SllInv /\ [SllNext]_sllVars => SllInv' /\ [Abstract!ListNext]_Lists
<1> SUFFICES ASSUME SllInv, [SllNext]_sllVars PROVE SllInv' /\ [Abstract!ListNext]_Lists
  OBVIOUS
<1>1. CASE AllocateNode
  BY <1>1, Allocates
<1>2. ASSUME NEW l \in SllNames, AppendNode(l) PROVE SllInv' /\ Abstract!ListNext
  BY <1>2, Appends
<1>3. ASSUME NEW l \in SllNames, InsertNode(l) PROVE SllInv' /\ Abstract!ListNext
  BY <1>3, Inserts
<1>4. ASSUME NEW l \in SllNames, AppendNodeSorted(l) PROVE SllInv' /\ Abstract!ListNext
  BY <1>4, AppendsSorted
<1>5. ASSUME NEW l \in SllNames, DestroyNode(l) PROVE SllInv' /\ Abstract!ListNext
  BY <1>5, Destroys
<1>6. ASSUME NEW l \in SllNames, DestroyNodes(l) PROVE SllInv' /\ Abstract!ListNext
  BY <1>6, DestroysAll
<1>7. CASE UNCHANGED sllVars
  <2>1. /\ sllHead' = sllHead /\ sllNext' = sllNext /\ sllData' = sllData
        /\ sllMemory' = sllMemory /\ sllNew' = sllNew
    BY <1>7 DEF sllVars
  <2> PICK ch : Chained(ch)
    BY DEF SllInv
  <2>2. Chained(ch)'
    BY <2>1 DEF Chained, Held
  <2>3. Types'
    BY <2>1 DEF SllInv, Types
  <2>4. Lists' = Lists
    <3>1. /\ Lists = [m \in SllNames |-> Values(ch[m], sllData)]
          /\ Lists' = [m \in SllNames |-> Values(ch[m], sllData')]
      BY <2>2, ListsAreShown, ListsWillBeShown DEF Shows
    <3> QED
      BY <2>1, <3>1
  <2> QED
    BY <2>2, <2>3, <2>4 DEF SllInv
<1> QED
  BY <1>1, <1>2, <1>3, <1>4, <1>5, <1>6, <1>7 DEF SllNext

(* libsll implements sequences: whatever nodes there are and however they  *)
(* are reused, each operation of sll.c does to the list that it is given   *)
(* what SeqLists does to a sequence, and nothing to the others.            *)
THEOREM ListsAreSequences == SllSpec => IsSequences
<1>1. SllInit => SllInv /\ Abstract!Empty
  BY Starts
<1>2. SllInv /\ [SllNext]_sllVars => SllInv' /\ [Abstract!ListNext]_Lists
  BY StepsOfLists
<1>3. Abstract!ListSpec <=> Abstract!Empty /\ [][Abstract!ListNext]_Lists
  BY DEF Abstract!ListSpec, Lists
<1> QED
  BY <1>1, <1>2, <1>3, PTL DEF SllSpec, IsSequences

(* No list of libsll shares a node with another, visits one twice, runs in *)
(* a circle or reaches freed memory, and every allocated node can still be *)
(* found (sll.c:91-383).                                                   *)
THEOREM NoListIsLost == SllSpec => [](SllTypeOK /\ NodesAreOnOneList)
<1>1. SllInit => SllInv
  BY Starts
<1>2. SllInv /\ [SllNext]_sllVars => SllInv'
  BY StepsOfLists
<1>3. SllInv => SllTypeOK
  BY DEF SllInv, Types, SllTypeOK, Pointers
<1>4. SllInv => NodesAreOnOneList
  <2> SUFFICES ASSUME Types, NEW ch, Chained(ch) PROVE NodesAreOnOneList
    BY DEF SllInv
  <2>1. ASSUME NEW l \in SllNames
        PROVE  /\ OnList(sllHead[l]) = Nodes(ch[l])
               /\ Walk(sllHead[l], Cardinality(SllNodes)) = SllNil
               /\ Cardinality(OnList(sllHead[l])) = NumNodes(sllHead[l])
    <3>1. Chain(ch[l], sllHead[l], sllNext)
      BY DEF Chained
    <3> QED
      BY <3>1, Found, ChainFacts
  <2>2. sllMemory.nodes = Held \cup UNION {OnList(sllHead[l]) : l \in SllNames}
    <3>1. sllMemory.nodes = Held \cup UNION {Nodes(ch[l]) : l \in SllNames}
      BY DEF Chained
    <3>2. {OnList(sllHead[l]) : l \in SllNames} = {Nodes(ch[l]) : l \in SllNames}
      BY <2>1
    <3> QED
      BY <3>1, <3>2
  <2>3. sllMemory.nodes = sllMemory.data
    BY DEF Types
  <2>4. \A l \in SllNames : Held \cap OnList(sllHead[l]) = {}
    BY <2>1 DEF Chained, Held
  <2>5. \A l \in SllNames : \A m \in SllNames \ {l} :
          OnList(sllHead[l]) \cap OnList(sllHead[m]) = {}
    BY <2>1 DEF Chained
  <2> QED
    BY <2>1, <2>2, <2>3, <2>4, <2>5 DEF NodesAreOnOneList, Held
<1> QED
  BY <1>1, <1>2, <1>3, <1>4, PTL DEF SllSpec
=============================================================================
