--------------------------- MODULE RegistryProofs ---------------------------
(***************************************************************************)
(* For any models, events, addresses and callbacks: the lists behind the   *)
(* events stay lists, apart from each other, and Winsock is held.  A       *)
(* client that passes no stale descriptors finds in them what it has       *)
(* added; one that also lets a raised event's callbacks be, but for those  *)
(* that are not running when it removes them itself, has each called once. *)
(***************************************************************************)
EXTENDS Registry, FiniteSetTheorems, SequenceTheorems, TLAPS

-----------------------------------------------------------------------------
(* Sequences, by their elements.                                           *)

\* t is s with x in front.
Prepended(t, s, x) ==
  /\ Len(t) = Len(s) + 1
  /\ \A i \in 1 .. Len(t) : t[i] = IF i = 1 THEN x ELSE s[i - 1]

\* t is s without its k-th element.
Dropped(t, s, k) ==
  /\ Len(t) = Len(s) - 1
  /\ \A i \in 1 .. Len(t) : t[i] = IF i < k THEN s[i] ELSE s[i + 1]

LEMMA Prepending ==
  ASSUME NEW S, NEW s \in Seq(S), NEW x \in S
  PROVE  <<x>> \o s \in Seq(S) /\ Prepended(<<x>> \o s, s, x)
<1>1. <<x>> \in Seq(S) /\ Len(<<x>>) = 1 /\ <<x>>[1] = x
  OBVIOUS
<1>2. Len(s) \in Nat
  BY LenProperties
<1> QED
  BY <1>1, <1>2, ConcatProperties DEF Prepended

LEMMA RemovingAt ==
  ASSUME NEW S, NEW s \in Seq(S), NEW k \in 1 .. Len(s)
  PROVE  RemoveAt(s, k) \in Seq(S) /\ Dropped(RemoveAt(s, k), s, k)
<1>1. Len(s) \in Nat /\ \A i \in 1 .. Len(s) : s[i] \in S
  BY LenProperties, ElementOfSeq
<1> DEFINE a == SubSeq(s, 1, k - 1)
           b == SubSeq(s, k + 1, Len(s))
<1>2. /\ a \in Seq(S) /\ Len(a) = k - 1
      /\ \A i \in 1 .. k - 1 : a[i] = s[i]
  <2>1. \A i \in 1 .. k - 1 : s[i] \in S
    BY <1>1
  <2> QED
    BY <1>1, <2>1, SubSeqProperties
<1>3. /\ b \in Seq(S) /\ Len(b) = Len(s) - k
      /\ \A i \in 1 .. Len(s) - k : b[i] = s[k + i]
  <2>1. \A i \in k + 1 .. Len(s) : s[i] \in S
    BY <1>1
  <2>2. k + 1 \in Int /\ Len(s) \in Int
    BY <1>1
  <2> HIDE DEF b
  <2>3. /\ b \in Seq(S)
        /\ Len(b) = IF k + 1 <= Len(s) THEN Len(s) - (k + 1) + 1 ELSE 0
        /\ \A i \in 1 .. Len(s) - (k + 1) + 1 : b[i] = s[(k + 1) + i - 1]
    BY <2>1, <2>2, SubSeqProperties DEF b
  <2> QED
    BY <1>1, <2>3
<1>4. RemoveAt(s, k) = a \o b
  BY DEF RemoveAt
<1> HIDE DEF a, b
<1>5. /\ a \o b \in Seq(S) /\ Len(a \o b) = Len(a) + Len(b)
      /\ \A i \in 1 .. Len(a) + Len(b) :
           (a \o b)[i] = IF i <= Len(a) THEN a[i] ELSE b[i - Len(a)]
  BY <1>2, <1>3, ConcatProperties
<1>6. Len(a \o b) = Len(s) - 1
  BY <1>1, <1>2, <1>3, <1>5
<1>7. ASSUME NEW i \in 1 .. Len(s) - 1
      PROVE  (a \o b)[i] = IF i < k THEN s[i] ELSE s[i + 1]
  <2>1. CASE i < k
    BY <1>1, <1>2, <1>3, <1>5, <2>1
  <2>2. CASE ~ (i < k)
    <3>1. i - (k - 1) \in 1 .. Len(s) - k /\ k + (i - (k - 1)) = i + 1
      BY <1>1, <2>2
    <3>2. (a \o b)[i] = b[i - (k - 1)]
      BY <1>1, <1>2, <1>3, <1>5, <2>2
    <3> QED
      BY <1>3, <2>2, <3>1, <3>2
  <2> QED
    BY <2>1, <2>2
<1> QED
  BY <1>4, <1>5, <1>6, <1>7 DEF Dropped

(* A non-empty set of naturals has a least element.                        *)
LEMMA Least ==
  ASSUME NEW T \in SUBSET Nat, T # {}
  PROVE  \E x \in T : \A y \in T : x <= y
<1>1. PICK x \in T : \A y \in T : ~ (<<y, x>> \in OpToRel(<, Nat))
  BY NatLessThanWellFounded, WFMin
<1>2. \A y \in T : ~ (y < x)
  BY <1>1 DEF OpToRel
<1> QED
  BY <1>2

(* Without takes out the first occurrence, or nothing.                     *)
LEMMA WithoutDrops ==
  ASSUME NEW S, NEW s \in Seq(S), NEW d
  PROVE  /\ Without(s, d) \in Seq(S)
         /\ (\A i \in 1 .. Len(s) : s[i] # d) => Without(s, d) = s
         /\ (\E i \in 1 .. Len(s) : s[i] = d)
              => \E k \in 1 .. Len(s) : /\ s[k] = d
                                        /\ Dropped(Without(s, d), s, k)
<1>1. CASE \A i \in 1 .. Len(s) : s[i] # d
  BY <1>1 DEF Without, RemoveFirst
<1>2. CASE \E i \in 1 .. Len(s) : s[i] = d
  <2> DEFINE I == { i \in 1 .. Len(s) : s[i] = d }
             k == Min(I)
  <2>1. Len(s) \in Nat /\ I # {} /\ I \subseteq Nat
    BY <1>2, LenProperties
  <2>2. k \in I
    <3>1. \E x \in I : \A y \in I : x =< y
      BY <2>1, Least
    <3> QED
      BY <3>1 DEF Min
  <2>3. Without(s, d) = RemoveAt(s, k)
    BY <1>2, <2>1 DEF Without, RemoveFirst, SelectInSeq
  <2> QED
    BY <1>2, <2>2, <2>3, RemovingAt
<1> QED
  BY <1>1, <1>2

-----------------------------------------------------------------------------
(* Chains of nodes.                                                        *)

LEMMA NthTyped ==
  ASSUME NEW s \in Seq(Nodes), NEW i
  PROVE  Nth(s, i) \in Nodes \cup {NoNode}
BY LenProperties, ElementOfSeq DEF Nth

(* A path is a sequence of distinct nodes, looked up by its first.         *)
LEMMA PathsAre ==
  ASSUME NEW n \in Nodes \cup {NoNode}, NEW s \in Paths[n]
  PROVE  s \in Seq(Nodes) /\ Nth(s, 1) = n
<1>1. CASE n = NoNode
  BY <1>1 DEF Paths, Nth
<1>2. CASE n # NoNode
  <2>1. PICK t \in SetToAllKPermutations(Nodes \ {n}) : s = <<n>> \o t
    BY <1>2 DEF Paths
  <2>2. PICK T \in SUBSET (Nodes \ {n}) : t \in SetToSeqs(T)
    BY <2>1 DEF SetToAllKPermutations
  <2>3. t \in Seq(Nodes)
    <3>1. t \in [1 .. Cardinality(T) -> T]
      BY <2>2 DEF SetToSeqs
    <3>2. T \in SUBSET Nodes /\ T \subseteq Nodes
      OBVIOUS
    <3>3. Cardinality(T) \in Nat
      BY <3>2, FS_Subset, FS_CardinalityType, RegistryAssumption
    <3>4. t \in [1 .. Cardinality(T) -> Nodes]
      BY <3>1, <3>2
    <3> QED
      BY <3>3, <3>4, SeqDef
  <2>4. s \in Seq(Nodes) /\ Prepended(s, t, n)
    BY <1>2, <2>1, <2>3, Prepending
  <2> QED
    BY <2>3, <2>4, LenProperties DEF Prepended, Nth
<1> QED
  BY <1>1, <1>2

LEMMA PathsHold ==
  ASSUME NEW s \in Seq(Nodes), IsInjective(s)
  PROVE  s \in Paths[Nth(s, 1)]
<1>1. Len(s) \in Nat /\ DOMAIN s = 1 .. Len(s)
  BY LenProperties
<1>2. CASE s = <<>>
  <2>1. Nth(s, 1) = NoNode
    BY <1>2 DEF Nth
  <2> QED
    BY <1>2, <2>1 DEF Paths
<1>3. CASE s # <<>>
  <2> DEFINE n == s[1]
             t == Tail(s)
             T == { t[i] : i \in 1 .. Len(t) }
  <2>1. Len(s) >= 1 /\ n \in Nodes /\ n # NoNode /\ Nth(s, 1) = n
    BY <1>1, <1>3, EmptySeq, ElementOfSeq, RegistryAssumption DEF Nth
  <2>2. /\ t \in Seq(Nodes) /\ Len(t) = Len(s) - 1
        /\ \A i \in 1 .. Len(t) : t[i] = s[i + 1]
    BY <1>3, HeadTailProperties
  <2>3. s = <<n>> \o t
    BY <1>1, <1>3, <2>1, <2>2
  <2>4. T \in SUBSET (Nodes \ {n})
    <3> SUFFICES ASSUME NEW i \in 1 .. Len(t)
                 PROVE  t[i] \in Nodes /\ t[i] # s[1]
      OBVIOUS
    <3>1. 1 \in DOMAIN s /\ i + 1 \in DOMAIN s /\ i + 1 # 1
      BY <1>1, <2>1, <2>2
    <3> QED
      BY <2>2, <3>1, ElementOfSeq DEF IsInjective
  <2>5. t \in [1 .. Len(t) -> T] /\ Len(t) \in Nat
    BY <2>2, LenProperties
  <2>6. \A i, j \in 1 .. Len(t) : t[i] = t[j] => i = j
    <3> SUFFICES ASSUME NEW i \in 1 .. Len(t), NEW j \in 1 .. Len(t),
                        t[i] = t[j]
                 PROVE  i = j
      OBVIOUS
    <3>1. i + 1 \in DOMAIN s /\ j + 1 \in DOMAIN s /\ s[i + 1] = s[j + 1]
      BY <1>1, <2>2, <2>5
    <3> QED
      BY <3>1 DEF IsInjective
  <2>7. Cardinality(T) = Len(t)
    <3>1. t \in Bijection(1 .. Len(t), T)
      BY <2>5, <2>6 DEF Bijection, Injection, Surjection, IsInjective
    <3>2. IsFiniteSet(1 .. Len(t)) /\ Cardinality(1 .. Len(t)) = Len(t)
      <4> HIDE DEF t
      <4>1. 1 \in Int /\ Len(t) \in Int
        BY <2>5
      <4>2. /\ IsFiniteSet(1 .. Len(t))
            /\ Cardinality(1 .. Len(t))
                 = IF 1 > Len(t) THEN 0 ELSE Len(t) - 1 + 1
        BY <4>1, FS_Interval
      <4> QED
        BY <2>5, <4>2
    <3> QED
      BY <3>1, <3>2, FS_Bijection DEF ExistsBijection
  <2>8. t \in SetToSeqs(T)
    BY <2>5, <2>6, <2>7 DEF SetToSeqs
  <2>9. t \in SetToAllKPermutations(Nodes \ {n})
    BY <2>4, <2>8 DEF SetToAllKPermutations
  <2> QED
    BY <2>1, <2>3, <2>9 DEF Paths
<1> QED
  BY <1>2, <1>3

(* m_Next determines the nodes that follow.                                *)
LEMMA ChainIs ==
  ASSUME NEW nodes, NEW s \in Seq(Nodes), IsInjective(s), Linked(nodes, s)
  PROVE  Chain(nodes, Nth(s, 1)) = s
<1> DEFINE n == Nth(s, 1)
           t == Chain(nodes, n)
<1>1. n \in Nodes \cup {NoNode}
  BY NthTyped
<1>2. t \in Paths[n] /\ Linked(nodes, t)
  BY PathsHold DEF Chain
<1>3. t \in Seq(Nodes) /\ Nth(t, 1) = Nth(s, 1)
  BY <1>1, <1>2, PathsAre
<1> HIDE DEF n, t
<1>4. /\ Len(s) \in Nat /\ DOMAIN s = 1 .. Len(s)
      /\ Len(t) \in Nat /\ DOMAIN t = 1 .. Len(t)
      /\ \A i \in DOMAIN s : s[i] # NoNode
      /\ \A i \in DOMAIN t : t[i] # NoNode
  BY <1>3, LenProperties, ElementOfSeq, RegistryAssumption
<1>5. \A i \in Nat \ {0} : Nth(s, i) = Nth(t, i)
  <2> DEFINE D == { i \in Nat \ {0} : Nth(s, i) # Nth(t, i) }
  <2> SUFFICES ASSUME D # {} PROVE FALSE
    OBVIOUS
  <2>1. PICK i \in D : \A j \in D : i <= j
    BY Least
  <2>2. i # 1 /\ i - 1 \in Nat \ {0} /\ i - 1 \notin D
    BY <1>3, <2>1
  <2>3. Nth(s, i - 1) = Nth(t, i - 1)
    BY <2>2
  <2>4. CASE i - 1 \in DOMAIN s
    <3>1. i - 1 \in DOMAIN t /\ t[i - 1] = s[i - 1]
      BY <1>4, <2>3, <2>4 DEF Nth
    <3>2. /\ nodes[s[i - 1]].next = Nth(s, (i - 1) + 1)
          /\ nodes[t[i - 1]].next = Nth(t, (i - 1) + 1)
      BY <1>2, <2>4, <3>1 DEF Linked
    <3>3. (i - 1) + 1 = i
      OBVIOUS
    <3> QED
      BY <2>1, <3>1, <3>2, <3>3
  <2>5. CASE i - 1 \notin DOMAIN s
    <3>1. i - 1 \notin DOMAIN t
      BY <1>4, <2>3, <2>5 DEF Nth
    <3>2. i \notin DOMAIN s /\ i \notin DOMAIN t
      BY <1>4, <2>2, <2>5, <3>1
    <3> QED
      BY <2>1, <3>2 DEF Nth
  <2> QED
    BY <2>4, <2>5
<1>6. Len(s) = Len(t)
  <2>1. \A i \in Nat \ {0} : i \in DOMAIN s <=> i \in DOMAIN t
    BY <1>4, <1>5 DEF Nth
  <2>2. \A i \in Nat \ {0} : i <= Len(s) <=> i <= Len(t)
    BY <1>4, <2>1
  <2>3. Len(s) <= Len(t)
    BY <1>4, <2>2
  <2>4. Len(t) <= Len(s)
    BY <1>4, <2>2
  <2>5. Len(s) \in Nat /\ Len(t) \in Nat
    BY <1>4
  <2> QED
    BY <2>3, <2>4, <2>5
<1>7. \A i \in 1 .. Len(s) : s[i] = t[i]
  BY <1>4, <1>5, <1>6 DEF Nth
<1>8. s = t
  BY <1>3, <1>6, <1>7, SeqEqual
<1> QED
  BY <1>8 DEF t, n
-----------------------------------------------------------------------------
(* The lists behind the events.                                            *)

Families == [ModelDescriptors -> [Events -> Seq(Nodes)]]

\* L[m][e] is the list of event e of model m: m_Head and m_Next go along it,
\* no node is in two places, and the nodes of the lists are the allocated ones.
Leads(L) ==
  \A m \in ModelDescriptors, e \in Events :
    head[m][e] = Nth(L[m][e], 1) /\ Linked(node, L[m][e])
Apart(L) ==
  \A m1, m2 \in ModelDescriptors, e1, e2 \in Events :
    \A i1 \in 1 .. Len(L[m1][e1]), i2 \in 1 .. Len(L[m2][e2]) :
      L[m1][e1][i1] = L[m2][e2][i2] => m1 = m2 /\ e1 = e2 /\ i1 = i2
InSome(L, n) ==
  \E m \in ModelDescriptors, e \in Events :
    \E i \in 1 .. Len(L[m][e]) : n = L[m][e][i]
Owns(L) == \A n \in Nodes : n \in allocated <=> InSome(L, n)
Shape(L) == Leads(L) /\ Apart(L) /\ Owns(L)

\* K is L but for the lists of event e of model m.
SameBut(K, L, m, e) ==
  \A m2 \in ModelDescriptors, e2 \in Events :
    m2 # m \/ e2 # e => K[m2][e2] = L[m2][e2]

LEMMA FamilyTyped ==
  ASSUME NEW L \in Families, NEW m \in ModelDescriptors, NEW e \in Events
  PROVE  /\ L[m][e] \in Seq(Nodes) /\ Len(L[m][e]) \in Nat
         /\ DOMAIN L[m][e] = 1 .. Len(L[m][e])
         /\ \A i \in 1 .. Len(L[m][e]) : /\ L[m][e][i] \in Nodes
                                         /\ L[m][e][i] # NoNode
<1>1. L[m][e] \in Seq(Nodes)
  BY DEF Families
<1> QED
  BY <1>1, LenProperties, ElementOfSeq, RegistryAssumption

(* What a list is determines what a loop along it meets.                   *)
LEMMA ListIs ==
  ASSUME NEW L \in Families, Shape(L),
         NEW m \in ModelDescriptors, NEW e \in Events
  PROVE  /\ From(head[m][e]) = L[m][e]
         /\ \A n : n \in ListOf(m, e)
                     <=> \E i \in 1 .. Len(L[m][e]) : n = L[m][e][i]
<1>1. L[m][e] \in Seq(Nodes) /\ DOMAIN L[m][e] = 1 .. Len(L[m][e])
  BY FamilyTyped
<1>2. IsInjective(L[m][e])
  BY <1>1 DEF Shape, Apart, IsInjective
<1>3. Linked(node, L[m][e]) /\ head[m][e] = Nth(L[m][e], 1)
  BY DEF Shape, Leads
<1>4. From(head[m][e]) = L[m][e]
  BY <1>1, <1>2, <1>3, ChainIs DEF From
<1> QED
  BY <1>1, <1>4 DEF ListOf, ToSet

LEMMA NthPrepended ==
  ASSUME NEW s \in Seq(Nodes), NEW t \in Seq(Nodes), NEW x \in Nodes,
         Prepended(t, s, x)
  PROVE  Nth(t, 1) = x /\ \A i \in Nat \ {0} : Nth(t, i + 1) = Nth(s, i)
<1>1. /\ Len(s) \in Nat /\ DOMAIN s = 1 .. Len(s)
      /\ Len(t) \in Nat /\ DOMAIN t = 1 .. Len(t)
  BY LenProperties
<1> QED
  BY <1>1 DEF Nth, Prepended

LEMMA NthDropped ==
  ASSUME NEW s \in Seq(Nodes), NEW t \in Seq(Nodes), NEW k \in 1 .. Len(s),
         Dropped(t, s, k)
  PROVE  \A i \in Nat \ {0} :
           Nth(t, i) = IF i < k THEN Nth(s, i) ELSE Nth(s, i + 1)
<1>1. /\ Len(s) \in Nat /\ DOMAIN s = 1 .. Len(s)
      /\ Len(t) \in Nat /\ DOMAIN t = 1 .. Len(t)
  BY LenProperties
<1> QED
  BY <1>1 DEF Nth, Dropped

(* AddCallback puts its node in front of one list, and lets the others be. *)
LEMMA LinkShape ==
  ASSUME TypeOK, NEW L \in Families, Shape(L),
         NEW m \in ModelDescriptors, NEW e \in Events,
         NEW n \in Nodes \ allocated, NEW d,
         Link(m, e, n, d), allocated' = allocated \cup {n}
  PROVE  \E K \in Families :
           /\ Shape(K)' /\ SameBut(K, L, m, e)
           /\ Prepended(K[m][e], L[m][e], n)
<1> DEFINE K == [L EXCEPT ![m][e] = <<n>> \o @]
<1>1. <<n>> \o L[m][e] \in Seq(Nodes) /\ Prepended(<<n>> \o L[m][e], L[m][e], n)
  BY FamilyTyped, Prepending
<1>2. /\ K \in Families /\ SameBut(K, L, m, e)
      /\ Prepended(K[m][e], L[m][e], n)
  BY <1>1 DEF Families, SameBut
<1> HIDE DEF K
<1>3. \A m2 \in ModelDescriptors, e2 \in Events :
        /\ Len(L[m2][e2]) \in Nat /\ DOMAIN L[m2][e2] = 1 .. Len(L[m2][e2])
        /\ Len(K[m2][e2]) \in Nat /\ DOMAIN K[m2][e2] = 1 .. Len(K[m2][e2])
  BY <1>2, FamilyTyped
<1>4. \A m2 \in ModelDescriptors, e2 \in Events :
        \A i \in 1 .. Len(L[m2][e2]) :
          L[m2][e2][i] \in Nodes /\ L[m2][e2][i] # n
  BY FamilyTyped DEF Shape, Owns, InSome
<1>5. /\ node' = [node EXCEPT ![n] = [callback |-> d, next |-> head[m][e]]]
      /\ head' = [head EXCEPT ![m][e] = n]
  BY DEF Link
<1>6. /\ node'[n].next = head[m][e]
      /\ \A x \in Nodes : x # n => node'[x] = node[x]
  BY <1>5 DEF TypeOK
<1>7. Leads(K)'
  <2> SUFFICES ASSUME NEW m2 \in ModelDescriptors, NEW e2 \in Events
               PROVE  /\ head'[m2][e2] = Nth(K[m2][e2], 1)
                      /\ Linked(node', K[m2][e2])
    BY DEF Leads
  <2>1. CASE m2 # m \/ e2 # e
    <3>1. head'[m2][e2] = head[m2][e2] /\ K[m2][e2] = L[m2][e2]
      BY <1>2, <1>5, <2>1 DEF TypeOK, SameBut
    <3>2. Linked(node, L[m2][e2]) /\ head[m2][e2] = Nth(L[m2][e2], 1)
      BY DEF Shape, Leads
    <3> QED
      BY <1>3, <1>4, <1>6, <3>1, <3>2 DEF Linked
  <2>2. CASE m2 = m /\ e2 = e
    <3>1. head'[m][e] = n
      BY <1>5 DEF TypeOK
    <3>2. /\ Nth(K[m][e], 1) = n
          /\ \A i \in Nat \ {0} : Nth(K[m][e], i + 1) = Nth(L[m][e], i)
      BY <1>2, NthPrepended, FamilyTyped
    <3>3. Linked(node, L[m][e]) /\ head[m][e] = Nth(L[m][e], 1)
      BY DEF Shape, Leads
    <3>4. ASSUME NEW i \in 1 .. Len(K[m][e])
          PROVE  node'[K[m][e][i]].next = Nth(K[m][e], i + 1)
      <4>1. CASE i = 1
        <5>1. K[m][e][1] = n
          BY <1>2, <1>3, <4>1 DEF Prepended
        <5>2. 1 \in Nat \ {0} /\ Nth(K[m][e], 1 + 1) = Nth(L[m][e], 1)
          BY <3>2
        <5> QED
          BY <1>6, <3>3, <4>1, <5>1, <5>2
      <4>2. CASE i # 1
        <5>1. i - 1 \in 1 .. Len(L[m][e]) /\ K[m][e][i] = L[m][e][i - 1]
          BY <1>2, <1>3, <4>2 DEF Prepended
        <5>2. node'[K[m][e][i]].next = Nth(L[m][e], (i - 1) + 1)
          BY <1>3, <1>4, <1>6, <3>3, <5>1 DEF Linked
        <5>3. i \in Nat \ {0} /\ (i - 1) + 1 = i
          BY <1>3
        <5> QED
          BY <3>2, <5>2, <5>3
      <4> QED
        BY <4>1, <4>2
    <3>5. Linked(node', K[m][e])
      BY <1>3, <3>4 DEF Linked
    <3> QED
      BY <2>2, <3>1, <3>2, <3>5
  <2> QED
    BY <2>1, <2>2
<1>8. Apart(K)
  <2> SUFFICES ASSUME NEW m1 \in ModelDescriptors, NEW e1 \in Events,
                      NEW m2 \in ModelDescriptors, NEW e2 \in Events,
                      NEW i1 \in 1 .. Len(K[m1][e1]),
                      NEW i2 \in 1 .. Len(K[m2][e2]),
                      K[m1][e1][i1] = K[m2][e2][i2]
               PROVE  m1 = m2 /\ e1 = e2 /\ i1 = i2
    BY DEF Apart
  <2>1. ASSUME NEW i \in 1 .. Len(K[m][e])
        PROVE  \/ i = 1 /\ K[m][e][i] = n
               \/ /\ i # 1 /\ i - 1 \in 1 .. Len(L[m][e])
                  /\ K[m][e][i] = L[m][e][i - 1] /\ K[m][e][i] # n
    <3>1. CASE i = 1
      BY <1>2, <1>3, <3>1 DEF Prepended
    <3>2. CASE i # 1
      <4>1. i - 1 \in 1 .. Len(L[m][e]) /\ K[m][e][i] = L[m][e][i - 1]
        BY <1>2, <1>3, <3>2 DEF Prepended
      <4>2. L[m][e][i - 1] # n
        BY <1>4, <4>1
      <4> QED
        BY <3>2, <4>1, <4>2
    <3> QED
      BY <3>1, <3>2
  <2>2. ASSUME NEW m3 \in ModelDescriptors, NEW e3 \in Events,
               m3 # m \/ e3 # e
        PROVE  K[m3][e3] = L[m3][e3]
    BY <1>2, <2>2 DEF SameBut
  <2>3. Apart(L)
    BY DEF Shape
  <2>4. CASE (m1 # m \/ e1 # e) /\ (m2 # m \/ e2 # e)
    BY <2>2, <2>3, <2>4, SMTT(30) DEF Apart
  <2>5. CASE m1 = m /\ e1 = e /\ m2 = m /\ e2 = e
    <3>1. /\ i1 \in 1 .. Len(K[m][e]) /\ i2 \in 1 .. Len(K[m][e])
          /\ K[m][e][i1] = K[m][e][i2]
      BY <2>5
    <3>2. i1 = 1 <=> K[m][e][i1] = n
      BY <1>4, <2>1, <3>1
    <3>3. i2 = 1 <=> K[m][e][i2] = n
      BY <1>4, <2>1, <3>1
    <3>4. CASE i1 # 1 /\ i2 # 1
      <4>1. /\ i1 - 1 \in 1 .. Len(L[m][e]) /\ i2 - 1 \in 1 .. Len(L[m][e])
            /\ L[m][e][i1 - 1] = L[m][e][i2 - 1]
        BY <2>1, <3>1, <3>4
      <4>2. i1 - 1 = i2 - 1
        BY <2>3, <4>1 DEF Apart
      <4> QED
        BY <1>3, <2>5, <4>2
    <3> QED
      BY <2>5, <3>1, <3>2, <3>3, <3>4
  <2>6. CASE m1 = m /\ e1 = e /\ (m2 # m \/ e2 # e)
    <3>1. K[m2][e2] = L[m2][e2]
      BY <2>2, <2>6
    <3>2. /\ i1 \in 1 .. Len(K[m][e]) /\ i2 \in 1 .. Len(L[m2][e2])
          /\ K[m][e][i1] = L[m2][e2][i2]
      BY <2>6, <3>1
    <3>3. L[m2][e2][i2] # n
      BY <1>4, <3>2
    <3>4. /\ i1 - 1 \in 1 .. Len(L[m][e])
          /\ L[m][e][i1 - 1] = L[m2][e2][i2]
      BY <2>1, <3>2, <3>3
    <3> QED
      BY <2>3, <2>6, <3>2, <3>4 DEF Apart
  <2>7. CASE (m1 # m \/ e1 # e) /\ m2 = m /\ e2 = e
    <3>1. K[m1][e1] = L[m1][e1]
      BY <2>2, <2>7
    <3>2. /\ i2 \in 1 .. Len(K[m][e]) /\ i1 \in 1 .. Len(L[m1][e1])
          /\ K[m][e][i2] = L[m1][e1][i1]
      BY <2>7, <3>1
    <3>3. L[m1][e1][i1] # n
      BY <1>4, <3>2
    <3>4. /\ i2 - 1 \in 1 .. Len(L[m][e])
          /\ L[m][e][i2 - 1] = L[m1][e1][i1]
      BY <2>1, <3>2, <3>3
    <3>5. m = m1 /\ e = e1
      BY <2>3, <3>2, <3>4, SMTT(30) DEF Apart
    <3> QED
      BY <2>7, <3>5
  <2> QED
    BY <2>4, <2>5, <2>6, <2>7
<1>9. Owns(K)'
  <2> SUFFICES ASSUME NEW x \in Nodes
               PROVE  x \in allocated' <=> InSome(K, x)
    BY DEF Owns, InSome
  <2>1. x \in allocated <=> InSome(L, x)
    BY DEF Shape, Owns
  <2>2. InSome(L, x) => InSome(K, x)
    <3> SUFFICES ASSUME NEW m2 \in ModelDescriptors, NEW e2 \in Events,
                        NEW i \in 1 .. Len(L[m2][e2]), x = L[m2][e2][i]
                 PROVE  \E j \in 1 .. Len(K[m2][e2]) : x = K[m2][e2][j]
      BY DEF InSome
    <3>1. CASE m2 = m /\ e2 = e
      <4>1. i + 1 \in 1 .. Len(K[m][e]) /\ K[m][e][i + 1] = x
        BY <1>2, <1>3, <3>1 DEF Prepended
      <4> QED
        BY <3>1, <4>1
    <3>2. CASE m2 # m \/ e2 # e
      BY <1>2, <3>2 DEF SameBut
    <3> QED
      BY <3>1, <3>2
  <2>3. InSome(K, n)
    <3>1. 1 \in 1 .. Len(K[m][e]) /\ K[m][e][1] = n
      BY <1>2, <1>3 DEF Prepended
    <3> QED
      BY <3>1 DEF InSome
  <2>4. InSome(K, x) => x = n \/ InSome(L, x)
    <3> SUFFICES ASSUME NEW m2 \in ModelDescriptors, NEW e2 \in Events,
                        NEW i \in 1 .. Len(K[m2][e2]), x = K[m2][e2][i],
                        x # n
                 PROVE  \E j \in 1 .. Len(L[m2][e2]) : x = L[m2][e2][j]
      BY DEF InSome
    <3>1. CASE m2 = m /\ e2 = e
      <4>1. i - 1 \in 1 .. Len(L[m][e]) /\ L[m][e][i - 1] = x
        BY <1>2, <1>3, <3>1 DEF Prepended
      <4> QED
        BY <3>1, <4>1
    <3>2. CASE m2 # m \/ e2 # e
      BY <1>2, <3>2 DEF SameBut
    <3> QED
      BY <3>1, <3>2
  <2> QED
    BY <2>1, <2>2, <2>3, <2>4
<1>10. Shape(K)'
  BY <1>7, <1>8, <1>9 DEF Shape, Apart
<1> QED
  BY <1>2, <1>10
\* What TypeOK says of head and node.
TypedLists ==
  /\ head \in [ModelDescriptors -> [Events -> Nodes \cup {NoNode}]]
  /\ node \in [Nodes -> [callback : CallbackDescriptors \cup {NoNode},
                         next : Nodes \cup {NoNode}]]

(* Two places of the lists that hold the same node are the same place.     *)
LEMMA SamePlace ==
  ASSUME NEW L \in Families, Shape(L),
         NEW m1 \in ModelDescriptors, NEW e1 \in Events,
         NEW m2 \in ModelDescriptors, NEW e2 \in Events,
         NEW i1 \in 1 .. Len(L[m1][e1]), NEW i2 \in 1 .. Len(L[m2][e2]),
         L[m1][e1][i1] = L[m2][e2][i2]
  PROVE  m1 = m2 /\ e1 = e2 /\ i1 = i2
BY DEF Shape, Apart

(* RemoveCallback takes one node out of one list, wherever it is, and lets *)
(* the other lists and the callbacks of the other nodes be.                *)
LEMMA UnlinkShape ==
  ASSUME TypeOK, NEW L \in Families, Shape(L),
         NEW m \in ModelDescriptors, NEW e \in Events,
         NEW k \in 1 .. Len(L[m][e]), NEW n, n = L[m][e][k],
         Unlink(m, e, n), allocated' = allocated \ {n}
  PROVE  /\ \E K \in Families :
              /\ Shape(K)' /\ SameBut(K, L, m, e)
              /\ Dropped(K[m][e], L[m][e], k)
         /\ \A x \in Nodes \ {n} : node'[x].callback = node[x].callback
         /\ TypedLists'
<1> DEFINE K == [L EXCEPT ![m][e] = RemoveAt(@, k)]
<1>1. /\ RemoveAt(L[m][e], k) \in Seq(Nodes)
      /\ Dropped(RemoveAt(L[m][e], k), L[m][e], k)
  BY FamilyTyped, RemovingAt
<1>2. /\ K \in Families /\ SameBut(K, L, m, e)
      /\ Dropped(K[m][e], L[m][e], k)
  BY <1>1 DEF Families, SameBut
<1> HIDE DEF K
<1>3. \A m2 \in ModelDescriptors, e2 \in Events :
        /\ Len(L[m2][e2]) \in Nat /\ DOMAIN L[m2][e2] = 1 .. Len(L[m2][e2])
        /\ Len(K[m2][e2]) \in Nat /\ DOMAIN K[m2][e2] = 1 .. Len(K[m2][e2])
  BY <1>2, FamilyTyped
<1>4. \A m2 \in ModelDescriptors, e2 \in Events :
        \A i \in 1 .. Len(L[m2][e2]) :
          /\ L[m2][e2][i] \in Nodes /\ L[m2][e2][i] # NoNode
          /\ node[L[m2][e2][i]].next = Nth(L[m2][e2], i + 1)
  BY <1>3, FamilyTyped DEF Shape, Leads, Linked
<1>5. n \in Nodes /\ n # NoNode /\ node[n].next = Nth(L[m][e], k + 1)
  BY <1>4
<1>6. head[m][e] = Nth(L[m][e], 1) /\ Nth(L[m][e], 1) = L[m][e][1]
  <2>1. 1 \in DOMAIN L[m][e]
    BY <1>3
  <2> QED
    BY <2>1 DEF Shape, Leads, Nth
<1>7. /\ head'[m][e] = IF k = 1 THEN Nth(L[m][e], 2) ELSE Nth(L[m][e], 1)
      /\ \A m2 \in ModelDescriptors, e2 \in Events :
           m2 # m \/ e2 # e => head'[m2][e2] = head[m2][e2]
      /\ \A x \in Nodes \ {n} :
           /\ node'[x].callback = node[x].callback
           /\ node'[x].next = IF k # 1 /\ x = L[m][e][k - 1]
                              THEN Nth(L[m][e], k + 1) ELSE node[x].next
      /\ TypedLists'
  <2>0. node[n].next \in Nodes \cup {NoNode}
    BY <1>5 DEF TypeOK
  <2>1. CASE k = 1
    <3>1. head[m][e] = n
      BY <1>6, <2>1
    <3>2. /\ head' = [head EXCEPT ![m][e] = node[n].next]
          /\ node' = [node EXCEPT ![n] = EmptyNode]
      BY <3>1 DEF Unlink, UnlinkFirst
    <3>3. k + 1 = 2
      BY <2>1
    <3>4. TypedLists'
      BY <2>0, <3>2 DEF TypeOK, TypedLists, EmptyNode
    <3> QED
      BY <1>5, <2>1, <3>2, <3>3, <3>4 DEF TypeOK
  <2>2. CASE k # 1
    <3>1. /\ 1 \in 1 .. Len(L[m][e]) /\ k - 1 \in 1 .. Len(L[m][e])
          /\ (k - 1) + 1 = k /\ Nth(L[m][e], k) = n
      BY <1>3, <2>2 DEF Nth
    <3>2. head[m][e] # n
      BY <1>6, <2>2, <3>1, SamePlace
    <3> DEFINE prev == CHOOSE x \in ListOf(m, e) : node[x].next = n
    <3>3. /\ L[m][e][k - 1] \in ListOf(m, e)
          /\ node[L[m][e][k - 1]].next = n
      BY <1>4, <3>1, ListIs
    <3>4. \A x \in ListOf(m, e) : node[x].next = n => x = L[m][e][k - 1]
      <4> SUFFICES ASSUME NEW x \in ListOf(m, e), node[x].next = n
                   PROVE  x = L[m][e][k - 1]
        OBVIOUS
      <4>1. PICK i \in 1 .. Len(L[m][e]) : x = L[m][e][i]
        BY ListIs
      <4>2. Nth(L[m][e], i + 1) = L[m][e][k]
        BY <1>4, <4>1
      <4>3. i + 1 \in 1 .. Len(L[m][e]) /\ L[m][e][i + 1] = L[m][e][k]
        BY <1>3, <1>5, <4>2 DEF Nth
      <4>4. i + 1 = k
        BY <4>3, SamePlace
      <4> QED
        BY <4>1, <4>4
    <3>5. prev = L[m][e][k - 1]
      BY <3>3, <3>4
    <3>6. /\ node' = [node EXCEPT ![prev].next = node[n].next,
                                  ![n] = EmptyNode]
          /\ head' = head
      BY <3>2 DEF Unlink
    <3> HIDE DEF prev
    <3>7. prev \in Nodes /\ prev # n
      BY <1>3, <1>4, <2>2, <3>1, <3>5, SamePlace
    <3>8. \A x \in Nodes \ {n} :
            /\ node'[x].callback = node[x].callback
            /\ node'[x].next = IF x = prev THEN node[n].next ELSE node[x].next
      BY <3>6, <3>7 DEF TypeOK
    <3>9. TypedLists'
      BY <2>0, <3>6, <3>7, ZenonT(40) DEF TypeOK, TypedLists, EmptyNode
    <3> QED
      BY <1>5, <1>6, <2>2, <3>5, <3>6, <3>8, <3>9
  <2> QED
    BY <2>1, <2>2
<1>8. Leads(K)'
  <2> SUFFICES ASSUME NEW m2 \in ModelDescriptors, NEW e2 \in Events
               PROVE  /\ head'[m2][e2] = Nth(K[m2][e2], 1)
                      /\ Linked(node', K[m2][e2])
    BY DEF Leads
  <2>1. CASE m2 # m \/ e2 # e
    <3>1. head'[m2][e2] = head[m2][e2] /\ K[m2][e2] = L[m2][e2]
      BY <1>2, <1>7, <2>1 DEF SameBut
    <3>2. Linked(node, L[m2][e2]) /\ head[m2][e2] = Nth(L[m2][e2], 1)
      BY DEF Shape, Leads
    <3>3. ASSUME NEW i \in 1 .. Len(L[m2][e2])
          PROVE  /\ L[m2][e2][i] \in Nodes \ {n}
                 /\ k # 1 => L[m2][e2][i] # L[m][e][k - 1]
      <4>1. L[m2][e2][i] # n
        BY <2>1, SamePlace
      <4>2. k # 1 => k - 1 \in 1 .. Len(L[m][e])
        BY <1>3
      <4>3. k # 1 => L[m2][e2][i] # L[m][e][k - 1]
        BY <2>1, <4>2, SamePlace
      <4> QED
        BY <1>4, <4>1, <4>3
    <3>4. \A i \in 1 .. Len(L[m2][e2]) :
            node'[L[m2][e2][i]].next = Nth(L[m2][e2], i + 1)
      BY <1>4, <1>7, <3>3, SMTT(30)
    <3> QED
      BY <1>3, <3>1, <3>2, <3>4 DEF Linked
  <2>2. CASE m2 = m /\ e2 = e
    <3>1. \A i \in Nat \ {0} :
            Nth(K[m][e], i) = IF i < k THEN Nth(L[m][e], i)
                              ELSE Nth(L[m][e], i + 1)
      BY <1>2, NthDropped, FamilyTyped
    <3>2. head'[m][e] = Nth(K[m][e], 1)
      <4>1. Nth(K[m][e], 1) = IF 1 < k THEN Nth(L[m][e], 1)
                              ELSE Nth(L[m][e], 1 + 1)
        BY <3>1
      <4>2. k # 1 <=> 1 < k
        BY <1>3
      <4> QED
        BY <1>7, <4>1, <4>2
    <3>3. ASSUME NEW i \in 1 .. Len(K[m][e])
          PROVE  node'[K[m][e][i]].next = Nth(K[m][e], i + 1)
      <4> DEFINE j == IF i < k THEN i ELSE i + 1
      <4>1. /\ j \in 1 .. Len(L[m][e]) /\ j # k /\ K[m][e][i] = L[m][e][j]
            /\ k # 1 => (j = k - 1 <=> i = k - 1)
        BY <1>2, <1>3 DEF Dropped
      <4>2. k # 1 => k - 1 \in 1 .. Len(L[m][e])
        BY <1>3
      <4>3. /\ L[m][e][j] # n
            /\ k # 1 => (L[m][e][j] = L[m][e][k - 1] <=> j = k - 1)
        <5>1. L[m][e][j] = L[m][e][k] => j = k
          BY <4>1, SamePlace
        <5>2. k # 1 /\ L[m][e][j] = L[m][e][k - 1] => j = k - 1
          BY <4>1, <4>2, SamePlace
        <5> HIDE DEF j
        <5> QED
          BY <4>1, <5>1, <5>2
      <4>4. node'[K[m][e][i]].next
              = IF k # 1 /\ i = k - 1 THEN Nth(L[m][e], k + 1)
                ELSE Nth(L[m][e], j + 1)
        BY <1>4, <1>7, <4>1, <4>3, SMTT(30)
      <4>5. Nth(K[m][e], i + 1) = IF i + 1 < k THEN Nth(L[m][e], i + 1)
                                  ELSE Nth(L[m][e], (i + 1) + 1)
        BY <1>3, <3>1, SMTT(30)
      <4>6. CASE i + 1 < k
        BY <1>3, <4>4, <4>5, <4>6
      <4>7. CASE i + 1 = k
        <5>1. k # 1 /\ i = k - 1 /\ (i + 1) + 1 = k + 1
          BY <1>3, <4>7
        <5> QED
          BY <1>3, <4>4, <4>5, <4>7, <5>1
      <4>8. CASE i >= k
        <5>1. i # k - 1 /\ j + 1 = (i + 1) + 1 /\ ~ (i + 1 < k)
          BY <1>3, <4>8
        <5> QED
          BY <4>4, <4>5, <5>1
      <4> QED
        BY <1>3, <4>6, <4>7, <4>8
    <3>4. Linked(node', K[m][e])
      BY <1>3, <3>3 DEF Linked
    <3> QED
      BY <2>2, <3>2, <3>4
  <2> QED
    BY <2>1, <2>2
<1>9. \A m2 \in ModelDescriptors, e2 \in Events :
        \A i \in 1 .. Len(K[m2][e2]) : \E j \in 1 .. Len(L[m2][e2]) :
          /\ K[m2][e2][i] = L[m2][e2][j]
          /\ IF m2 = m /\ e2 = e THEN j = IF i < k THEN i ELSE i + 1
             ELSE j = i
  <2> SUFFICES ASSUME NEW m2 \in ModelDescriptors, NEW e2 \in Events,
                      NEW i \in 1 .. Len(K[m2][e2])
               PROVE  \E j \in 1 .. Len(L[m2][e2]) :
                        /\ K[m2][e2][i] = L[m2][e2][j]
                        /\ IF m2 = m /\ e2 = e
                           THEN j = IF i < k THEN i ELSE i + 1 ELSE j = i
    OBVIOUS
  <2>1. CASE m2 = m /\ e2 = e
    <3> DEFINE j == IF i < k THEN i ELSE i + 1
    <3>1. j \in 1 .. Len(L[m][e]) /\ K[m][e][i] = L[m][e][j]
      BY <1>2, <1>3, <2>1 DEF Dropped
    <3> QED
      BY <2>1, <3>1
  <2>2. CASE m2 # m \/ e2 # e
    BY <1>2, <2>2 DEF SameBut
  <2> QED
    BY <2>1, <2>2
<1>10. Apart(K)
  <2> SUFFICES ASSUME NEW m1 \in ModelDescriptors, NEW e1 \in Events,
                      NEW m2 \in ModelDescriptors, NEW e2 \in Events,
                      NEW i1 \in 1 .. Len(K[m1][e1]),
                      NEW i2 \in 1 .. Len(K[m2][e2]),
                      K[m1][e1][i1] = K[m2][e2][i2]
               PROVE  m1 = m2 /\ e1 = e2 /\ i1 = i2
    BY DEF Apart
  <2>1. PICK j1 \in 1 .. Len(L[m1][e1]) :
          /\ K[m1][e1][i1] = L[m1][e1][j1]
          /\ IF m1 = m /\ e1 = e THEN j1 = IF i1 < k THEN i1 ELSE i1 + 1
             ELSE j1 = i1
    BY <1>9
  <2>2. PICK j2 \in 1 .. Len(L[m2][e2]) :
          /\ K[m2][e2][i2] = L[m2][e2][j2]
          /\ IF m2 = m /\ e2 = e THEN j2 = IF i2 < k THEN i2 ELSE i2 + 1
             ELSE j2 = i2
    BY <1>9
  <2>3. m1 = m2 /\ e1 = e2 /\ j1 = j2
    <3>1. L[m1][e1][j1] = L[m2][e2][j2]
      BY <2>1, <2>2
    <3> QED
      BY <3>1, SamePlace
  <2> QED
    BY <1>3, <2>1, <2>2, <2>3
<1>11. Owns(K)'
  <2> SUFFICES ASSUME NEW x \in Nodes
               PROVE  x \in allocated' <=> InSome(K, x)
    BY DEF Owns, InSome
  <2>1. x \in allocated <=> InSome(L, x)
    BY DEF Shape, Owns
  <2>2. InSome(L, x) /\ x # n => InSome(K, x)
    <3> SUFFICES ASSUME NEW m2 \in ModelDescriptors, NEW e2 \in Events,
                        NEW i \in 1 .. Len(L[m2][e2]), x = L[m2][e2][i],
                        x # n
                 PROVE  \E j \in 1 .. Len(K[m2][e2]) : x = K[m2][e2][j]
      BY DEF InSome
    <3>1. CASE m2 = m /\ e2 = e
      <4> DEFINE j == IF i < k THEN i ELSE i - 1
      <4>1. i # k
        BY <3>1
      <4>2. j \in 1 .. Len(K[m][e]) /\ K[m][e][j] = x
        BY <1>2, <1>3, <3>1, <4>1 DEF Dropped
      <4> QED
        BY <3>1, <4>2
    <3>2. CASE m2 # m \/ e2 # e
      BY <1>2, <3>2 DEF SameBut
    <3> QED
      BY <3>1, <3>2
  <2>3. InSome(K, x) => x # n /\ InSome(L, x)
    <3> SUFFICES ASSUME NEW m2 \in ModelDescriptors, NEW e2 \in Events,
                        NEW i \in 1 .. Len(K[m2][e2]), x = K[m2][e2][i]
                 PROVE  x # n /\ \E j \in 1 .. Len(L[m2][e2]) : x = L[m2][e2][j]
      BY DEF InSome
    <3>1. PICK j \in 1 .. Len(L[m2][e2]) :
          /\ K[m2][e2][i] = L[m2][e2][j]
          /\ IF m2 = m /\ e2 = e THEN j = IF i < k THEN i ELSE i + 1
             ELSE j = i
      BY <1>9
    <3>2. ASSUME x = n PROVE FALSE
      <4>1. m2 = m /\ e2 = e /\ j = k
        BY <3>1, <3>2, SamePlace
      <4> QED
        BY <1>3, <3>1, <4>1
    <3> QED
      BY <3>1, <3>2
  <2> QED
    BY <2>1, <2>2, <2>3
<1>12. Shape(K)'
  BY <1>8, <1>10, <1>11 DEF Shape, Apart
<1> QED
  BY <1>2, <1>7, <1>12

(* ~Delegate frees the lists of one model, and lets the others be.         *)
LEMMA DestroyShape ==
  ASSUME TypeOK, NEW L \in Families, Shape(L),
         NEW m \in ModelDescriptors, ModelDestroyed(m)
  PROVE  /\ \E K \in Families :
              /\ Shape(K)'
              /\ \A e \in Events : K[m][e] = <<>>
              /\ \A m2 \in ModelDescriptors, e \in Events :
                   m2 # m => K[m2][e] = L[m2][e]
         /\ \A m2 \in ModelDescriptors, e \in Events :
              m2 # m => \A i \in 1 .. Len(L[m2][e]) :
                          node'[L[m2][e][i]] = node[L[m2][e][i]]
<1> DEFINE K == [L EXCEPT ![m] = [e \in Events |-> <<>>]]
<1>1. /\ K \in Families
      /\ \A e \in Events : K[m][e] = <<>>
      /\ \A m2 \in ModelDescriptors, e \in Events :
           m2 # m => K[m2][e] = L[m2][e]
  BY EmptySeq DEF Families
<1> HIDE DEF K
<1>2. \A m2 \in ModelDescriptors, e2 \in Events :
        /\ Len(L[m2][e2]) \in Nat /\ DOMAIN L[m2][e2] = 1 .. Len(L[m2][e2])
        /\ Len(K[m2][e2]) \in Nat /\ DOMAIN K[m2][e2] = 1 .. Len(K[m2][e2])
        /\ \A i \in 1 .. Len(L[m2][e2]) : L[m2][e2][i] \in Nodes
  BY <1>1, FamilyTyped
<1>3. \A e \in Events : DOMAIN K[m][e] = {} /\ Len(K[m][e]) = 0
  BY <1>1
<1>4. \A n : n \in Freed(m) <=> \E e \in Events :
                 \E i \in 1 .. Len(L[m][e]) : n = L[m][e][i]
  <2>1. \A e \in Events : \A n :
          n \in ListOf(m, e) <=> \E i \in 1 .. Len(L[m][e]) : n = L[m][e][i]
    BY ListIs
  <2> QED
    BY <2>1 DEF Freed, NodesOf
<1>5. ASSUME NEW m2 \in ModelDescriptors, NEW e2 \in Events, m2 # m,
             NEW i \in 1 .. Len(L[m2][e2])
      PROVE  L[m2][e2][i] \notin Freed(m)
  BY <1>4, <1>5, SamePlace
<1>6. \A m2 \in ModelDescriptors, e2 \in Events :
        m2 # m => \A i \in 1 .. Len(L[m2][e2]) :
                    node'[L[m2][e2][i]] = node[L[m2][e2][i]]
  <2>1. node' = [n \in Nodes |-> IF n \in Freed(m) THEN EmptyNode ELSE node[n]]
    BY DEF ModelDestroyed
  <2> QED
    BY <1>2, <1>5, <2>1
<1>7. Leads(K)'
  <2> SUFFICES ASSUME NEW m2 \in ModelDescriptors, NEW e2 \in Events
               PROVE  /\ head'[m2][e2] = Nth(K[m2][e2], 1)
                      /\ Linked(node', K[m2][e2])
    BY DEF Leads
  <2>1. head' = [head EXCEPT ![m] = [e \in Events |-> NoNode]]
    BY DEF ModelDestroyed
  <2>2. CASE m2 = m
    <3>1. head'[m2][e2] = NoNode
      BY <2>1, <2>2 DEF TypeOK
    <3> QED
      BY <1>3, <2>2, <3>1 DEF Nth, Linked
  <2>3. CASE m2 # m
    <3>1. head'[m2][e2] = head[m2][e2] /\ K[m2][e2] = L[m2][e2]
      BY <1>1, <2>1, <2>3 DEF TypeOK
    <3>2. Linked(node, L[m2][e2]) /\ head[m2][e2] = Nth(L[m2][e2], 1)
      BY DEF Shape, Leads
    <3>3. Linked(node', L[m2][e2])
      BY <1>2, <1>6, <2>3, <3>2 DEF Linked
    <3> QED
      BY <3>1, <3>2, <3>3
  <2> QED
    BY <2>2, <2>3
<1>8. Apart(K)
  <2> SUFFICES ASSUME NEW m1 \in ModelDescriptors, NEW e1 \in Events,
                      NEW m2 \in ModelDescriptors, NEW e2 \in Events,
                      NEW i1 \in 1 .. Len(K[m1][e1]),
                      NEW i2 \in 1 .. Len(K[m2][e2]),
                      K[m1][e1][i1] = K[m2][e2][i2]
               PROVE  m1 = m2 /\ e1 = e2 /\ i1 = i2
    BY DEF Apart
  <2>1. m1 # m /\ m2 # m
    BY <1>3
  <2>2. K[m1][e1] = L[m1][e1] /\ K[m2][e2] = L[m2][e2]
    BY <1>1, <2>1
  <2> QED
    BY <2>2, SamePlace
<1>9. Owns(K)'
  <2> SUFFICES ASSUME NEW x \in Nodes
               PROVE  x \in allocated' <=> InSome(K, x)
    BY DEF Owns, InSome
  <2>1. x \in allocated <=> InSome(L, x)
    BY DEF Shape, Owns
  <2>2. x \in allocated' <=> x \in allocated /\ x \notin Freed(m)
    BY DEF ModelDestroyed
  <2>3. InSome(L, x) /\ x \notin Freed(m) => InSome(K, x)
    BY <1>1, <1>4 DEF InSome
  <2>4. InSome(K, x) => InSome(L, x) /\ x \notin Freed(m)
    <3> SUFFICES ASSUME NEW m2 \in ModelDescriptors, NEW e2 \in Events,
                        NEW i \in 1 .. Len(K[m2][e2]), x = K[m2][e2][i]
                 PROVE  InSome(L, x) /\ x \notin Freed(m)
      BY DEF InSome
    <3>1. m2 # m
      BY <1>3
    <3>2. K[m2][e2] = L[m2][e2]
      BY <1>1, <3>1
    <3> QED
      BY <1>5, <3>1, <3>2 DEF InSome
  <2> QED
    BY <2>1, <2>2, <2>3, <2>4
<1>10. Shape(K)'
  BY <1>7, <1>8, <1>9 DEF Shape, Apart
<1> QED
  BY <1>1, <1>6, <1>10

-----------------------------------------------------------------------------
(* Whatever clients do: types, lists and Winsock.                          *)

\* Models that are not there have nothing.
Gone ==
  \A m \in ModelDescriptors \ models :
    /\ invoke[m] = Idle
    /\ \A e \in Events : head[m][e] = NoNode /\ registered[m][e] = <<>>

\* What the locals of Invoke are.
Running ==
  \A m \in ModelDescriptors :
    /\ invoke[m].event = NoEvent => invoke[m] = Idle
    /\ invoke[m].calling => invoke[m].at # NoNode

Counted == instanceCount = Cardinality(models) /\ WinsockHeld

Plain == TypeOK /\ Gone /\ Running /\ Counted

RInv == Plain /\ \E L \in Families : Shape(L)

LEMMA InitRInv == Init => RInv
<1> SUFFICES ASSUME Init PROVE RInv
  OBVIOUS
<1>1. IsFiniteSet(ModelDescriptors) /\ Cardinality(ModelDescriptors) \in Nat
  BY FS_CardinalityType, RegistryAssumption
<1>2. Cardinality({}) = 0
  BY FS_EmptySet
<1>3. <<>> \in Seq(CallbackDescriptors) /\ <<>> \in Seq(Nodes)
  BY EmptySeq
<1>4. TypeOK
  <2>1. /\ head \in [ModelDescriptors -> [Events -> Nodes \cup {NoNode}]]
        /\ node \in [Nodes -> [callback : CallbackDescriptors \cup {NoNode},
                               next : Nodes \cup {NoNode}]]
        /\ callbackMap \in [CallbackDescriptors -> Nodes \cup {NoNode}]
    BY DEF Init, EmptyNode
  <2>2. /\ invoke \in [ModelDescriptors ->
                          [event : Events \cup {NoEvent},
                           at : Nodes \cup {NoNode}, calling : BOOLEAN]]
        /\ due \in [ModelDescriptors -> Seq(CallbackDescriptors)]
        /\ registered
             \in [ModelDescriptors -> [Events -> Seq(CallbackDescriptors)]]
    BY <1>3 DEF Init, Idle
  <2>3. instanceCount \in 0 .. Cardinality(ModelDescriptors)
    BY <1>1 DEF Init
  <2> QED
    BY <2>1, <2>2, <2>3 DEF Init, TypeOK
<1>5. Gone /\ Running
  BY RegistryAssumption DEF Init, Gone, Running, Idle
<1>6. Counted
  BY <1>2 DEF Init, Counted, WinsockHeld
<1> DEFINE L == [m \in ModelDescriptors |-> [e \in Events |-> <<>>]]
<1>7. L \in Families
  BY <1>3 DEF Families
<1>8. \A m \in ModelDescriptors, e \in Events :
        DOMAIN L[m][e] = {} /\ Len(L[m][e]) = 0
  OBVIOUS
<1>9. Shape(L)
  <2> HIDE DEF L
  <2>1. Leads(L)
    BY <1>8 DEF Init, Leads, Linked, Nth
  <2>2. Apart(L)
    BY <1>8 DEF Apart
  <2>3. Owns(L)
    BY <1>8 DEF Init, Owns, InSome
  <2> QED
    BY <2>1, <2>2, <2>3 DEF Shape
<1> QED
  BY <1>4, <1>5, <1>6, <1>7, <1>9 DEF RInv, Plain

(* Models that are there are counted.                                      *)
LEMMA CountTyped ==
  ASSUME NEW M \in SUBSET ModelDescriptors
  PROVE  /\ IsFiniteSet(M)
         /\ Cardinality(M) \in 0 .. Cardinality(ModelDescriptors)
         /\ Cardinality(M) = 0 <=> M = {}
BY FS_Subset, FS_CardinalityType, FS_EmptySet, RegistryAssumption

LEMMA FindsModels ==
  ASSUME TypeOK, NEW m \in ModelDescriptors, NEW found \in Finds(m), found
  PROVE  m \in models
BY DEF TypeOK, Finds

-----------------------------------------------------------------------------
(* The steps, by what they leave alone.                                    *)

LEMMA SameShape ==
  ASSUME NEW L \in Families, Shape(L), UNCHANGED lists
  PROVE  Shape(L)'
<1>1. node' = node /\ head' = head /\ allocated' = allocated
  BY DEF lists
<1>2. Leads(L)'
  BY <1>1 DEF Shape, Leads, Linked
<1>3. Owns(L)'
  BY <1>1 DEF Shape, Owns, InSome
<1> QED
  BY <1>2, <1>3 DEF Shape, Apart

LEMMA Stutters ==
  ASSUME RInv, UNCHANGED vars PROVE RInv'
<1>1. PICK L \in Families : Shape(L)
  BY DEF RInv
<1>2. Shape(L)'
  BY <1>1, SameShape DEF vars
<1>3. Plain'
  BY DEF RInv, Plain, TypeOK, Gone, Running, Counted, WinsockHeld, vars, lists, wsa
<1> QED
  BY <1>2, <1>3 DEF RInv

LEMMA CreateModelRInv ==
  ASSUME RInv, NEW m \in ModelDescriptors, CreateModel(m) PROVE RInv'
<1>1. PICK L \in Families : Shape(L)
  BY DEF RInv
<1>2. Shape(L)'
  BY <1>1, SameShape DEF CreateModel
<1>3. Counted'
  <2>1. /\ models \in SUBSET ModelDescriptors /\ m \notin models
        /\ models' = models \cup {m} /\ instanceCount' = instanceCount + 1
        /\ winsock' = (winsock \/ instanceCount = 0)
        /\ instanceCount = Cardinality(models) /\ winsock = (models # {})
    BY DEF RInv, Plain, TypeOK, Counted, WinsockHeld, CreateModel
  <2>2. IsFiniteSet(models) /\ (Cardinality(models) = 0 <=> models = {})
    BY <2>1, CountTyped
  <2>3. Cardinality(models \cup {m}) = Cardinality(models) + 1
    BY <2>1, <2>2, FS_AddElement
  <2>4. winsock'
    BY <2>1, <2>2
  <2> QED
    BY <2>1, <2>3, <2>4 DEF Counted, WinsockHeld
<1>4. TypeOK'
  <2>1. models' \in SUBSET ModelDescriptors
    BY DEF RInv, Plain, TypeOK, CreateModel
  <2>2. instanceCount' \in 0 .. Cardinality(ModelDescriptors)
    BY <1>3, <2>1, CountTyped DEF Counted
  <2>3. winsock' \in BOOLEAN
    BY <1>3 DEF Counted, WinsockHeld
  <2> QED
    BY <2>1, <2>2, <2>3 DEF RInv, Plain, TypeOK, CreateModel, lists
<1>5. Gone' /\ Running'
  BY DEF RInv, Plain, Gone, Running, CreateModel, lists
<1> QED
  BY <1>2, <1>3, <1>4, <1>5 DEF RInv, Plain

LEMMA CleanupModelRInv ==
  ASSUME RInv, NEW m \in ModelDescriptors, CleanupModel(m) PROVE RInv'
<1>1. PICK L \in Families : Shape(L)
  BY DEF RInv
<1>2. Shape(L)'
  BY <1>1, SameShape DEF CleanupModel
<1>3. Plain'
  BY DEF RInv, Plain, TypeOK, Gone, Running, Counted, WinsockHeld,
         CleanupModel, lists, wsa
<1> QED
  BY <1>2, <1>3 DEF RInv

LEMMA ModelDestroyedRInv ==
  ASSUME RInv, NEW m \in ModelDescriptors, ModelDestroyed(m) PROVE RInv'
<1>1. PICK L \in Families : Shape(L)
  BY DEF RInv
<1>2. \E K \in Families : Shape(K)'
  BY <1>1, DestroyShape DEF RInv, Plain
<1>3. Counted'
  <2>1. /\ models \in SUBSET ModelDescriptors /\ m \in models
        /\ models' = models \ {m} /\ instanceCount' = instanceCount - 1
        /\ winsock' = (winsock /\ ~ (instanceCount - 1 = 0))
        /\ instanceCount = Cardinality(models) /\ winsock = (models # {})
    BY DEF RInv, Plain, TypeOK, Counted, WinsockHeld, ModelDestroyed, IsLast
  <2>2. IsFiniteSet(models) /\ models \ {m} \in SUBSET ModelDescriptors
    BY <2>1, CountTyped
  <2>3. /\ Cardinality(models \ {m}) = Cardinality(models) - 1
        /\ Cardinality(models \ {m}) = 0 <=> models \ {m} = {}
    BY <2>1, <2>2, CountTyped, FS_RemoveElement
  <2>4. winsock' = (models \ {m} # {})
    BY <2>1, <2>3
  <2> QED
    BY <2>1, <2>3, <2>4 DEF Counted, WinsockHeld
<1>4. TypeOK'
  <2>1. /\ models' \in SUBSET ModelDescriptors
        /\ models' \subseteq ModelDescriptors /\ cleaning' \subseteq models'
    BY DEF RInv, Plain, TypeOK, ModelDestroyed
  <2>2. instanceCount' \in 0 .. Cardinality(ModelDescriptors)
    BY <1>3, <2>1, CountTyped DEF Counted
  <2>3. winsock' \in BOOLEAN
    BY <1>3 DEF Counted, WinsockHeld
  <2>4. /\ node' \in [Nodes -> [callback : CallbackDescriptors \cup {NoNode},
                                next : Nodes \cup {NoNode}]]
        /\ head' \in [ModelDescriptors -> [Events -> Nodes \cup {NoNode}]]
        /\ allocated' \subseteq Nodes
    BY DEF RInv, Plain, TypeOK, ModelDestroyed, EmptyNode
  <2>5. registered'
          \in [ModelDescriptors -> [Events -> Seq(CallbackDescriptors)]]
    BY EmptySeq DEF RInv, Plain, TypeOK, ModelDestroyed
  <2> QED
    BY <2>1, <2>2, <2>3, <2>4, <2>5 DEF RInv, Plain, TypeOK, ModelDestroyed
<1>5. Gone' /\ Running'
  BY DEF RInv, Plain, TypeOK, Gone, Running, ModelDestroyed
<1> QED
  BY <1>2, <1>3, <1>4, <1>5 DEF RInv, Plain

\* What TypeOK says of invoke and due.
TypedInvokes ==
  /\ invoke \in [ModelDescriptors ->
                   [event : Events \cup {NoEvent},
                    at : Nodes \cup {NoNode}, calling : BOOLEAN]]
  /\ due \in [ModelDescriptors -> Seq(CallbackDescriptors)]

(* A step of a thread in Invoke changes its own locals, and no list.       *)
LEMMA InvokeStep ==
  ASSUME RInv, NEW m \in models, TypedInvokes',
         \A m2 \in ModelDescriptors : m2 # m => invoke'[m2] = invoke[m2],
         invoke'[m].event = NoEvent => invoke'[m] = Idle,
         invoke'[m].calling => invoke'[m].at # NoNode,
         UNCHANGED <<models, cleaning, callbackMap, lists, wsa, registered>>
  PROVE  RInv'
<1>1. PICK L \in Families : Shape(L)
  BY DEF RInv
<1>2. Shape(L)'
  BY <1>1, SameShape
<1>3. TypeOK'
  BY DEF RInv, Plain, TypeOK, TypedInvokes, lists, wsa
<1>4. m \in ModelDescriptors
  BY DEF RInv, Plain, TypeOK
<1>5. Gone'
  BY <1>4 DEF RInv, Plain, Gone, lists
<1>6. Running'
  <2> SUFFICES ASSUME NEW m2 \in ModelDescriptors
               PROVE  /\ invoke'[m2].event = NoEvent => invoke'[m2] = Idle
                      /\ invoke'[m2].calling => invoke'[m2].at # NoNode
    BY DEF Running, Idle
  <2>1. CASE m2 = m
    BY <2>1
  <2>2. CASE m2 # m
    BY <2>2 DEF RInv, Plain, Running
  <2> QED
    BY <2>1, <2>2
<1>7. Counted'
  BY DEF RInv, Plain, Counted, WinsockHeld, wsa
<1> QED
  BY <1>2, <1>3, <1>5, <1>6, <1>7 DEF RInv, Plain

(* A thread that is in Invoke has a model.                                 *)
LEMMA InvokesModel ==
  ASSUME RInv, NEW m \in ModelDescriptors, invoke[m] # Idle
  PROVE  m \in models /\ invoke[m].event \in Events
BY DEF RInv, Plain, Gone, Running, TypeOK

LEMMA StartInvokeRInv ==
  ASSUME RInv, NEW m \in ModelDescriptors, NEW e \in Events, StartInvoke(m, e)
  PROVE  RInv'
<1>1. invoke' = [invoke EXCEPT ![m] =
                   [event |-> e, at |-> head[m][e], calling |-> FALSE]]
  BY DEF StartInvoke
<1>2. TypedInvokes'
  BY <1>1 DEF RInv, Plain, TypeOK, TypedInvokes, StartInvoke
<1>3. /\ \A m2 \in ModelDescriptors : m2 # m => invoke'[m2] = invoke[m2]
      /\ invoke'[m].event # NoEvent /\ ~ invoke'[m].calling
  BY <1>1, RegistryAssumption DEF RInv, Plain, TypeOK
<1> QED
  BY <1>2, <1>3, InvokeStep DEF StartInvoke

LEMMA CallHandlerRInv ==
  ASSUME RInv, NEW m \in ModelDescriptors, CallHandler(m) PROVE RInv'
<1>1. invoke' = [invoke EXCEPT ![m].calling = TRUE]
  BY DEF CallHandler
<1>2. Without(due[m], node[invoke[m].at].callback) \in Seq(CallbackDescriptors)
  BY WithoutDrops DEF RInv, Plain, TypeOK
<1>3. TypedInvokes'
  <2>1. invoke' \in [ModelDescriptors ->
                       [event : Events \cup {NoEvent},
                        at : Nodes \cup {NoNode}, calling : BOOLEAN]]
    BY <1>1 DEF RInv, Plain, TypeOK
  <2>2. due' = [due EXCEPT ![m] = Without(@, node[invoke[m].at].callback)]
    BY DEF CallHandler
  <2>3. due' \in [ModelDescriptors -> Seq(CallbackDescriptors)]
    BY <1>2, <2>2 DEF RInv, Plain, TypeOK
  <2> QED
    BY <2>1, <2>3 DEF TypedInvokes
<1>4. /\ \A m2 \in ModelDescriptors : m2 # m => invoke'[m2] = invoke[m2]
      /\ invoke'[m].event # NoEvent /\ invoke'[m].at # NoNode
  BY <1>1 DEF RInv, Plain, TypeOK, CallHandler
<1>5. m \in models
  BY InvokesModel DEF CallHandler, Idle
<1> QED
  BY <1>3, <1>4, <1>5, InvokeStep DEF CallHandler

LEMMA HandlerReturnsRInv ==
  ASSUME RInv, NEW m \in ModelDescriptors, HandlerReturns(m) PROVE RInv'
<1>1. PICK next \in Following(invoke[m].at) :
        invoke' = [invoke EXCEPT ![m].at = next, ![m].calling = FALSE]
  BY DEF HandlerReturns
<1>2. next \in Nodes \cup {NoNode}
  BY <1>1 DEF RInv, Plain, TypeOK, Following
<1>3. TypedInvokes'
  <2>1. invoke' \in [ModelDescriptors ->
                       [event : Events \cup {NoEvent},
                        at : Nodes \cup {NoNode}, calling : BOOLEAN]]
    BY <1>1, <1>2, ZenonT(40) DEF RInv, Plain, TypeOK
  <2>2. due' = due
    BY DEF HandlerReturns
  <2> QED
    BY <2>1, <2>2 DEF RInv, Plain, TypeOK, TypedInvokes
<1>4. m \in models /\ invoke[m].event # NoEvent
  <2>1. invoke[m] # Idle
    BY DEF HandlerReturns, Idle
  <2> QED
    BY <2>1, InvokesModel, RegistryAssumption
<1>5. /\ \A m2 \in ModelDescriptors : m2 # m => invoke'[m2] = invoke[m2]
      /\ invoke'[m].event # NoEvent /\ ~ invoke'[m].calling
  BY <1>1, <1>4 DEF RInv, Plain, TypeOK
<1> QED
  BY <1>3, <1>4, <1>5, InvokeStep DEF HandlerReturns

LEMMA InvokeReturnsRInv ==
  ASSUME RInv, NEW m \in ModelDescriptors, InvokeReturns(m) PROVE RInv'
<1>1. invoke' = [invoke EXCEPT ![m] = Idle]
  BY DEF InvokeReturns
<1>2. TypedInvokes'
  BY <1>1 DEF RInv, Plain, TypeOK, TypedInvokes, InvokeReturns, Idle
<1>3. /\ \A m2 \in ModelDescriptors : m2 # m => invoke'[m2] = invoke[m2]
      /\ invoke'[m] = Idle
  BY <1>1 DEF RInv, Plain, TypeOK
<1>4. m \in models
  BY InvokesModel DEF InvokeReturns, Idle
<1> QED
  BY <1>2, <1>3, <1>4, InvokeStep DEF InvokeReturns, Idle

-----------------------------------------------------------------------------
(* Subscriptions.                                                          *)

(* AddEventHandler fails and changes nothing, or makes a node of a model   *)
(* that is there.                                                          *)
LEMMA AddCases ==
  ASSUME TypeOK, NEW m \in ModelDescriptors, NEW e \in Events,
         AddEventHandler(m, e)
  PROVE  \/ UNCHANGED vars
         \/ /\ m \in models
            /\ \E d \in FreshDescriptors, n \in Nodes \ allocated :
                 /\ Link(m, e, n, d)
                 /\ allocated' = allocated \cup {n}
                 /\ callbackMap' = [callbackMap EXCEPT ![d] = n]
                 /\ registered' = [registered EXCEPT ![m][e] = <<d>> \o @]
                 /\ UNCHANGED <<models, cleaning, invoke, wsa, due>>
<1>1. PICK found \in Finds(m) :
       IF found
       THEN \E d \in FreshDescriptors, n \in Nodes \ allocated :
              /\ Link(m, e, n, d)
              /\ allocated' = allocated \cup {n}
              /\ callbackMap' = [callbackMap EXCEPT ![d] = n]
              /\ registered' = [registered EXCEPT ![m][e] = <<d>> \o @]
              /\ UNCHANGED <<models, cleaning, invoke, wsa, due>>
       ELSE UNCHANGED vars
  BY DEF AddEventHandler
<1>2. CASE found
  BY <1>1, <1>2, FindsModels
<1>3. CASE ~ found
  BY <1>1, <1>3
<1> QED
  BY <1>2, <1>3

(* RemoveEventHandler finds no node and changes nothing, or takes one out  *)
(* of a list of a model that is there.                                     *)
LEMMA RemoveCases ==
  ASSUME TypeOK, NEW L \in Families, Shape(L),
         NEW m \in ModelDescriptors, NEW e \in Events,
         NEW d \in CallbackDescriptors, RemoveEventHandler(m, e, d)
  PROVE  \/ UNCHANGED vars
         \/ /\ m \in models /\ MayRemove(m, e, d)
            /\ \E k \in 1 .. Len(L[m][e]) : callbackMap[d] = L[m][e][k]
            /\ Unlink(m, e, callbackMap[d])
            /\ allocated' = allocated \ {callbackMap[d]}
            /\ callbackMap' = [callbackMap EXCEPT ![d] = NoNode]
            /\ registered' = [registered EXCEPT ![m][e] = Without(@, d)]
            /\ due' = [due EXCEPT ![m] = IF invoke[m].event = e
                                         THEN Without(@, d) ELSE @]
            /\ UNCHANGED <<models, cleaning, invoke, wsa>>
<1>1. PICK found \in Finds(m) :
       IF found /\ callbackMap[d] \in ListOf(m, e)
       THEN /\ Unlink(m, e, callbackMap[d])
            /\ allocated' = allocated \ {callbackMap[d]}
            /\ callbackMap' = [callbackMap EXCEPT ![d] = NoNode]
            /\ registered' = [registered EXCEPT ![m][e] = Without(@, d)]
            /\ due' = [due EXCEPT ![m] = IF invoke[m].event = e
                                         THEN Without(@, d) ELSE @]
            /\ UNCHANGED <<models, cleaning, invoke, wsa>>
       ELSE UNCHANGED vars
  BY DEF RemoveEventHandler
<1>2. CASE found /\ callbackMap[d] \in ListOf(m, e)
  <2>1. \E k \in 1 .. Len(L[m][e]) : callbackMap[d] = L[m][e][k]
    BY <1>2, ListIs
  <2> QED
    BY <1>1, <1>2, <2>1, FindsModels DEF RemoveEventHandler
<1>3. CASE ~ (found /\ callbackMap[d] \in ListOf(m, e))
  BY <1>1, <1>3
<1> QED
  BY <1>2, <1>3

LEMMA AddEventHandlerRInv ==
  ASSUME RInv, NEW m \in ModelDescriptors, NEW e \in Events,
         AddEventHandler(m, e)
  PROVE  RInv'
<1>1. CASE UNCHANGED vars
  BY <1>1, Stutters
<1>2. CASE ~ UNCHANGED vars
  <2>1. PICK d \in FreshDescriptors, n \in Nodes \ allocated :
          /\ Link(m, e, n, d)
          /\ allocated' = allocated \cup {n}
          /\ callbackMap' = [callbackMap EXCEPT ![d] = n]
          /\ registered' = [registered EXCEPT ![m][e] = <<d>> \o @]
          /\ UNCHANGED <<models, cleaning, invoke, wsa, due>>
    BY <1>2, AddCases DEF RInv, Plain
  <2>2. m \in models
    BY <1>2, AddCases DEF RInv, Plain
  <2>3. PICK L \in Families : Shape(L)
    BY DEF RInv
  <2>4. \E K \in Families : Shape(K)'
    BY <2>1, <2>3, LinkShape DEF RInv, Plain
  <2>5. /\ d \in CallbackDescriptors
        /\ <<d>> \o registered[m][e] \in Seq(CallbackDescriptors)
    <3>1. d \in CallbackDescriptors
      BY DEF FreshDescriptors
    <3>2. registered[m][e] \in Seq(CallbackDescriptors)
      BY DEF RInv, Plain, TypeOK
    <3> QED
      BY <3>1, <3>2, Prepending
  <2>6. /\ node' \in [Nodes -> [callback : CallbackDescriptors \cup {NoNode},
                                next : Nodes \cup {NoNode}]]
        /\ head' \in [ModelDescriptors -> [Events -> Nodes \cup {NoNode}]]
    BY <2>1, <2>5 DEF RInv, Plain, TypeOK, Link
  <2>7. registered'
          \in [ModelDescriptors -> [Events -> Seq(CallbackDescriptors)]]
    BY <2>1, <2>5 DEF RInv, Plain, TypeOK
  <2>8. /\ callbackMap' \in [CallbackDescriptors -> Nodes \cup {NoNode}]
        /\ allocated' \subseteq Nodes
    BY <2>1 DEF RInv, Plain, TypeOK
  <2>9. TypeOK'
    BY <2>1, <2>6, <2>7, <2>8 DEF RInv, Plain, TypeOK, wsa
  <2>10. Gone'
    BY <2>1, <2>2 DEF RInv, Plain, TypeOK, Gone, Link
  <2>11. Running' /\ Counted'
    BY <2>1 DEF RInv, Plain, Running, Counted, WinsockHeld, wsa
  <2> QED
    BY <2>4, <2>9, <2>10, <2>11 DEF RInv, Plain
<1> QED
  BY <1>1, <1>2

LEMMA RemoveEventHandlerRInv ==
  ASSUME RInv, NEW m \in ModelDescriptors, NEW e \in Events,
         NEW d \in CallbackDescriptors, RemoveEventHandler(m, e, d)
  PROVE  RInv'
<1>1. CASE UNCHANGED vars
  BY <1>1, Stutters
<1>2. CASE ~ UNCHANGED vars
  <2>1. PICK L \in Families : Shape(L)
    BY DEF RInv
  <2> DEFINE n == callbackMap[d]
  <2>2. /\ m \in models
        /\ Unlink(m, e, n)
        /\ allocated' = allocated \ {n}
        /\ callbackMap' = [callbackMap EXCEPT ![d] = NoNode]
        /\ registered' = [registered EXCEPT ![m][e] = Without(@, d)]
        /\ due' = [due EXCEPT ![m] = IF invoke[m].event = e
                                     THEN Without(@, d) ELSE @]
        /\ UNCHANGED <<models, cleaning, invoke, wsa>>
    BY <1>2, <2>1, RemoveCases DEF RInv, Plain
  <2>3. PICK k \in 1 .. Len(L[m][e]) : n = L[m][e][k]
    BY <1>2, <2>1, RemoveCases DEF RInv, Plain
  <2> HIDE DEF n
  <2>4. (\E K \in Families : Shape(K)') /\ TypedLists'
    BY <2>1, <2>2, <2>3, UnlinkShape DEF RInv, Plain
  <2>5. /\ Without(registered[m][e], d) \in Seq(CallbackDescriptors)
        /\ Without(due[m], d) \in Seq(CallbackDescriptors)
    BY WithoutDrops DEF RInv, Plain, TypeOK
  <2>6. /\ registered'
             \in [ModelDescriptors -> [Events -> Seq(CallbackDescriptors)]]
        /\ due' \in [ModelDescriptors -> Seq(CallbackDescriptors)]
    BY <2>2, <2>5 DEF RInv, Plain, TypeOK
  <2>7. /\ callbackMap' \in [CallbackDescriptors -> Nodes \cup {NoNode}]
        /\ allocated' \subseteq Nodes
    BY <2>2 DEF RInv, Plain, TypeOK
  <2>8. TypeOK'
    BY <2>2, <2>4, <2>6, <2>7 DEF RInv, Plain, TypeOK, TypedLists, wsa
  <2>9. Gone'
    <3>1. \A m2 \in ModelDescriptors, e2 \in Events :
            m2 # m => /\ head'[m2][e2] = head[m2][e2]
                      /\ registered'[m2][e2] = registered[m2][e2]
      BY <2>2 DEF RInv, Plain, TypeOK, Unlink, UnlinkFirst
    <3> QED
      BY <2>2, <3>1 DEF RInv, Plain, Gone
  <2>10. Running' /\ Counted'
    BY <2>2 DEF RInv, Plain, Running, Counted, WinsockHeld, wsa
  <2> QED
    BY <2>4, <2>8, <2>9, <2>10 DEF RInv, Plain
<1> QED
  BY <1>1, <1>2

LEMMA NextRInv == RInv /\ [Next]_vars => RInv'
<1> SUFFICES ASSUME RInv, [Next]_vars PROVE RInv'
  OBVIOUS
<1>1. CASE UNCHANGED vars
  BY <1>1, Stutters
<1>2. CASE Next
  <2> PICK m \in ModelDescriptors :
        \/ CreateModel(m)
        \/ WSAStartupFails(m)
        \/ CleanupModel(m)
        \/ ModelDestroyed(m)
        \/ CallHandler(m)
        \/ HandlerReturns(m)
        \/ InvokeReturns(m)
        \/ \E e \in Events :
             \/ StartInvoke(m, e)
             \/ AddEventHandler(m, e)
             \/ \E d \in CallbackDescriptors : RemoveEventHandler(m, e, d)
    BY <1>2 DEF Next
  <2>1. CASE CreateModel(m)
    BY <2>1, CreateModelRInv
  <2>2. CASE WSAStartupFails(m)
    BY <2>2, Stutters DEF WSAStartupFails
  <2>3. CASE CleanupModel(m)
    BY <2>3, CleanupModelRInv
  <2>4. CASE ModelDestroyed(m)
    BY <2>4, ModelDestroyedRInv
  <2>5. CASE CallHandler(m)
    BY <2>5, CallHandlerRInv
  <2>6. CASE HandlerReturns(m)
    BY <2>6, HandlerReturnsRInv
  <2>7. CASE InvokeReturns(m)
    BY <2>7, InvokeReturnsRInv
  <2>8. ASSUME NEW e \in Events, StartInvoke(m, e) PROVE RInv'
    BY <2>8, StartInvokeRInv
  <2>9. ASSUME NEW e \in Events, AddEventHandler(m, e) PROVE RInv'
    BY <2>9, AddEventHandlerRInv
  <2>10. ASSUME NEW e \in Events, NEW d \in CallbackDescriptors,
                RemoveEventHandler(m, e, d)
         PROVE  RInv'
    BY <2>10, RemoveEventHandlerRInv
  <2> QED
    BY <2>1, <2>2, <2>3, <2>4, <2>5, <2>6, <2>7, <2>8, <2>9, <2>10
<1> QED
  BY <1>1, <1>2

LEMMA Structure == Spec => []RInv
BY InitRInv, NextRInv, PTL DEF Spec
(* The state keeps its type whatever clients do, a client with stale       *)
(* descriptors or one that removes a running callback included: TypeOK.    *)
THEOREM Typed == Spec => []TypeOK
<1>1. RInv => TypeOK
  BY DEF RInv, Plain
<1> QED
  BY <1>1, Structure, PTL

(* WSAStartup and WSACleanup, called by the constructor of the first model *)
(* and the destructor of the last as s_InstanceCount has it, keep Winsock  *)
(* up exactly as long as there is a model.                                 *)
THEOREM Winsock == Spec => []WinsockHeld
<1>1. RInv => WinsockHeld
  BY DEF RInv, Plain, Counted
<1> QED
  BY <1>1, Structure, PTL

(* AddCallback, RemoveCallback and ~Delegate neither leak a node nor share *)
(* one between lists nor leave a freed one in a list, whatever the client  *)
(* passes to them: NodesOwned.                                             *)
THEOREM Ownership == Spec => []NodesOwned
<1>1. RInv => NodesOwned
  <2> SUFFICES ASSUME RInv, NEW n \in Nodes
               PROVE  Cardinality(Owners(n)) = IF n \in allocated THEN 1 ELSE 0
    BY DEF NodesOwned
  <2>1. PICK L \in Families : Shape(L)
    BY DEF RInv
  <2>2. ASSUME NEW m \in ModelDescriptors, NEW e \in Events
        PROVE  n \in ListOf(m, e) <=> \E i \in 1 .. Len(L[m][e]) : n = L[m][e][i]
    BY <2>1, ListIs
  <2>3. models \subseteq ModelDescriptors
    BY DEF RInv, Plain, TypeOK
  <2>4. CASE n \in allocated
    <3>1. PICK m \in ModelDescriptors, e \in Events :
            \E i \in 1 .. Len(L[m][e]) : n = L[m][e][i]
      BY <2>1, <2>4 DEF Shape, Owns, InSome
    <3>2. m \in models
      <4> SUFFICES ASSUME m \notin models PROVE FALSE
        OBVIOUS
      <4>1. head[m][e] = NoNode
        BY DEF RInv, Plain, Gone
      <4>2. Nth(L[m][e], 1) = NoNode
        BY <2>1, <4>1 DEF Shape, Leads
      <4>3. 1 \in DOMAIN L[m][e] /\ L[m][e][1] # NoNode
        BY <3>1, FamilyTyped
      <4> QED
        BY <4>2, <4>3 DEF Nth
    <3>3. \A x \in models \X Events : n \in ListOf(x[1], x[2]) => x = <<m, e>>
      <4> SUFFICES ASSUME NEW m2 \in models, NEW e2 \in Events,
                          n \in ListOf(m2, e2)
                   PROVE  m2 = m /\ e2 = e
        OBVIOUS
      <4>1. PICK i2 \in 1 .. Len(L[m2][e2]) : n = L[m2][e2][i2]
        BY <2>2, <2>3
      <4>2. PICK i \in 1 .. Len(L[m][e]) : n = L[m][e][i]
        BY <3>1
      <4>3. m2 \in ModelDescriptors /\ L[m2][e2][i2] = L[m][e][i]
        BY <2>3, <4>1, <4>2
      <4> QED
        BY <2>1, <4>3, SamePlace
    <3>4. Owners(n) = {<<m, e>>}
      BY <2>2, <3>1, <3>2, <3>3 DEF Owners
    <3> QED
      BY <2>4, <3>4, FS_Singleton
  <2>5. CASE n \notin allocated
    <3>1. \A m \in ModelDescriptors, e \in Events : n \notin ListOf(m, e)
      BY <2>1, <2>2, <2>5 DEF Shape, Owns, InSome
    <3>2. Owners(n) = {}
      BY <2>3, <3>1 DEF Owners
    <3> QED
      BY <2>5, <3>2, FS_EmptySet
  <2> QED
    BY <2>4, <2>5
<1> QED
  BY <1>1, Structure, PTL

-----------------------------------------------------------------------------
(* Clients that pass no stale descriptors: the lists hold what was added.  *)

\* The i-th node of a list was made for the i-th callback that is registered,
\* whose descriptor leads to it.
Subscribed(L) ==
  \A m \in ModelDescriptors, e \in Events :
    /\ Len(registered[m][e]) = Len(L[m][e])
    /\ \A i \in 1 .. Len(L[m][e]) :
         /\ node[L[m][e][i]].callback = registered[m][e][i]
         /\ callbackMap[registered[m][e][i]] = L[m][e][i]

LEMMA RegisteredTyped ==
  ASSUME TypeOK, NEW L \in Families, Subscribed(L),
         NEW m \in ModelDescriptors, NEW e \in Events
  PROVE  /\ registered[m][e] \in Seq(CallbackDescriptors)
         /\ Len(registered[m][e]) = Len(L[m][e]) /\ Len(L[m][e]) \in Nat
         /\ DOMAIN registered[m][e] = 1 .. Len(L[m][e])
         /\ \A i \in 1 .. Len(L[m][e]) :
              registered[m][e][i] \in CallbackDescriptors
<1>1. /\ registered[m][e] \in Seq(CallbackDescriptors)
      /\ Len(registered[m][e]) = Len(L[m][e]) /\ Len(L[m][e]) \in Nat
  BY FamilyTyped DEF TypeOK, Subscribed
<1> QED
  BY <1>1, LenProperties, ElementOfSeq

\* The effects of a subscription, and of its end, on the lists.
Added(K, L, m, e) ==
  /\ SameBut(K, L, m, e) /\ SameBut(registered', registered, m, e)
  /\ \E n \in Nodes : Prepended(K[m][e], L[m][e], n)
  /\ \E d : Prepended(registered'[m][e], registered[m][e], d)
  /\ UNCHANGED <<invoke, due>>

Removed(K, L, m, e, d, k) ==
  /\ callbackMap[d] = L[m][e][k] /\ registered[m][e][k] = d
  /\ SameBut(K, L, m, e) /\ SameBut(registered', registered, m, e)
  /\ Dropped(K[m][e], L[m][e], k)
  /\ Dropped(registered'[m][e], registered[m][e], k)
  /\ due' = [due EXCEPT ![m] = IF invoke[m].event = e
                               THEN Without(@, d) ELSE @]
  /\ UNCHANGED invoke

LEMMA AddSubscribed ==
  ASSUME RInv, NEW L \in Families, Shape(L), Subscribed(L),
         NEW m \in ModelDescriptors, NEW e \in Events,
         AddEventHandler(m, e), ~ UNCHANGED vars
  PROVE  \E K \in Families : Shape(K)' /\ Subscribed(K)' /\ Added(K, L, m, e)
<1>0. TypeOK
  BY DEF RInv, Plain
<1>1. PICK d \in FreshDescriptors, n \in Nodes \ allocated :
        /\ Link(m, e, n, d)
        /\ allocated' = allocated \cup {n}
        /\ callbackMap' = [callbackMap EXCEPT ![d] = n]
        /\ registered' = [registered EXCEPT ![m][e] = <<d>> \o @]
        /\ UNCHANGED <<models, cleaning, invoke, wsa, due>>
  BY <1>0, AddCases
<1>2. PICK K \in Families :
        Shape(K)' /\ SameBut(K, L, m, e) /\ Prepended(K[m][e], L[m][e], n)
  BY <1>0, <1>1, LinkShape
<1>3. d \in CallbackDescriptors /\ callbackMap[d] = NoNode
  BY DEF FreshDescriptors
<1>4. /\ Prepended(registered'[m][e], registered[m][e], d)
      /\ SameBut(registered', registered, m, e)
  <2>1. registered[m][e] \in Seq(CallbackDescriptors)
    BY <1>0 DEF TypeOK
  <2>2. Prepended(<<d>> \o registered[m][e], registered[m][e], d)
    BY <1>3, <2>1, Prepending
  <2> QED
    BY <1>0, <1>1, <2>2 DEF TypeOK, SameBut
<1>5. /\ callbackMap'[d] = n /\ node'[n].callback = d
      /\ \A c \in CallbackDescriptors : c # d => callbackMap'[c] = callbackMap[c]
      /\ \A x \in Nodes : x # n => node'[x] = node[x]
  BY <1>0, <1>1, <1>3 DEF TypeOK, Link
<1>6. ASSUME NEW m2 \in ModelDescriptors, NEW e2 \in Events,
             NEW i \in 1 .. Len(L[m2][e2])
      PROVE  /\ L[m2][e2][i] # n /\ registered[m2][e2][i] # d
             /\ node'[L[m2][e2][i]].callback = registered[m2][e2][i]
             /\ callbackMap'[registered[m2][e2][i]] = L[m2][e2][i]
  <2>1. L[m2][e2][i] \in Nodes /\ L[m2][e2][i] # NoNode
    BY FamilyTyped
  <2>2. L[m2][e2][i] # n
    BY <2>1 DEF Shape, Owns, InSome
  <2>3. /\ node[L[m2][e2][i]].callback = registered[m2][e2][i]
        /\ callbackMap[registered[m2][e2][i]] = L[m2][e2][i]
        /\ registered[m2][e2][i] \in CallbackDescriptors
    BY <1>0, RegisteredTyped DEF Subscribed
  <2>4. registered[m2][e2][i] # d
    BY <1>3, <2>1, <2>3
  <2> QED
    BY <1>5, <2>1, <2>2, <2>3, <2>4
<1>7. Subscribed(K)'
  <2> SUFFICES ASSUME NEW m2 \in ModelDescriptors, NEW e2 \in Events
               PROVE  /\ Len(registered'[m2][e2]) = Len(K[m2][e2])
                      /\ \A i \in 1 .. Len(K[m2][e2]) :
                           /\ node'[K[m2][e2][i]].callback = registered'[m2][e2][i]
                           /\ callbackMap'[registered'[m2][e2][i]] = K[m2][e2][i]
    BY DEF Subscribed
  <2>1. CASE m2 # m \/ e2 # e
    <3>1. K[m2][e2] = L[m2][e2] /\ registered'[m2][e2] = registered[m2][e2]
      BY <1>2, <1>4, <2>1 DEF SameBut
    <3> QED
      BY <1>6, <3>1 DEF Subscribed
  <2>2. CASE m2 = m /\ e2 = e
    <3>1. /\ Len(registered[m][e]) = Len(L[m][e]) /\ Len(L[m][e]) \in Nat
          /\ Len(K[m][e]) = Len(L[m][e]) + 1
          /\ Len(registered'[m][e]) = Len(L[m][e]) + 1
      BY <1>2, <1>4, FamilyTyped DEF Subscribed, Prepended
    <3>2. ASSUME NEW i \in 1 .. Len(K[m][e])
          PROVE  /\ node'[K[m][e][i]].callback = registered'[m][e][i]
                 /\ callbackMap'[registered'[m][e][i]] = K[m][e][i]
      <4>1. CASE i = 1
        <5>1. K[m][e][i] = n /\ registered'[m][e][i] = d
          BY <1>2, <1>4, <3>1, <4>1 DEF Prepended
        <5> QED
          BY <1>5, <5>1
      <4>2. CASE i # 1
        <5>1. /\ i - 1 \in 1 .. Len(L[m][e]) /\ K[m][e][i] = L[m][e][i - 1]
              /\ registered'[m][e][i] = registered[m][e][i - 1]
          BY <1>2, <1>4, <3>1, <4>2 DEF Prepended
        <5> QED
          BY <1>6, <5>1
      <4> QED
        BY <4>1, <4>2
    <3> QED
      BY <2>2, <3>1, <3>2
  <2> QED
    BY <2>1, <2>2
<1> QED
  BY <1>1, <1>2, <1>4, <1>7 DEF Added

(* Two places with the same registered callback are the same place.        *)
LEMMA SameCallback ==
  ASSUME NEW L \in Families, Shape(L), Subscribed(L),
         NEW m1 \in ModelDescriptors, NEW e1 \in Events,
         NEW m2 \in ModelDescriptors, NEW e2 \in Events,
         NEW i1 \in 1 .. Len(L[m1][e1]), NEW i2 \in 1 .. Len(L[m2][e2]),
         registered[m1][e1][i1] = registered[m2][e2][i2]
  PROVE  m1 = m2 /\ e1 = e2 /\ i1 = i2
<1>1. L[m1][e1][i1] = L[m2][e2][i2]
  BY SMTT(30) DEF Subscribed
<1> QED
  BY <1>1, SamePlace

LEMMA RemoveSubscribed ==
  ASSUME RInv, ~ StaleDescriptors,
         NEW L \in Families, Shape(L), Subscribed(L),
         NEW m \in ModelDescriptors, NEW e \in Events,
         NEW d \in CallbackDescriptors,
         RemoveEventHandler(m, e, d), ~ UNCHANGED vars
  PROVE  \E K \in Families : \E k \in 1 .. Len(L[m][e]) :
           Shape(K)' /\ Subscribed(K)' /\ Removed(K, L, m, e, d, k)
<1>0. TypeOK
  BY DEF RInv, Plain
<1> DEFINE n == callbackMap[d]
<1>1. /\ m \in models /\ MayRemove(m, e, d)
      /\ Unlink(m, e, n)
      /\ allocated' = allocated \ {n}
      /\ callbackMap' = [callbackMap EXCEPT ![d] = NoNode]
      /\ registered' = [registered EXCEPT ![m][e] = Without(@, d)]
      /\ due' = [due EXCEPT ![m] = IF invoke[m].event = e
                                   THEN Without(@, d) ELSE @]
      /\ UNCHANGED <<models, cleaning, invoke, wsa>>
  BY <1>0, RemoveCases
<1>2. PICK k \in 1 .. Len(L[m][e]) : n = L[m][e][k]
  BY <1>0, RemoveCases
<1>3. /\ n = callbackMap[d]
      /\ callbackMap[d] # NoNode
  BY <1>2, FamilyTyped
<1> HIDE DEF n
<1>4. registered[m][e][k] = d
  <2>1. InUse(d)
    BY <1>1, <1>3 DEF MayRemove
  <2>2. PICK m2 \in models, e2 \in Events : d \in ToSet(registered[m2][e2])
    BY <2>1 DEF InUse
  <2>3. m2 \in ModelDescriptors
    BY <1>0 DEF TypeOK
  <2>4. PICK j \in 1 .. Len(L[m2][e2]) : registered[m2][e2][j] = d
    BY <1>0, <2>2, <2>3, RegisteredTyped DEF ToSet
  <2>5. L[m2][e2][j] = L[m][e][k]
    BY <1>2, <1>3, <2>3, <2>4 DEF Subscribed
  <2>6. m2 = m /\ e2 = e /\ j = k
    BY <2>3, <2>5, SamePlace
  <2> QED
    BY <2>4, <2>6
<1>5. /\ Dropped(registered'[m][e], registered[m][e], k)
      /\ SameBut(registered', registered, m, e)
  <2>1. /\ registered[m][e] \in Seq(CallbackDescriptors)
        /\ Len(registered[m][e]) = Len(L[m][e])
    BY <1>0, RegisteredTyped
  <2>2. PICK j \in 1 .. Len(registered[m][e]) :
          /\ registered[m][e][j] = d
          /\ Dropped(Without(registered[m][e], d), registered[m][e], j)
    BY <1>4, <2>1, WithoutDrops
  <2>3. j = k
    BY <1>4, <2>1, <2>2, SameCallback
  <2> QED
    BY <1>0, <1>1, <2>2, <2>3 DEF TypeOK, SameBut
<1>6. PICK K \in Families :
        Shape(K)' /\ SameBut(K, L, m, e) /\ Dropped(K[m][e], L[m][e], k)
  BY <1>0, <1>1, <1>2, UnlinkShape
<1>7. \A x \in Nodes \ {n} : node'[x].callback = node[x].callback
  BY <1>0, <1>1, <1>2, UnlinkShape
<1>8. ASSUME NEW m2 \in ModelDescriptors, NEW e2 \in Events,
             NEW i \in 1 .. Len(L[m2][e2]), m2 # m \/ e2 # e \/ i # k
      PROVE  /\ node'[L[m2][e2][i]].callback = registered[m2][e2][i]
             /\ callbackMap'[registered[m2][e2][i]] = L[m2][e2][i]
  <2>1. L[m2][e2][i] \in Nodes /\ L[m2][e2][i] # n
    <3>1. L[m2][e2][i] = L[m][e][k] => m2 = m /\ e2 = e /\ i = k
      BY SamePlace
    <3> QED
      BY <1>2, <1>8, <3>1, FamilyTyped
  <2>2. /\ node[L[m2][e2][i]].callback = registered[m2][e2][i]
        /\ callbackMap[registered[m2][e2][i]] = L[m2][e2][i]
        /\ registered[m2][e2][i] \in CallbackDescriptors
    BY <1>0, RegisteredTyped DEF Subscribed
  <2>3. registered[m2][e2][i] # d
    BY <1>3, <2>1, <2>2
  <2> QED
    BY <1>0, <1>1, <1>7, <2>1, <2>2, <2>3 DEF TypeOK
<1>9. Subscribed(K)'
  <2> SUFFICES ASSUME NEW m2 \in ModelDescriptors, NEW e2 \in Events
               PROVE  /\ Len(registered'[m2][e2]) = Len(K[m2][e2])
                      /\ \A i \in 1 .. Len(K[m2][e2]) :
                           /\ node'[K[m2][e2][i]].callback = registered'[m2][e2][i]
                           /\ callbackMap'[registered'[m2][e2][i]] = K[m2][e2][i]
    BY DEF Subscribed
  <2>1. CASE m2 # m \/ e2 # e
    <3>1. K[m2][e2] = L[m2][e2] /\ registered'[m2][e2] = registered[m2][e2]
      BY <1>5, <1>6, <2>1 DEF SameBut
    <3> QED
      BY <1>8, <2>1, <3>1 DEF Subscribed
  <2>2. CASE m2 = m /\ e2 = e
    <3>1. /\ Len(registered[m][e]) = Len(L[m][e]) /\ Len(L[m][e]) \in Nat
          /\ Len(K[m][e]) = Len(L[m][e]) - 1
          /\ Len(registered'[m][e]) = Len(L[m][e]) - 1
      BY <1>5, <1>6, FamilyTyped DEF Subscribed, Dropped
    <3>2. ASSUME NEW i \in 1 .. Len(K[m][e])
          PROVE  /\ node'[K[m][e][i]].callback = registered'[m][e][i]
                 /\ callbackMap'[registered'[m][e][i]] = K[m][e][i]
      <4> DEFINE j == IF i < k THEN i ELSE i + 1
      <4>1. /\ j \in 1 .. Len(L[m][e]) /\ j # k
            /\ K[m][e][i] = L[m][e][j]
            /\ registered'[m][e][i] = registered[m][e][j]
        BY <1>5, <1>6, <3>1 DEF Dropped
      <4> HIDE DEF j
      <4> QED
        BY <1>8, <4>1
    <3> QED
      BY <2>2, <3>1, <3>2
  <2> QED
    BY <2>1, <2>2
<1> QED
  BY <1>1, <1>2, <1>3, <1>4, <1>5, <1>6, <1>9 DEF Removed

LEMMA DestroySubscribed ==
  ASSUME RInv, NEW L \in Families, Shape(L), Subscribed(L),
         NEW m \in ModelDescriptors, ModelDestroyed(m)
  PROVE  \E K \in Families :
           /\ Shape(K)' /\ Subscribed(K)'
           /\ \A m2 \in ModelDescriptors, e \in Events :
                m2 # m => /\ K[m2][e] = L[m2][e]
                          /\ registered'[m2][e] = registered[m2][e]
<1>0. TypeOK
  BY DEF RInv, Plain
<1>1. PICK K \in Families :
        /\ Shape(K)'
        /\ \A e \in Events : K[m][e] = <<>>
        /\ \A m2 \in ModelDescriptors, e \in Events :
             m2 # m => K[m2][e] = L[m2][e]
  BY <1>0, DestroyShape
<1>2. \A m2 \in ModelDescriptors, e \in Events :
        m2 # m => \A i \in 1 .. Len(L[m2][e]) :
                    node'[L[m2][e][i]] = node[L[m2][e][i]]
  BY <1>0, DestroyShape
<1>3. /\ \A e \in Events : registered'[m][e] = <<>>
      /\ \A m2 \in ModelDescriptors, e \in Events :
           m2 # m => registered'[m2][e] = registered[m2][e]
      /\ callbackMap' = callbackMap
  BY <1>0 DEF TypeOK, ModelDestroyed
<1>4. Subscribed(K)'
  <2> SUFFICES ASSUME NEW m2 \in ModelDescriptors, NEW e2 \in Events
               PROVE  /\ Len(registered'[m2][e2]) = Len(K[m2][e2])
                      /\ \A i \in 1 .. Len(K[m2][e2]) :
                           /\ node'[K[m2][e2][i]].callback = registered'[m2][e2][i]
                           /\ callbackMap'[registered'[m2][e2][i]] = K[m2][e2][i]
    BY DEF Subscribed
  <2>1. CASE m2 = m
    <3>1. K[m2][e2] = <<>> /\ registered'[m2][e2] = <<>> /\ Len(<<>>) = 0
      BY <1>1, <1>3, <2>1, EmptySeq
    <3> QED
      BY <3>1
  <2>2. CASE m2 # m
    <3>1. /\ K[m2][e2] = L[m2][e2] /\ registered'[m2][e2] = registered[m2][e2]
          /\ \A i \in 1 .. Len(L[m2][e2]) :
               node'[L[m2][e2][i]] = node[L[m2][e2][i]]
      BY <1>1, <1>2, <1>3, <2>2
    <3> QED
      BY <1>3, <3>1 DEF Subscribed
  <2> QED
    BY <2>1, <2>2
<1> QED
  BY <1>1, <1>3, <1>4

LEMMA SameSubscribed ==
  ASSUME NEW L \in Families, Subscribed(L),
         UNCHANGED <<lists, callbackMap, registered>>
  PROVE  Subscribed(L)'
BY DEF Subscribed, lists
SInv == RInv /\ \E L \in Families : Shape(L) /\ Subscribed(L)

(* The steps that make and end no subscription and destroy no model.       *)
Quiet(m) ==
  \/ CreateModel(m) \/ WSAStartupFails(m) \/ CleanupModel(m)
  \/ CallHandler(m) \/ HandlerReturns(m) \/ InvokeReturns(m)
  \/ \E e \in Events : StartInvoke(m, e)

LEMMA QuietSubscribed ==
  ASSUME NEW m \in ModelDescriptors, Quiet(m) \/ UNCHANGED vars,
         NEW L \in Families, Shape(L), Subscribed(L)
  PROVE  Shape(L)' /\ Subscribed(L)'
<1>1. UNCHANGED <<lists, callbackMap, registered>>
  BY DEF Quiet, CreateModel, WSAStartupFails, CleanupModel, CallHandler,
         HandlerReturns, InvokeReturns, StartInvoke, vars
<1> QED
  BY <1>1, SameShape, SameSubscribed

LEMMA NextSplits ==
  ASSUME Next
  PROVE  \E m \in ModelDescriptors :
           \/ Quiet(m) \/ ModelDestroyed(m)
           \/ \E e \in Events : AddEventHandler(m, e)
           \/ \E e \in Events, d \in CallbackDescriptors :
                RemoveEventHandler(m, e, d)
BY DEF Next, Quiet

LEMMA InitSInv == Init => SInv
<1> SUFFICES ASSUME Init PROVE SInv
  OBVIOUS
<1>1. RInv
  BY InitRInv
<1>2. PICK L \in Families : Shape(L)
  BY <1>1 DEF RInv
<1>3. ASSUME NEW m \in ModelDescriptors, NEW e \in Events
      PROVE  Len(L[m][e]) = 0 /\ registered[m][e] = <<>>
  <2>1. Nth(L[m][e], 1) = NoNode
    BY <1>2 DEF Init, Shape, Leads
  <2>2. 1 \notin DOMAIN L[m][e]
    BY <2>1, FamilyTyped DEF Nth
  <2> QED
    BY <2>2, FamilyTyped DEF Init
<1>4. Subscribed(L)
  BY <1>3, EmptySeq DEF Subscribed
<1> QED
  BY <1>1, <1>2, <1>4 DEF SInv

LEMMA NextSInv == ~ StaleDescriptors /\ SInv /\ [Next]_vars => SInv'
<1> SUFFICES ASSUME ~ StaleDescriptors, SInv, [Next]_vars PROVE SInv'
  OBVIOUS
<1>1. RInv /\ RInv'
  BY NextRInv DEF SInv
<1>2. PICK L \in Families : Shape(L) /\ Subscribed(L)
  BY DEF SInv
<1>3. CASE UNCHANGED vars
  <2>1. Shape(L)' /\ Subscribed(L)'
    BY <1>2, <1>3, SameShape, SameSubscribed DEF vars
  <2> QED
    BY <1>1, <2>1 DEF SInv
<1>4. CASE Next /\ ~ UNCHANGED vars
  <2>1. PICK m \in ModelDescriptors :
          \/ Quiet(m) \/ ModelDestroyed(m)
          \/ \E e \in Events : AddEventHandler(m, e)
          \/ \E e \in Events, d \in CallbackDescriptors :
               RemoveEventHandler(m, e, d)
    BY <1>4, NextSplits
  <2>2. CASE Quiet(m)
    BY <1>1, <1>2, <2>2, QuietSubscribed DEF SInv
  <2>3. CASE ModelDestroyed(m)
    BY <1>1, <1>2, <2>3, DestroySubscribed DEF SInv
  <2>4. ASSUME NEW e \in Events, AddEventHandler(m, e) PROVE SInv'
    BY <1>1, <1>2, <1>4, <2>4, AddSubscribed DEF SInv
  <2>5. ASSUME NEW e \in Events, NEW d \in CallbackDescriptors,
               RemoveEventHandler(m, e, d)
        PROVE  SInv'
    BY <1>1, <1>2, <1>4, <2>5, RemoveSubscribed DEF SInv
  <2> QED
    BY <2>1, <2>2, <2>3, <2>4, <2>5
<1> QED
  BY <1>3, <1>4

LEMMA Subscribing == ASSUME ~ StaleDescriptors PROVE Spec => []SInv
BY InitSInv, NextSInv, PTL DEF Spec

(* The list behind an event holds exactly the callbacks that were added    *)
(* and not removed, the newest first, if no client passes a descriptor of  *)
(* a model that it has cleaned up: ListsAreSubscriptions.                  *)
THEOREM Subscriptions ==
  ASSUME ~ StaleDescriptors PROVE Spec => []ListsAreSubscriptions
<1>1. SInv => ListsAreSubscriptions
  <2> SUFFICES ASSUME SInv, NEW m \in models, NEW e \in Events
               PROVE  Callbacks(head[m][e]) = registered[m][e]
    BY DEF ListsAreSubscriptions
  <2>1. PICK L \in Families : Shape(L) /\ Subscribed(L)
    BY DEF SInv
  <2>2. m \in ModelDescriptors /\ TypeOK
    BY DEF SInv, RInv, Plain, TypeOK
  <2>3. From(head[m][e]) = L[m][e] /\ DOMAIN L[m][e] = 1 .. Len(L[m][e])
    BY <2>1, <2>2, ListIs, FamilyTyped
  <2>4. Callbacks(head[m][e])
          = [i \in 1 .. Len(L[m][e]) |-> node[L[m][e][i]].callback]
    BY <2>3 DEF Callbacks
  <2>5. /\ registered[m][e] \in Seq(CallbackDescriptors)
        /\ Len(registered[m][e]) = Len(L[m][e])
    BY <2>1, <2>2, RegisteredTyped
  <2>6. registered[m][e]
          = [i \in 1 .. Len(L[m][e]) |-> registered[m][e][i]]
    BY <2>5, LenProperties
  <2>7. \A i \in 1 .. Len(L[m][e]) :
          node[L[m][e][i]].callback = registered[m][e][i]
    BY <2>1, <2>2 DEF Subscribed
  <2> QED
    BY <2>4, <2>6, <2>7
<1> QED
  BY <1>1, Subscribing, PTL

(* The descriptor that the C API hands out leads to the node that was made *)
(* for it as long as the callback is registered, although entries of       *)
(* models that are gone stay in the map: DescriptorsLead.                  *)
THEOREM Descriptors ==
  ASSUME ~ StaleDescriptors PROVE Spec => []DescriptorsLead
<1>1. SInv => DescriptorsLead
  <2> SUFFICES ASSUME SInv, NEW m \in models, NEW e \in Events,
                      NEW d \in ToSet(registered[m][e])
               PROVE  /\ callbackMap[d] \in ListOf(m, e)
                      /\ node[callbackMap[d]].callback = d
    BY DEF DescriptorsLead
  <2>1. PICK L \in Families : Shape(L) /\ Subscribed(L)
    BY DEF SInv
  <2>2. m \in ModelDescriptors /\ TypeOK
    BY DEF SInv, RInv, Plain, TypeOK
  <2>3. PICK i \in 1 .. Len(L[m][e]) : d = registered[m][e][i]
    BY <2>1, <2>2, RegisteredTyped DEF ToSet
  <2>4. callbackMap[d] = L[m][e][i] /\ node[L[m][e][i]].callback = d
    BY <2>1, <2>2, <2>3 DEF Subscribed
  <2> QED
    BY <2>1, <2>2, <2>4, ListIs
<1> QED
  BY <1>1, Subscribing, PTL

-----------------------------------------------------------------------------
(* Clients that also leave a raised event's callbacks alone, except from   *)
(* its own handlers, for others than the one that runs: Invoke calls each. *)

\* q is what is left of r after its first b elements.
Rest(q, r, b) ==
  Len(q) = Len(r) - b /\ \A i \in 1 .. Len(q) : q[i] = r[b + i]

LEMMA RestPrepended ==
  ASSUME NEW q, NEW r, NEW t, NEW d, NEW b \in Nat,
         Len(q) \in Nat, Len(r) \in Nat, Rest(q, r, b), Prepended(t, r, d)
  PROVE  Rest(q, t, b + 1)
<1>1. Len(t) = Len(r) + 1 /\ Len(q) = Len(r) - b
  BY DEF Rest, Prepended
<1>2. ASSUME NEW i \in 1 .. Len(q) PROVE q[i] = t[(b + 1) + i]
  <2>1. (b + 1) + i \in 1 .. Len(t) /\ (b + 1) + i # 1
    BY <1>1
  <2>2. t[(b + 1) + i] = r[((b + 1) + i) - 1]
    BY <2>1 DEF Prepended
  <2>3. ((b + 1) + i) - 1 = b + i
    OBVIOUS
  <2> QED
    BY <2>2, <2>3 DEF Rest
<1> QED
  BY <1>1, <1>2 DEF Rest

LEMMA RestDroppedBefore ==
  ASSUME NEW q, NEW r, NEW t, NEW b \in Nat, NEW k \in 1 .. b,
         Len(q) \in Nat, Len(r) \in Nat, Rest(q, r, b), Dropped(t, r, k)
  PROVE  Rest(q, t, b - 1)
<1>1. Len(t) = Len(r) - 1 /\ Len(q) = Len(r) - b
  BY DEF Rest, Dropped
<1>2. ASSUME NEW i \in 1 .. Len(q) PROVE q[i] = t[(b - 1) + i]
  <2>1. (b - 1) + i \in 1 .. Len(t) /\ ~ ((b - 1) + i < k)
    BY <1>1
  <2>2. t[(b - 1) + i] = r[((b - 1) + i) + 1]
    BY <2>1 DEF Dropped
  <2>3. ((b - 1) + i) + 1 = b + i
    OBVIOUS
  <2> QED
    BY <2>2, <2>3 DEF Rest
<1> QED
  BY <1>1, <1>2 DEF Rest

LEMMA RestDroppedWithin ==
  ASSUME NEW q, NEW r, NEW q2, NEW t, NEW b \in Nat, NEW j \in 1 .. Len(q),
         Len(q) \in Nat, Len(r) \in Nat, Rest(q, r, b),
         Dropped(q2, q, j), Dropped(t, r, b + j)
  PROVE  Rest(q2, t, b)
<1>1. /\ Len(t) = Len(r) - 1 /\ Len(q) = Len(r) - b /\ Len(q2) = Len(q) - 1
  BY DEF Rest, Dropped
<1>2. ASSUME NEW i \in 1 .. Len(q2) PROVE q2[i] = t[b + i]
  <2>1. b + i \in 1 .. Len(t) /\ i \in 1 .. Len(q) /\ i + 1 \in 1 .. Len(q)
    BY <1>1
  <2>2. CASE i < j
    <3>1. b + i < b + j
      BY <2>2
    <3> QED
      BY <2>1, <2>2, <3>1 DEF Rest, Dropped
  <2>3. CASE ~ (i < j)
    <3>1. ~ (b + i < b + j) /\ (b + i) + 1 = b + (i + 1)
      BY <2>3
    <3>2. t[b + i] = r[(b + i) + 1] /\ q2[i] = q[i + 1]
      BY <2>1, <2>3, <3>1 DEF Dropped
    <3> QED
      BY <2>1, <3>1, <3>2 DEF Rest
  <2> QED
    BY <2>2, <2>3
<1> QED
  BY <1>1, <1>2 DEF Rest

LEMMA RestWithoutFirst ==
  ASSUME NEW q, NEW r, NEW q2, NEW b \in Nat,
         Len(q) \in Nat, Len(r) \in Nat, Rest(q, r, b), Dropped(q2, q, 1)
  PROVE  Rest(q2, r, b + 1)
<1>1. Len(q) = Len(r) - b /\ Len(q2) = Len(q) - 1
  BY DEF Rest, Dropped
<1>2. ASSUME NEW i \in 1 .. Len(q2) PROVE q2[i] = r[(b + 1) + i]
  <2>1. i + 1 \in 1 .. Len(q) /\ ~ (i < 1) /\ b + (i + 1) = (b + 1) + i
    BY <1>1
  <2>2. q2[i] = q[i + 1] /\ q[i + 1] = r[b + (i + 1)]
    BY <2>1 DEF Rest, Dropped
  <2> QED
    BY <2>1, <2>2
<1> QED
  BY <1>1, <1>2 DEF Rest

\* How many callbacks of its list Invoke has begun to call, when it is at the
\* k-th node.
Begun(m, k) == IF invoke[m].calling THEN k ELSE k - 1

\* Invoke is at the k-th node of s, the callbacks of which are r.
Position(s, r, m, k) ==
  /\ k \in 1 .. Len(s) + 1 /\ invoke[m].at = Nth(s, k)
  /\ invoke[m].calling => k <= Len(s)
  /\ Rest(due[m], r, Begun(m, k))

Placed(L, m) ==
  \A e \in Events : invoke[m].event = e
    => \E k \in Nat : Position(L[m][e], registered[m][e], m, k)

PInv ==
  /\ RInv
  /\ \E L \in Families :
       Shape(L) /\ Subscribed(L) /\ \A m \in ModelDescriptors : Placed(L, m)

(* An Invoke whose list, locals and calls to make stay is where it was.    *)
LEMMA SamePosition ==
  ASSUME NEW L \in Families, NEW K \in Families, NEW m \in ModelDescriptors,
         Placed(L, m), invoke'[m] = invoke[m], due'[m] = due[m],
         \A e \in Events : invoke[m].event = e =>
           K[m][e] = L[m][e] /\ registered'[m][e] = registered[m][e]
  PROVE  Placed(K, m)'
<1> SUFFICES ASSUME NEW e \in Events, invoke'[m].event = e
             PROVE  \E k \in Nat : Position(K[m][e], registered[m][e], m, k)'
  BY DEF Placed
<1>1. PICK k \in Nat : Position(L[m][e], registered[m][e], m, k)
  BY DEF Placed
<1>2. Position(K[m][e], registered[m][e], m, k)'
  BY <1>1 DEF Position, Begun, Rest
<1> QED
  BY <1>2

(* What the lengths are, of the list that is raised and of what is due.    *)
LEMMA RaisedTyped ==
  ASSUME RInv, NEW L \in Families, Subscribed(L),
         NEW m \in ModelDescriptors, NEW e \in Events
  PROVE  /\ due[m] \in Seq(CallbackDescriptors) /\ Len(due[m]) \in Nat
         /\ Len(L[m][e]) \in Nat /\ Len(registered[m][e]) = Len(L[m][e])
         /\ L[m][e] \in Seq(Nodes)
<1>1. due[m] \in Seq(CallbackDescriptors)
  BY DEF RInv, Plain, TypeOK
<1> QED
  BY <1>1, FamilyTyped, LenProperties DEF Subscribed

LEMMA AddPlaced ==
  ASSUME RInv, NEW L \in Families, NEW K \in Families, Subscribed(L),
         NEW m \in ModelDescriptors, NEW e \in Events, Added(K, L, m, e),
         NEW m2 \in ModelDescriptors, Placed(L, m2)
  PROVE  Placed(K, m2)'
<1>1. CASE m2 # m \/ invoke[m2].event # e
  <2>1. \A e2 \in Events : invoke[m2].event = e2 =>
          K[m2][e2] = L[m2][e2] /\ registered'[m2][e2] = registered[m2][e2]
    BY <1>1 DEF Added, SameBut
  <2>2. invoke' = invoke /\ due' = due
    BY DEF Added
  <2> QED
    BY <2>1, <2>2, SamePosition
<1>2. CASE m2 = m /\ invoke[m2].event = e
  <2>1. PICK k \in Nat : Position(L[m][e], registered[m][e], m, k)
    BY <1>2 DEF Placed
  <2>2. /\ invoke' = invoke /\ due' = due
        /\ \E n \in Nodes : Prepended(K[m][e], L[m][e], n)
        /\ \E d : Prepended(registered'[m][e], registered[m][e], d)
    BY DEF Added
  <2>3. /\ Len(L[m][e]) \in Nat /\ Len(registered[m][e]) = Len(L[m][e])
        /\ Len(due[m]) \in Nat /\ L[m][e] \in Seq(Nodes)
        /\ K[m][e] \in Seq(Nodes)
    BY RaisedTyped, FamilyTyped
  <2>4. /\ k \in 1 .. Len(L[m][e]) + 1 /\ invoke[m].at = Nth(L[m][e], k)
        /\ Rest(due[m], registered[m][e], Begun(m, k))
    BY <2>1 DEF Position
  <2>5. Nth(K[m][e], k + 1) = Nth(L[m][e], k)
    <3>1. k \in Nat \ {0}
      BY <2>3, <2>4
    <3> QED
      BY <2>2, <2>3, <3>1, NthPrepended
  <2>6. Len(K[m][e]) = Len(L[m][e]) + 1
    BY <2>2 DEF Prepended
  <2>7. Begun(m, k + 1)' = Begun(m, k) + 1 /\ Begun(m, k) \in Nat
    BY <2>2, <2>3, <2>4 DEF Begun
  <2>8. Rest(due'[m], registered'[m][e], Begun(m, k + 1)')
    BY <2>2, <2>3, <2>4, <2>7, RestPrepended
  <2>9. Position(K[m][e], registered[m][e], m, k + 1)'
    <3>1. /\ k + 1 \in 1 .. Len(K[m][e]) + 1
          /\ invoke'[m].at = Nth(K[m][e], k + 1)
      BY <2>2, <2>3, <2>4, <2>5, <2>6
    <3>2. invoke'[m].calling => k + 1 <= Len(K[m][e])
      BY <2>1, <2>2, <2>3, <2>6 DEF Position
    <3> QED
      BY <2>8, <3>1, <3>2 DEF Position, Rest
  <2>10. k + 1 \in Nat
    OBVIOUS
  <2> QED
    BY <1>2, <2>2, <2>9, <2>10 DEF Placed
<1> QED
  BY <1>1, <1>2

(* A handler takes out a callback that has been called, or is still due:   *)
(* the rest of the list is what is left to call.                           *)
LEMMA RemovePlaced ==
  ASSUME RInv, ~ RemovesWhileRaised,
         NEW L \in Families, NEW K \in Families, Shape(L), Subscribed(L),
         NEW m \in ModelDescriptors, NEW e \in Events,
         NEW d \in CallbackDescriptors, NEW k \in 1 .. Len(L[m][e]),
         MayRemove(m, e, d), Removed(K, L, m, e, d, k),
         NEW m2 \in ModelDescriptors, Placed(L, m2)
  PROVE  Placed(K, m2)'
<1>1. /\ invoke' = invoke
      /\ due' = [due EXCEPT ![m] = IF invoke[m].event = e
                                   THEN Without(@, d) ELSE @]
      /\ due \in [ModelDescriptors -> Seq(CallbackDescriptors)]
  BY DEF Removed, RInv, Plain, TypeOK
<1>2. CASE m2 # m \/ invoke[m2].event # e
  <2>1. \A e2 \in Events : invoke[m2].event = e2 =>
          K[m2][e2] = L[m2][e2] /\ registered'[m2][e2] = registered[m2][e2]
    BY <1>2 DEF Removed, SameBut
  <2>2. invoke'[m2] = invoke[m2] /\ due'[m2] = due[m2]
    BY <1>1, <1>2
  <2> QED
    BY <2>1, <2>2, SamePosition
<1>3. CASE m2 = m /\ invoke[m2].event = e
  <2>1. PICK i \in Nat : Position(L[m][e], registered[m][e], m, i)
    BY <1>3 DEF Placed
  <2>2. /\ Len(L[m][e]) \in Nat /\ Len(registered[m][e]) = Len(L[m][e])
        /\ due[m] \in Seq(CallbackDescriptors) /\ Len(due[m]) \in Nat
        /\ L[m][e] \in Seq(Nodes) /\ K[m][e] \in Seq(Nodes)
        /\ DOMAIN L[m][e] = 1 .. Len(L[m][e])
    BY RaisedTyped, FamilyTyped
  <2>3. invoke[m].calling /\ invoke[m].at # callbackMap[d]
    BY <1>3 DEF MayRemove
  <2>4. /\ i \in 1 .. Len(L[m][e]) /\ invoke[m].at = L[m][e][i]
        /\ Rest(due[m], registered[m][e], i)
    <3>1. /\ i \in 1 .. Len(L[m][e]) + 1 /\ i <= Len(L[m][e])
          /\ invoke[m].at = Nth(L[m][e], i)
          /\ Rest(due[m], registered[m][e], i)
      BY <2>1, <2>3 DEF Position, Begun
    <3>2. i \in 1 .. Len(L[m][e])
      BY <2>2, <3>1
    <3> QED
      BY <2>2, <3>1, <3>2 DEF Nth
  <2>5. /\ callbackMap[d] = L[m][e][k] /\ registered[m][e][k] = d
        /\ Dropped(K[m][e], L[m][e], k)
        /\ Dropped(registered'[m][e], registered[m][e], k)
        /\ due'[m] = Without(due[m], d)
    BY <1>1, <1>3 DEF Removed
  <2>6. i # k /\ Len(K[m][e]) = Len(L[m][e]) - 1
    BY <2>3, <2>4, <2>5 DEF Dropped
  <2>7. ASSUME NEW j \in 1 .. Len(due[m]), due[m][j] = d PROVE i + j = k
    <3>1. registered[m][e][i + j] = d /\ Len(due[m]) = Len(L[m][e]) - i
      BY <2>2, <2>4, <2>7 DEF Rest
    <3>2. i + j \in 1 .. Len(L[m][e])
      BY <2>2, <2>4, <3>1
    <3> QED
      BY <2>5, <3>1, <3>2, SameCallback
  <2>8. CASE k < i
    <3>1. due'[m] = due[m]
      <4>1. \A j \in 1 .. Len(due[m]) : due[m][j] # d
        <5> SUFFICES ASSUME NEW j \in 1 .. Len(due[m]), due[m][j] = d
                     PROVE  FALSE
          OBVIOUS
        <5>1. i + j = k
          BY <2>7
        <5> QED
          BY <2>2, <2>4, <2>8, <5>1
      <4>2. due[m] \in Seq(CallbackDescriptors)
        BY <2>2
      <4>3. Without(due[m], d) = due[m]
        BY <4>1, <4>2, WithoutDrops
      <4> QED
        BY <2>5, <4>3
    <3>2. Rest(due'[m], registered'[m][e], i - 1)
      <4>1. k \in 1 .. i
        BY <2>2, <2>8
      <4> QED
        BY <2>2, <2>4, <2>5, <3>1, <4>1, RestDroppedBefore
    <3>3. i - 1 \in 1 .. Len(K[m][e]) /\ i - 1 \in Nat \ {0}
      BY <2>2, <2>4, <2>6, <2>8
    <3>4. Nth(K[m][e], i - 1) = Nth(L[m][e], i)
      <4>1. ~ (i - 1 < k) /\ (i - 1) + 1 = i
        BY <2>2, <2>4, <2>8
      <4>2. /\ L[m][e] \in Seq(Nodes) /\ K[m][e] \in Seq(Nodes)
            /\ Dropped(K[m][e], L[m][e], k) /\ i - 1 \in Nat \ {0}
        BY <2>2, <2>5, <3>3
      <4>3. Nth(K[m][e], i - 1) = Nth(L[m][e], (i - 1) + 1)
        BY <4>1, <4>2, NthDropped
      <4> QED
        BY <4>1, <4>3
    <3>5. invoke'[m].at = Nth(K[m][e], i - 1)
      BY <1>1, <2>1, <3>4 DEF Position
    <3>6. Position(K[m][e], registered[m][e], m, i - 1)'
      <4>1. i - 1 \in 1 .. Len(K[m][e]) + 1 /\ i - 1 <= Len(K[m][e])
        BY <2>2, <2>6, <3>3
      <4>2. Begun(m, i - 1)' = i - 1
        BY <1>1, <2>3 DEF Begun
      <4> QED
        BY <3>2, <3>5, <4>1, <4>2 DEF Position, Rest
    <3> QED
      BY <1>1, <1>3, <3>3, <3>6 DEF Placed
  <2>9. CASE i < k
    <3>1. PICK j \in 1 .. Len(due[m]) :
            due[m][j] = d /\ Dropped(due'[m], due[m], j)
      <4>1. Len(due[m]) = Len(L[m][e]) - i
        BY <2>2, <2>4 DEF Rest
      <4>2. k - i \in 1 .. Len(due[m]) /\ i + (k - i) = k
        BY <2>2, <2>4, <2>9, <4>1
      <4>3. due[m][k - i] = d
        BY <2>4, <2>5, <4>2 DEF Rest
      <4>4. due[m] \in Seq(CallbackDescriptors)
        BY <2>2
      <4>5. \E j \in 1 .. Len(due[m]) :
              due[m][j] = d /\ Dropped(Without(due[m], d), due[m], j)
        BY <4>2, <4>3, <4>4, WithoutDrops
      <4> QED
        BY <2>5, <4>5
    <3>2. i + j = k
      BY <2>7, <3>1
    <3>3. Rest(due'[m], registered'[m][e], i)
      BY <2>2, <2>4, <2>5, <3>1, <3>2, RestDroppedWithin
    <3>4. i \in 1 .. Len(K[m][e]) /\ i \in Nat \ {0}
      BY <2>2, <2>4, <2>6, <2>9
    <3>5. invoke'[m].at = Nth(K[m][e], i)
      <4>1. Nth(K[m][e], i) = Nth(L[m][e], i)
        BY <2>2, <2>5, <2>9, <3>4, NthDropped
      <4> QED
        BY <1>1, <2>1, <4>1 DEF Position
    <3>6. Position(K[m][e], registered[m][e], m, i)'
      <4>1. i \in 1 .. Len(K[m][e]) + 1 /\ i <= Len(K[m][e])
        BY <2>2, <2>6, <3>4
      <4>2. Begun(m, i)' = i
        BY <1>1, <2>3 DEF Begun
      <4> QED
        BY <3>3, <3>5, <4>1, <4>2 DEF Position, Rest
    <3> QED
      BY <1>1, <1>3, <3>6 DEF Placed
  <2> QED
    BY <2>2, <2>4, <2>6, <2>8, <2>9
<1> QED
  BY <1>2, <1>3

(* The steps of the thread that raises the event.                          *)
LEMMA StartInvokePlaced ==
  ASSUME RInv, NEW L \in Families, Shape(L), Subscribed(L),
         NEW m \in ModelDescriptors, NEW e \in Events, StartInvoke(m, e)
  PROVE  Placed(L, m)'
<1>1. /\ invoke'[m] = [event |-> e, at |-> head[m][e], calling |-> FALSE]
      /\ due'[m] = registered[m][e] /\ registered' = registered
  BY DEF StartInvoke, RInv, Plain, TypeOK
<1>2. /\ Len(L[m][e]) \in Nat /\ Len(registered[m][e]) = Len(L[m][e])
  BY RaisedTyped
<1>3. Position(L[m][e], registered[m][e], m, 1)'
  <2>1. 1 \in 1 .. Len(L[m][e]) + 1
    BY <1>2
  <2>2. invoke'[m].at = Nth(L[m][e], 1) /\ ~ invoke'[m].calling
    BY <1>1 DEF Shape, Leads
  <2>3. Begun(m, 1)' = 0
    BY <1>1 DEF Begun
  <2>4. Rest(due'[m], registered'[m][e], 0)
    BY <1>1, <1>2 DEF Rest
  <2> QED
    BY <2>1, <2>2, <2>3, <2>4 DEF Position, Rest
<1> QED
  BY <1>1, <1>3 DEF Placed

LEMMA CallHandlerPlaced ==
  ASSUME RInv, NEW L \in Families, Shape(L), Subscribed(L),
         NEW m \in ModelDescriptors, CallHandler(m), Placed(L, m)
  PROVE  Placed(L, m)'
<1> SUFFICES ASSUME NEW e \in Events, invoke'[m].event = e
             PROVE  \E k \in Nat : Position(L[m][e], registered[m][e], m, k)'
  BY DEF Placed
<1>1. /\ invoke' = [invoke EXCEPT ![m].calling = TRUE]
      /\ due'[m] = Without(due[m], node[invoke[m].at].callback)
      /\ ~ invoke[m].calling /\ invoke[m].at # NoNode
      /\ registered' = registered
  BY DEF CallHandler, RInv, Plain, TypeOK
<1>2. /\ invoke'[m].event = invoke[m].event /\ invoke'[m].at = invoke[m].at
      /\ invoke'[m].calling
  BY <1>1 DEF RInv, Plain, TypeOK
<1>3. PICK k \in Nat : Position(L[m][e], registered[m][e], m, k)
  BY <1>2 DEF Placed
<1>4. /\ Len(L[m][e]) \in Nat /\ Len(registered[m][e]) = Len(L[m][e])
      /\ due[m] \in Seq(CallbackDescriptors) /\ Len(due[m]) \in Nat
      /\ DOMAIN L[m][e] = 1 .. Len(L[m][e])
  BY RaisedTyped, FamilyTyped
<1>5. /\ k \in 1 .. Len(L[m][e]) /\ invoke[m].at = L[m][e][k]
      /\ Rest(due[m], registered[m][e], k - 1)
  BY <1>1, <1>3, <1>4 DEF Position, Begun, Nth
<1>6. due'[m] = Without(due[m], registered[m][e][k])
  BY <1>1, <1>5 DEF Subscribed
<1>7. 1 \in 1 .. Len(due[m]) /\ due[m][1] = registered[m][e][k]
  <2>1. Len(due[m]) = Len(L[m][e]) - (k - 1)
    BY <1>4, <1>5 DEF Rest
  <2>2. 1 \in 1 .. Len(due[m]) /\ (k - 1) + 1 = k
    BY <1>4, <1>5, <2>1
  <2> QED
    BY <1>5, <2>2 DEF Rest
<1>8. PICK j \in 1 .. Len(due[m]) :
        due[m][j] = registered[m][e][k] /\ Dropped(due'[m], due[m], j)
  <2>1. \E j \in 1 .. Len(due[m]) :
          /\ due[m][j] = registered[m][e][k]
          /\ Dropped(Without(due[m], registered[m][e][k]), due[m], j)
    BY <1>4, <1>7, WithoutDrops
  <2> QED
    BY <1>6, <2>1
<1>9. j = 1
  <2>1. /\ registered[m][e][(k - 1) + j] = registered[m][e][k]
        /\ Len(due[m]) = Len(L[m][e]) - (k - 1)
    BY <1>4, <1>5, <1>8 DEF Rest
  <2>2. (k - 1) + j \in 1 .. Len(L[m][e])
    <3> DEFINE l == Len(L[m][e])
               n == Len(due[m])
    <3>1. l \in Nat /\ k \in 1 .. l /\ j \in 1 .. n /\ n = l - (k - 1)
      BY <1>4, <1>5, <2>1
    <3> HIDE DEF l, n
    <3>2. (k - 1) + j \in 1 .. l
      BY <3>1
    <3> QED
      BY <3>2 DEF l
  <2>3. (k - 1) + j = k
    BY <1>5, <2>1, <2>2, SameCallback
  <2> QED
    BY <2>3
<1>10. Rest(due'[m], registered'[m][e], k)
  <2>1. k - 1 \in Nat /\ (k - 1) + 1 = k
    BY <1>5
  <2>2. Rest(due'[m], registered[m][e], (k - 1) + 1)
    BY <1>4, <1>5, <1>8, <1>9, <2>1, RestWithoutFirst
  <2> QED
    BY <1>1, <2>1, <2>2
<1>11. Position(L[m][e], registered[m][e], m, k)'
  <2>1. Begun(m, k)' = k
    BY <1>2 DEF Begun
  <2>2. k \in 1 .. Len(L[m][e]) + 1 /\ k <= Len(L[m][e])
    BY <1>4, <1>5
  <2>3. invoke'[m].at = Nth(L[m][e], k)
    BY <1>2, <1>3 DEF Position
  <2> QED
    BY <1>10, <2>1, <2>2, <2>3 DEF Position, Rest
<1> QED
  BY <1>11

LEMMA HandlerReturnsPlaced ==
  ASSUME RInv, NEW L \in Families, Shape(L), Subscribed(L),
         NEW m \in ModelDescriptors, HandlerReturns(m), Placed(L, m)
  PROVE  Placed(L, m)'
<1> SUFFICES ASSUME NEW e \in Events, invoke'[m].event = e
             PROVE  \E k \in Nat : Position(L[m][e], registered[m][e], m, k)'
  BY DEF Placed
<1>1. PICK next \in Following(invoke[m].at) :
        invoke' = [invoke EXCEPT ![m].at = next, ![m].calling = FALSE]
  BY DEF HandlerReturns
<1>2. /\ invoke'[m].event = invoke[m].event /\ invoke'[m].at = next
      /\ ~ invoke'[m].calling /\ invoke[m].calling
      /\ due' = due /\ registered' = registered
  BY <1>1 DEF HandlerReturns, RInv, Plain, TypeOK
<1>3. PICK k \in Nat : Position(L[m][e], registered[m][e], m, k)
  BY <1>2 DEF Placed
<1>4. Len(L[m][e]) \in Nat /\ DOMAIN L[m][e] = 1 .. Len(L[m][e])
  BY FamilyTyped
<1>5. /\ k \in 1 .. Len(L[m][e]) /\ invoke[m].at = L[m][e][k]
      /\ Rest(due[m], registered[m][e], k)
  <2>1. /\ k \in 1 .. Len(L[m][e]) + 1 /\ k <= Len(L[m][e])
        /\ invoke[m].at = Nth(L[m][e], k)
        /\ Rest(due[m], registered[m][e], k)
    BY <1>2, <1>3 DEF Position, Begun
  <2>2. k \in 1 .. Len(L[m][e])
    BY <1>4, <2>1
  <2> QED
    BY <1>4, <2>1, <2>2 DEF Nth
<1>6. next = Nth(L[m][e], k + 1)
  <2>1. L[m][e][k] \in allocated
    <3>1. L[m][e][k] \in Nodes /\ InSome(L, L[m][e][k])
      BY <1>5, FamilyTyped DEF InSome
    <3> QED
      BY <3>1 DEF Shape, Owns
  <2>2. next = node[L[m][e][k]].next
    BY <1>1, <1>5, <2>1 DEF Following
  <2> QED
    BY <1>4, <1>5, <2>2 DEF Shape, Leads, Linked
<1>7. Position(L[m][e], registered[m][e], m, k + 1)'
  <2>1. Begun(m, k + 1)' = k
    BY <1>2, <1>5 DEF Begun
  <2>2. k + 1 \in 1 .. Len(L[m][e]) + 1
    BY <1>4, <1>5
  <2> QED
    BY <1>2, <1>5, <1>6, <2>1, <2>2 DEF Position, Rest
<1>8. k + 1 \in Nat
  OBVIOUS
<1> QED
  BY <1>7, <1>8

LEMMA QuietPlaced ==
  ASSUME RInv, NEW L \in Families, Shape(L), Subscribed(L),
         NEW m \in ModelDescriptors, Quiet(m),
         NEW m2 \in ModelDescriptors, Placed(L, m2)
  PROVE  Placed(L, m2)'
<1>1. CASE m2 = m /\ CallHandler(m)
  BY <1>1, CallHandlerPlaced
<1>2. CASE m2 = m /\ HandlerReturns(m)
  BY <1>2, HandlerReturnsPlaced
<1>3. CASE m2 = m /\ \E e \in Events : StartInvoke(m, e)
  BY <1>3, StartInvokePlaced
<1>4. CASE m2 = m /\ InvokeReturns(m)
  <2>1. invoke'[m] = Idle
    BY <1>4 DEF InvokeReturns, RInv, Plain, TypeOK
  <2> QED
    BY <1>4, <2>1, RegistryAssumption DEF Placed, Idle
<1>5. CASE m2 # m \/ CreateModel(m) \/ WSAStartupFails(m) \/ CleanupModel(m)
  <2>1. /\ invoke'[m2] = invoke[m2] /\ due'[m2] = due[m2]
        /\ registered' = registered
    <3>1. CASE CreateModel(m) \/ WSAStartupFails(m) \/ CleanupModel(m)
      BY <3>1 DEF CreateModel, WSAStartupFails, CleanupModel, vars
    <3>2. CASE m2 # m /\ CallHandler(m)
      BY <3>2 DEF CallHandler, RInv, Plain, TypeOK
    <3>3. CASE m2 # m /\ HandlerReturns(m)
      <4>1. PICK next \in Following(invoke[m].at) :
              invoke' = [invoke EXCEPT ![m].at = next, ![m].calling = FALSE]
        BY <3>3 DEF HandlerReturns
      <4> QED
        BY <3>3, <4>1 DEF HandlerReturns, RInv, Plain, TypeOK
    <3>4. CASE m2 # m /\ InvokeReturns(m)
      BY <3>4 DEF InvokeReturns, RInv, Plain, TypeOK
    <3>5. CASE m2 # m /\ \E e \in Events : StartInvoke(m, e)
      BY <3>5 DEF StartInvoke, RInv, Plain, TypeOK
    <3> QED
      BY <1>5, <3>1, <3>2, <3>3, <3>4, <3>5 DEF Quiet
  <2> QED
    BY <2>1, SamePosition
<1> QED
  BY <1>1, <1>2, <1>3, <1>4, <1>5 DEF Quiet

LEMMA DestroyPlaced ==
  ASSUME RInv, NEW L \in Families, NEW K \in Families,
         NEW m \in ModelDescriptors, ModelDestroyed(m),
         \A m2 \in ModelDescriptors, e \in Events :
           m2 # m => /\ K[m2][e] = L[m2][e]
                     /\ registered'[m2][e] = registered[m2][e],
         NEW m2 \in ModelDescriptors, Placed(L, m2)
  PROVE  Placed(K, m2)'
<1>1. invoke' = invoke /\ due' = due /\ invoke[m].event = NoEvent
  BY DEF ModelDestroyed, Idle
<1>2. \A e \in Events : invoke[m2].event = e =>
        K[m2][e] = L[m2][e] /\ registered'[m2][e] = registered[m2][e]
  BY <1>1, RegistryAssumption
<1> QED
  BY <1>1, <1>2, SamePosition

LEMMA InitPInv == Init => PInv
<1> SUFFICES ASSUME Init PROVE PInv
  OBVIOUS
<1>1. PICK L \in Families : Shape(L) /\ Subscribed(L)
  BY InitSInv DEF SInv
<1>2. \A m \in ModelDescriptors : Placed(L, m)
  BY RegistryAssumption DEF Init, Idle, Placed
<1> QED
  BY <1>1, <1>2, InitRInv DEF PInv

LEMMA NextPInv ==
  ~ StaleDescriptors /\ ~ RemovesWhileRaised /\ PInv /\ [Next]_vars => PInv'
<1> SUFFICES ASSUME ~ StaleDescriptors, ~ RemovesWhileRaised, PInv,
                    [Next]_vars
             PROVE  PInv'
  OBVIOUS
<1>1. RInv /\ RInv'
  BY NextRInv DEF PInv
<1>2. PICK L \in Families :
        Shape(L) /\ Subscribed(L) /\ \A m \in ModelDescriptors : Placed(L, m)
  BY DEF PInv
<1>3. CASE UNCHANGED vars
  <2>1. Shape(L)' /\ Subscribed(L)'
    BY <1>2, <1>3, SameShape, SameSubscribed DEF vars
  <2>2. ASSUME NEW m \in ModelDescriptors PROVE Placed(L, m)'
    <3>1. invoke' = invoke /\ due' = due /\ registered' = registered
      BY <1>3 DEF vars
    <3> QED
      BY <1>2, <3>1, SamePosition
  <2> QED
    BY <1>1, <2>1, <2>2 DEF PInv
<1>4. CASE Next /\ ~ UNCHANGED vars
  <2>1. PICK m \in ModelDescriptors :
          \/ Quiet(m) \/ ModelDestroyed(m)
          \/ \E e \in Events : AddEventHandler(m, e)
          \/ \E e \in Events, d \in CallbackDescriptors :
               RemoveEventHandler(m, e, d)
    BY <1>4, NextSplits
  <2>2. CASE Quiet(m)
    <3>1. Shape(L)' /\ Subscribed(L)'
      BY <1>2, <2>2, QuietSubscribed
    <3>2. \A m2 \in ModelDescriptors : Placed(L, m2)'
      BY <1>1, <1>2, <2>2, QuietPlaced
    <3> QED
      BY <1>1, <3>1, <3>2 DEF PInv
  <2>3. CASE ModelDestroyed(m)
    <3>1. PICK K \in Families :
            /\ Shape(K)' /\ Subscribed(K)'
            /\ \A m2 \in ModelDescriptors, e \in Events :
                 m2 # m => /\ K[m2][e] = L[m2][e]
                           /\ registered'[m2][e] = registered[m2][e]
      BY <1>1, <1>2, <2>3, DestroySubscribed
    <3>2. \A m2 \in ModelDescriptors : Placed(K, m2)'
      BY <1>1, <1>2, <2>3, <3>1, DestroyPlaced
    <3> QED
      BY <1>1, <3>1, <3>2 DEF PInv
  <2>4. ASSUME NEW e \in Events, AddEventHandler(m, e) PROVE PInv'
    <3>1. PICK K \in Families :
            Shape(K)' /\ Subscribed(K)' /\ Added(K, L, m, e)
      BY <1>1, <1>2, <1>4, <2>4, AddSubscribed
    <3>2. \A m2 \in ModelDescriptors : Placed(K, m2)'
      BY <1>1, <1>2, <3>1, AddPlaced
    <3> QED
      BY <1>1, <3>1, <3>2 DEF PInv
  <2>5. ASSUME NEW e \in Events, NEW d \in CallbackDescriptors,
               RemoveEventHandler(m, e, d)
        PROVE  PInv'
    <3>1. PICK K \in Families, k \in 1 .. Len(L[m][e]) :
            Shape(K)' /\ Subscribed(K)' /\ Removed(K, L, m, e, d, k)
      BY <1>1, <1>2, <1>4, <2>5, RemoveSubscribed
    <3>2. MayRemove(m, e, d)
      BY <2>5 DEF RemoveEventHandler
    <3>3. \A m2 \in ModelDescriptors : Placed(K, m2)'
      BY <1>1, <1>2, <3>1, <3>2, RemovePlaced
    <3> QED
      BY <1>1, <3>1, <3>3 DEF PInv
  <2> QED
    BY <2>1, <2>2, <2>3, <2>4, <2>5
<1> QED
  BY <1>3, <1>4

LEMMA Raising ==
  ASSUME ~ StaleDescriptors, ~ RemovesWhileRaised PROVE Spec => []PInv
BY InitPInv, NextPInv, PTL DEF Spec

(* What Invoke meets from its k-th node on is the rest of the list.        *)
LEMMA RestOfChain ==
  ASSUME NEW L \in Families, Shape(L), NEW m \in ModelDescriptors,
         NEW e \in Events, NEW k \in 1 .. Len(L[m][e]) + 1
  PROVE  /\ DOMAIN From(Nth(L[m][e], k)) = 1 .. Len(L[m][e]) - (k - 1)
         /\ \A i \in 1 .. Len(L[m][e]) - (k - 1) :
              From(Nth(L[m][e], k))[i] = L[m][e][(k - 1) + i]
<1> DEFINE l == Len(L[m][e])
           b == k - 1
           s == [i \in 1 .. l - b |-> L[m][e][b + i]]
<1>1. /\ l \in Nat /\ DOMAIN L[m][e] = 1 .. l
      /\ \A i \in 1 .. l : L[m][e][i] \in Nodes
  BY FamilyTyped
<1>2. b \in Nat /\ b <= l /\ l - b \in Nat /\ k = b + 1
  BY <1>1
<1>3. \A i \in 1 .. l - b : b + i \in 1 .. l
  BY <1>1, <1>2
<1>4. s \in Seq(Nodes) /\ Len(s) = l - b /\ DOMAIN s = 1 .. l - b
  <2>1. s \in [1 .. l - b -> Nodes]
    <3>1. \A i \in 1 .. l - b : L[m][e][b + i] \in Nodes
      BY <1>1, <1>3
    <3> QED
      BY <3>1
  <2> HIDE DEF l, b, s
  <2>2. s \in Seq(Nodes)
    BY <1>2, <2>1, SeqDef
  <2> QED
    BY <1>2, <2>1, <2>2, LenProperties
<1>5. \A i \in 1 .. l - b : s[i] = L[m][e][b + i]
  OBVIOUS
<1> HIDE DEF l, b, s
<1>6. \A i \in Nat \ {0} : Nth(s, i) = Nth(L[m][e], b + i)
  <2> SUFFICES ASSUME NEW i \in Nat \ {0}
               PROVE  Nth(s, i) = Nth(L[m][e], b + i)
    OBVIOUS
  <2>1. i \in 1 .. l - b <=> b + i \in 1 .. l
    BY <1>1, <1>2
  <2> QED
    BY <1>1, <1>4, <1>5, <2>1 DEF Nth
<1>7. IsInjective(s)
  <2> SUFFICES ASSUME NEW i \in 1 .. l - b, NEW j \in 1 .. l - b, s[i] = s[j]
               PROVE  i = j
    BY <1>4 DEF IsInjective
  <2>1. b + i \in 1 .. l /\ b + j \in 1 .. l /\ L[m][e][b + i] = L[m][e][b + j]
    BY <1>3, <1>5
  <2>2. b + i = b + j
    BY <2>1 DEF Shape, Apart, l
  <2> QED
    BY <1>2, <2>2
<1>8. Linked(node, s)
  <2> SUFFICES ASSUME NEW i \in 1 .. l - b
               PROVE  node[s[i]].next = Nth(s, i + 1)
    BY <1>4 DEF Linked
  <2>1. node[L[m][e][b + i]].next = Nth(L[m][e], (b + i) + 1)
    BY <1>1, <1>3 DEF Shape, Leads, Linked
  <2>2. i + 1 \in Nat \ {0} /\ b + (i + 1) = (b + i) + 1
    BY <1>2
  <2> QED
    BY <1>5, <1>6, <2>1, <2>2
<1>9. Nth(s, 1) = Nth(L[m][e], k)
  BY <1>2, <1>6
<1>10. From(Nth(L[m][e], k)) = s
  BY <1>4, <1>7, <1>8, <1>9, ChainIs DEF From
<1> QED
  BY <1>4, <1>5, <1>10 DEF l, b

(* Raising an event calls each callback that was there when it began and   *)
(* has not been removed since, once, and no other, if clients pass no      *)
(* descriptor of a model they have cleaned up, and remove none of an event *)
(* that is raised but while a handler runs, and not its own: what Invoke's *)
(* m_Next still leads to is what is left to call (InvokeReachesDue).       *)
THEOREM InvokeCallsDue ==
  ASSUME ~ StaleDescriptors, ~ RemovesWhileRaised
  PROVE  Spec => []InvokeReachesDue
<1>1. PInv => InvokeReachesDue
  <2> SUFFICES ASSUME PInv, NEW m \in models,
                      invoke[m].event # NoEvent, ~ invoke[m].calling
               PROVE  Callbacks(invoke[m].at) = due[m]
    BY DEF InvokeReachesDue
  <2> DEFINE e == invoke[m].event
  <2>1. PICK L \in Families :
          Shape(L) /\ Subscribed(L) /\ \A x \in ModelDescriptors : Placed(L, x)
    BY DEF PInv
  <2>2. RInv /\ m \in ModelDescriptors /\ e \in Events
    BY DEF PInv, RInv, Plain, TypeOK
  <2>3. PICK k \in Nat : Position(L[m][e], registered[m][e], m, k)
    BY <2>1, <2>2 DEF Placed
  <2>4. /\ k \in 1 .. Len(L[m][e]) + 1 /\ invoke[m].at = Nth(L[m][e], k)
        /\ Rest(due[m], registered[m][e], k - 1)
    BY <2>3 DEF Position, Begun
  <2>5. /\ Len(L[m][e]) \in Nat /\ Len(registered[m][e]) = Len(L[m][e])
        /\ due[m] \in Seq(CallbackDescriptors)
    BY <2>1, <2>2, RaisedTyped
  <2> HIDE DEF e
  <2> DEFINE s == From(invoke[m].at)
             n == Len(L[m][e]) - (k - 1)
  <2>6. DOMAIN s = 1 .. n /\ \A i \in 1 .. n : s[i] = L[m][e][(k - 1) + i]
    BY <2>1, <2>2, <2>4, RestOfChain
  <2>7. due[m] = [i \in 1 .. n |-> due[m][i]] /\ Len(due[m]) = n
    <3>1. Len(due[m]) = n
      BY <2>4, <2>5 DEF Rest
    <3> QED
      BY <2>5, <3>1, LenProperties
  <2>8. ASSUME NEW i \in 1 .. n PROVE node[s[i]].callback = due[m][i]
    <3>1. (k - 1) + i \in 1 .. Len(L[m][e])
      BY <2>4, <2>5
    <3>2. node[L[m][e][(k - 1) + i]].callback = registered[m][e][(k - 1) + i]
      BY <2>1, <2>2, <3>1 DEF Subscribed
    <3>3. due[m][i] = registered[m][e][(k - 1) + i]
      BY <2>4, <2>7 DEF Rest
    <3> QED
      BY <2>6, <3>2, <3>3
  <2>9. Callbacks(invoke[m].at) = [i \in 1 .. n |-> node[s[i]].callback]
    BY <2>6 DEF Callbacks
  <2> QED
    BY <2>7, <2>8, <2>9
<1> QED
  BY <1>1, Raising, PTL
=============================================================================
