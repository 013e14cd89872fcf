-------------------------- MODULE Continuity_proofs --------------------------
(***************************************************************************)
(* Proofs about the narrative order and continuity, for every number of    *)
(* sequences, scenes, shots, entities, features and relations: the order   *)
(* of the story is always sound, positions are contiguous, no boundary a   *)
(* transition hangs on goes away, what is active hangs on active rows, and *)
(* the winner a resolver finds is what the story tells when it is replayed *)
(* from its start.  Then about what reads the story: visual identity, where *)
(* what can be captured can be approved and an approved anchor leads to    *)
(* one complete revision; and worlds, staging and instances, where what a  *)
(* shot includes hangs together and resolves as a replay.                  *)
(***************************************************************************)
EXTENDS Visual, InstanceState, FiniteSetTheorems, SequenceTheorems, TLAPS

USE NarrativeAssumption, ContinuityAssumption DEF NarrativeAssumption, ContinuityAssumption

-----------------------------------------------------------------------------
(* Numbers and ranks.                                                      *)

\* A set of numbers has a least one: no shorter initial interval is among theirs.
LEMMA LeastNumber ==
    ASSUME NEW T \in SUBSET Nat, T # {}
    PROVE  \E m \in T : \A k \in T : m <= k
<1>1. PICK U : U = {1..n : n \in T}
  OBVIOUS
<1>2. U \subseteq FiniteSubsetsOf(Nat)
  <2> SUFFICES ASSUME NEW n \in T PROVE 1..n \in FiniteSubsetsOf(Nat)
    BY <1>1
  <2>1. IsFiniteSet(1..n) /\ 1..n \subseteq Nat
    BY FS_Interval
  <2> QED
    BY <2>1 DEF FiniteSubsetsOf
<1>3. IsWellFoundedOn(StrictSubsetOrdering(Nat), FiniteSubsetsOf(Nat))
  BY FS_StrictSubsetOrderingWellFounded
<1>4. U # {}
  BY <1>1
<1>5. PICK x \in U : \A y \in U : ~ (<<y, x>> \in StrictSubsetOrdering(Nat))
  BY <1>2, <1>3, <1>4, WFMin
<1>6. PICK m \in T : x = 1..m
  BY <1>1
<1>7. ASSUME NEW k \in T, k < m PROVE FALSE
  <2>1. 1..k \in U /\ 1..k \subseteq 1..m /\ m \in 1..m /\ m \notin 1..k
    BY <1>1, <1>7
  <2>2. <<1..k, 1..m>> \in StrictSubsetOrdering(Nat)
    BY <2>1 DEF StrictSubsetOrdering
  <2> QED
    BY <1>5, <1>6, <2>1, <2>2
<1> QED
  BY <1>7

Contiguous(table, members) ==
    {table[x].position : x \in members} = 0..(Cardinality(members) - 1)

Below(table, members, x) == {y \in members : table[y].position < table[x].position}

\* The members of a list that can be ordered.
Ordered(table, members) ==
    /\ IsFiniteSet(members) /\ \A x \in members : table[x].position \in Nat
    /\ Distinct(table, members)

\* Counting the members before each one numbers them 0, 1, ... in their order
\* (the row numbers of compact_active).
LEMMA RanksCount ==
    ASSUME NEW table, NEW members, Ordered(table, members)
    PROVE  /\ \A x \in members :
                Cardinality(Below(table, members, x)) \in 0..(Cardinality(members) - 1)
           /\ \A x, y \in members : table[x].position < table[y].position =>
                Cardinality(Below(table, members, x)) < Cardinality(Below(table, members, y))
           /\ \A x, y \in members :
                Cardinality(Below(table, members, x)) = Cardinality(Below(table, members, y)) => x = y
           /\ {Cardinality(Below(table, members, x)) : x \in members} = 0..(Cardinality(members) - 1)
<1>1. IsFiniteSet(members) /\ Cardinality(members) \in Nat
  BY FS_CardinalityType DEF Ordered
<1>2. ASSUME NEW x \in members
      PROVE  /\ IsFiniteSet(Below(table, members, x))
             /\ Cardinality(Below(table, members, x)) \in 0..(Cardinality(members) - 1)
  <2>1. PICK B : B = Below(table, members, x)
    OBVIOUS
  <2>2. B \in SUBSET members /\ x \notin B
    BY <1>2, <2>1 DEF Below, Ordered
  <2>3. IsFiniteSet(B) /\ Cardinality(B) <= Cardinality(members) /\ Cardinality(B) # Cardinality(members)
    BY <1>1, <2>2, FS_Subset
  <2>4. Cardinality(B) \in Nat
    BY <2>3, FS_CardinalityType
  <2> QED
    BY <1>1, <2>1, <2>3, <2>4
<1>3. ASSUME NEW x \in members, NEW y \in members, table[x].position < table[y].position
      PROVE  Cardinality(Below(table, members, x)) < Cardinality(Below(table, members, y))
  <2>1. PICK B, C : B = Below(table, members, x) /\ C = Below(table, members, y)
    OBVIOUS
  <2>2. B \in SUBSET C /\ x \in C /\ x \notin B
    BY <1>3, <2>1 DEF Below, Ordered
  <2>3. IsFiniteSet(C) /\ Cardinality(C) \in Nat /\ Cardinality(B) \in Nat
    BY <1>2, <2>1, FS_CardinalityType
  <2>4. Cardinality(B) <= Cardinality(C) /\ Cardinality(B) # Cardinality(C)
    BY <2>2, <2>3, FS_Subset
  <2> QED
    BY <2>1, <2>3, <2>4
<1>4. ASSUME NEW x \in members, NEW y \in members, x # y
      PROVE  Cardinality(Below(table, members, x)) # Cardinality(Below(table, members, y))
  <2>1. \/ table[x].position < table[y].position
        \/ table[y].position < table[x].position
    BY <1>4 DEF Ordered, Distinct
  <2>2. /\ Cardinality(Below(table, members, x)) \in Nat
        /\ Cardinality(Below(table, members, y)) \in Nat
    BY <1>2, <1>4
  <2> QED
    BY <1>3, <1>4, <2>1, <2>2
<1>5. {Cardinality(Below(table, members, x)) : x \in members} = 0..(Cardinality(members) - 1)
  <2>1. PICK n, f : /\ n = Cardinality(members)
                    /\ f = [x \in members |-> Cardinality(Below(table, members, x))]
    OBVIOUS
  <2>2. f \in Injection(members, 0..(n - 1))
    BY <1>2, <1>4, <2>1 DEF Injection, IsInjective
  <2> n \in Nat /\ 0 \in Int /\ n - 1 \in Int
    BY <1>1, <2>1
  <2>3. IsFiniteSet(0..(n - 1)) /\ Cardinality(0..(n - 1)) = n
    BY FS_Interval
  <2>4. f \in Surjection(members, 0..(n - 1))
    BY <2>1, <2>2, <2>3, FS_Injection
  <2>5. \A i \in 0..(n - 1) : \E x \in members : f[x] = i
    BY <2>4 DEF Surjection
  <2>6. /\ \A x \in members : f[x] = Cardinality(Below(table, members, x)) /\ f[x] \in 0..(n - 1)
    BY <1>2, <2>1
  <2>7. {Cardinality(Below(table, members, x)) : x \in members} = {f[x] : x \in members}
    BY <2>6
  <2>8. {f[x] : x \in members} = 0..(n - 1)
    BY <2>5, <2>6
  <2> QED
    BY <2>1, <2>7, <2>8
<1> QED
  BY <1>2, <1>3, <1>4, <1>5

\* ORDER BY position lists every member once.
LEMMA InOrderLists ==
    ASSUME NEW table, NEW members, Ordered(table, members)
    PROVE  /\ Cardinality(members) \in Nat
           /\ InOrder(table, members) \in [1..Cardinality(members) -> members]
           /\ IsInjective(InOrder(table, members))
           /\ ToSet(InOrder(table, members)) = members
<1>1. IsFiniteSet(members) /\ Cardinality(members) \in Nat
  BY FS_CardinalityType DEF Ordered
<1>2. PICK n, r : /\ n = Cardinality(members) /\ n \in Nat
                  /\ r = [x \in members |-> Cardinality(Below(table, members, x))]
  BY <1>1
<1> n \in Nat
  BY <1>2
<1>3. /\ \A x \in members : r[x] \in 0..(n - 1)
      /\ \A x, y \in members : table[x].position < table[y].position => r[x] < r[y]
      /\ \A x, y \in members : r[x] = r[y] => x = y
      /\ \A i \in 0..(n - 1) : \E x \in members : r[x] = i
  <2>1. /\ \A x \in members : r[x] = Cardinality(Below(table, members, x))
        /\ {Cardinality(Below(table, members, x)) : x \in members} = 0..(n - 1)
    BY <1>2, RanksCount
  <2>2. /\ \A x \in members : Cardinality(Below(table, members, x)) \in 0..(n - 1)
        /\ \A x, y \in members : table[x].position < table[y].position =>
             Cardinality(Below(table, members, x)) < Cardinality(Below(table, members, y))
        /\ \A x, y \in members :
             Cardinality(Below(table, members, x)) = Cardinality(Below(table, members, y)) => x = y
    BY <1>2, RanksCount
  <2>3. \A x \in members : r[x] \in 0..(n - 1)
    BY <2>1, <2>2
  <2>4. \A x, y \in members : table[x].position < table[y].position => r[x] < r[y]
    BY <2>1, <2>2
  <2>5. \A x, y \in members : r[x] = r[y] => x = y
    BY <2>1, <2>2
  <2>6. \A i \in 0..(n - 1) : \E x \in members : r[x] = i
    BY <2>1
  <2> QED
    BY <2>3, <2>4, <2>5, <2>6
<1>4. PICK L : L = [i \in 1..n |-> CHOOSE x \in members : r[x] = i - 1]
  OBVIOUS
<1>5. \A i \in 1..n : L[i] \in members /\ r[L[i]] = i - 1
  BY <1>3, <1>4
<1>6. L \in Injection(1..n, members)
  BY <1>4, <1>5 DEF Injection, IsInjective
<1>7. \A i, j \in DOMAIN L : i < j => table[L[i]].position <= table[L[j]].position
  <2> SUFFICES ASSUME NEW i \in 1..n, NEW j \in 1..n, i < j, table[L[j]].position < table[L[i]].position
               PROVE  FALSE
    <3>1. DOMAIN L = 1..n
      BY <1>4
    <3>2. \A i \in 1..n : table[L[i]].position \in Nat
      BY <1>5 DEF Ordered
    <3> QED
      BY <3>1, <3>2
  <2>1. r[L[j]] < r[L[i]]
    BY <1>3, <1>5
  <2> QED
    BY <1>5, <2>1
<1>8. PICK M : M = InOrder(table, members)
  OBVIOUS
<1>9. M \in Injection(1..n, members)
  BY <1>2, <1>6, <1>7, <1>8 DEF InOrder
<1>10. IsFiniteSet(1..n) /\ Cardinality(1..n) = n
  BY FS_Interval
<1>11. M \in Surjection(1..n, members)
  BY <1>1, <1>2, <1>9, <1>10, FS_Injection
<1>12. M \in [1..n -> members] /\ IsInjective(M)
  BY <1>9 DEF Injection
<1>13. \A x \in members : \E i \in 1..n : M[i] = x
  BY <1>11 DEF Surjection
<1>14. ToSet(M) = members
  BY <1>12, <1>13 DEF ToSet
<1> QED
  BY <1>2, <1>8, <1>12, <1>14

-----------------------------------------------------------------------------
(* Streams: sequences of blocks one after the other.                       *)

\* Two sequences one after the other hold what either holds, each once when
\* either does and they share nothing.
LEMMA ConcatJoins ==
    ASSUME NEW X, NEW s \in Seq(X), NEW t \in Seq(X)
    PROVE  /\ s \o t \in Seq(X)
           /\ ToSet(s \o t) = ToSet(s) \cup ToSet(t)
           /\ IsInjective(s) /\ IsInjective(t) /\ ToSet(s) \cap ToSet(t) = {} => IsInjective(s \o t)
<1>1. PICK u : u = s \o t
  OBVIOUS
<1>2. /\ u \in Seq(X) /\ Len(u) = Len(s) + Len(t)
      /\ \A i \in 1..(Len(s) + Len(t)) : u[i] = IF i <= Len(s) THEN s[i] ELSE t[i - Len(s)]
  BY <1>1, ConcatProperties
<1>3. /\ Len(s) \in Nat /\ Len(t) \in Nat
      /\ DOMAIN s = 1..Len(s) /\ DOMAIN t = 1..Len(t) /\ DOMAIN u = 1..(Len(s) + Len(t))
  BY <1>2, LenProperties
<1>4. /\ \A i \in DOMAIN s : i \in DOMAIN u /\ u[i] = s[i]
      /\ \A i \in DOMAIN t : i + Len(s) \in DOMAIN u /\ u[i + Len(s)] = t[i]
      /\ \A i \in DOMAIN u : \/ i \in DOMAIN s /\ u[i] = s[i]
                             \/ i - Len(s) \in DOMAIN t /\ u[i] = t[i - Len(s)]
  BY <1>2, <1>3
<1>5. ToSet(u) = ToSet(s) \cup ToSet(t)
  <2>1. \A x \in ToSet(u) : x \in ToSet(s) \cup ToSet(t)
    BY <1>4 DEF ToSet
  <2>2. \A x \in ToSet(s) \cup ToSet(t) : x \in ToSet(u)
    BY <1>4 DEF ToSet
  <2> QED
    BY <2>1, <2>2
<1>6. ASSUME IsInjective(s), IsInjective(t), ToSet(s) \cap ToSet(t) = {} PROVE IsInjective(u)
  <2> SUFFICES ASSUME NEW i \in DOMAIN u, NEW j \in DOMAIN u, u[i] = u[j] PROVE i = j
    BY DEF IsInjective
  <2>1. i \in Int /\ j \in Int /\ Len(s) \in Int
    BY <1>3
  <2>2. \/ i \in DOMAIN s /\ u[i] = s[i]
        \/ i - Len(s) \in DOMAIN t /\ u[i] = t[i - Len(s)]
    BY <1>4
  <2>3. \/ j \in DOMAIN s /\ u[j] = s[j]
        \/ j - Len(s) \in DOMAIN t /\ u[j] = t[j - Len(s)]
    BY <1>4
  <2>4. CASE i \in DOMAIN s /\ u[i] = s[i] /\ j \in DOMAIN s /\ u[j] = s[j]
    BY <1>6, <2>4 DEF IsInjective
  <2>5. CASE /\ i - Len(s) \in DOMAIN t /\ u[i] = t[i - Len(s)]
             /\ j - Len(s) \in DOMAIN t /\ u[j] = t[j - Len(s)]
    <3>1. i - Len(s) = j - Len(s)
      BY <1>6, <2>5 DEF IsInjective
    <3> QED
      BY <2>1, <3>1
  <2>6. CASE i \in DOMAIN s /\ u[i] = s[i] /\ j - Len(s) \in DOMAIN t /\ u[j] = t[j - Len(s)]
    <3>1. u[i] \in ToSet(s) /\ u[i] \in ToSet(t)
      BY <2>6 DEF ToSet
    <3> QED
      BY <1>6, <3>1
  <2>7. CASE j \in DOMAIN s /\ u[j] = s[j] /\ i - Len(s) \in DOMAIN t /\ u[i] = t[i - Len(s)]
    <3>1. u[j] \in ToSet(s) /\ u[j] \in ToSet(t)
      BY <2>7 DEF ToSet
    <3> QED
      BY <1>6, <3>1
  <2> QED
    BY <2>2, <2>3, <2>4, <2>5, <2>6, <2>7
<1> QED
  BY <1>1, <1>2, <1>5, <1>6

\* The blocks are read from the first to the m-th.
Joins(f, blocks, m) ==
    f = [i \in 1..m |-> IF i = 1 THEN blocks[i] ELSE f[i - 1] \o blocks[i]]

\* The recursion of FlattenSeq has a solution of every length: the shortest
\* length without one would extend a shorter solution.
LEMMA JoinsExist ==
    ASSUME NEW blocks, NEW n \in Nat
    PROVE  \E f : Joins(f, blocks, n)
<1>1. PICK T : T = {m \in Nat : ~\E f : Joins(f, blocks, m)}
  OBVIOUS
<1>2. T = {}
  <2> SUFFICES ASSUME T # {} PROVE FALSE
    OBVIOUS
  <2>1. T \in SUBSET Nat
    BY <1>1
  <2>2. PICK m \in T : \A k \in T : m <= k
    BY <2>1, LeastNumber
  <2>3. m \in Nat /\ ~\E f : Joins(f, blocks, m)
    BY <1>1
  <2>4. CASE m = 0
    <3>1. PICK f : f = [i \in 1..m |-> blocks[i]]
      OBVIOUS
    <3>2. [i \in 1..m |-> IF i = 1 THEN blocks[i] ELSE f[i - 1] \o blocks[i]] = [i \in 1..m |-> blocks[i]]
      BY <2>4
    <3>3. f = [i \in 1..m |-> IF i = 1 THEN blocks[i] ELSE f[i - 1] \o blocks[i]]
      BY <3>1, <3>2
    <3>4. Joins(f, blocks, m)
      BY <3>3 DEF Joins
    <3> QED
      BY <2>3, <3>4
  <2>5. CASE m # 0
    <3>1. m - 1 \in Nat /\ m - 1 \notin T
      BY <2>2, <2>3, <2>5
    <3>2. PICK f : Joins(f, blocks, m - 1)
      BY <1>1, <3>1
    <3>3. \A i \in 1..(m - 1) : f[i] = IF i = 1 THEN blocks[i] ELSE f[i - 1] \o blocks[i]
      BY <3>2 DEF Joins
    <3>4. PICK g : g = [i \in 1..m |-> IF i = 1 THEN blocks[i] ELSE f[i - 1] \o blocks[i]]
      OBVIOUS
    <3>5. \A i \in 1..(m - 1) : g[i] = f[i]
      BY <2>3, <3>3, <3>4
    <3>6. \A i \in 1..m : i # 1 => i - 1 \in 1..(m - 1)
      BY <2>3
    <3>7. \A i \in 1..m : i # 1 => g[i - 1] = f[i - 1]
      BY <3>5, <3>6
    <3>8. \A i \in 1..m : (IF i = 1 THEN blocks[i] ELSE f[i - 1] \o blocks[i])
                          = (IF i = 1 THEN blocks[i] ELSE g[i - 1] \o blocks[i])
      BY <3>7
    <3>9. g = [i \in 1..m |-> IF i = 1 THEN blocks[i] ELSE g[i - 1] \o blocks[i]]
      BY <3>4, <3>8
    <3> QED
      BY <2>3, <3>9 DEF Joins
  <2> QED
    BY <2>4, <2>5
<1> QED
  BY <1>1, <1>2

\* A flattened sequence of blocks holds what the blocks hold, each once when
\* every block does and no two of them share anything.
LEMMA FlattenCollects ==
    ASSUME NEW X, NEW n \in Nat, NEW blocks \in [1..n -> Seq(X)]
    PROVE  /\ FlattenSeq(blocks) \in Seq(X)
           /\ ToSet(FlattenSeq(blocks)) = UNION {ToSet(blocks[i]) : i \in 1..n}
           /\ /\ \A i \in 1..n : IsInjective(blocks[i])
              /\ \A i, j \in 1..n : i # j => ToSet(blocks[i]) \cap ToSet(blocks[j]) = {}
              => IsInjective(FlattenSeq(blocks))
<1>1. blocks \in Seq(Seq(X)) /\ Len(blocks) = n
  OBVIOUS
<1>2. CASE n = 0
  <2>1. FlattenSeq(blocks) = blocks
    BY <1>1, <1>2 DEF FlattenSeq
  <2>2. DOMAIN blocks = {} /\ blocks = << >>
    BY <1>2
  <2>3. << >> \in Seq(X)
    BY EmptySeq
  <2> QED
    BY <1>2, <2>1, <2>2, <2>3 DEF ToSet, IsInjective
<1>3. CASE n # 0
  <2>1. PICK f : f = CHOOSE g : Joins(g, blocks, n)
    OBVIOUS
  <2>2. Joins(f, blocks, n)
    BY <2>1, JoinsExist
  <2>3. FlattenSeq(blocks) = f[n]
    BY <1>1, <1>3, <2>1 DEF FlattenSeq, Joins
  <2>4. \A i \in 1..n : f[i] = IF i = 1 THEN blocks[i] ELSE f[i - 1] \o blocks[i]
    BY <2>2 DEF Joins
  <2> DEFINE Apart == /\ \A i \in 1..n : IsInjective(blocks[i])
                      /\ \A i, j \in 1..n : i # j => ToSet(blocks[i]) \cap ToSet(blocks[j]) = {}
             Good(m) == /\ f[m] \in Seq(X)
                        /\ ToSet(f[m]) = UNION {ToSet(blocks[i]) : i \in 1..m}
                        /\ Apart => IsInjective(f[m])
  <2>5. PICK T : T = {m \in 1..n : ~Good(m)}
    OBVIOUS
  <2>6. ASSUME NEW m \in 1..n, m # 1 => Good(m - 1) PROVE Good(m)
    <3>1. CASE m = 1
      <4>1. f[m] = blocks[1] /\ 1..m = {1}
        BY <2>4, <3>1
      <4> QED
        BY <3>1, <4>1
    <3>2. CASE m # 1
      <4>1. /\ m - 1 \in 1..n /\ 1..m = 1..(m - 1) \cup {m} /\ m \notin 1..(m - 1)
            /\ 1..(m - 1) \subseteq 1..n
        BY <3>2
      <4>2. Good(m - 1) /\ f[m] = f[m - 1] \o blocks[m] /\ blocks[m] \in Seq(X)
        BY <2>4, <2>6, <3>2
      <4>3. PICK a, b : a = f[m - 1] /\ b = blocks[m]
        OBVIOUS
      <4>4. a \in Seq(X) /\ b \in Seq(X)
        BY <4>2, <4>3
      <4>5. /\ a \o b \in Seq(X) /\ ToSet(a \o b) = ToSet(a) \cup ToSet(b)
            /\ IsInjective(a) /\ IsInjective(b) /\ ToSet(a) \cap ToSet(b) = {} => IsInjective(a \o b)
        BY <4>4, ConcatJoins
      <4> DEFINE Held(k) == UNION {ToSet(blocks[i]) : i \in 1..k}
      <4>6. {ToSet(blocks[i]) : i \in 1..m} = {ToSet(blocks[i]) : i \in 1..(m - 1)} \cup {ToSet(b)}
        BY <4>1, <4>3
      <4>a. Held(m) = Held(m - 1) \cup ToSet(b)
        BY <4>6
      <4>b. ToSet(a) = Held(m - 1)
        BY <4>2, <4>3
      <4> HIDE DEF Held
      <4>7. ToSet(f[m]) = Held(m)
        BY <4>2, <4>3, <4>5, <4>a, <4>b
      <4>8. ASSUME Apart PROVE ToSet(a) \cap ToSet(b) = {}
        <5>1. \A i \in 1..(m - 1) : ToSet(blocks[i]) \cap ToSet(b) = {}
          BY <4>1, <4>3, <4>8
        <5> QED
          BY <4>2, <4>3, <5>1
      <4>9. Apart => IsInjective(a) /\ IsInjective(b)
        BY <4>2, <4>3
      <4>c. f[m] \in Seq(X) /\ (Apart => IsInjective(f[m]))
        <5> HIDE DEF Apart
        <5> QED
          BY <4>2, <4>3, <4>5, <4>8, <4>9
      <4> QED
        BY <4>7, <4>c DEF Held
    <3> QED
      BY <3>1, <3>2
  <2>7. T = {}
    <3> SUFFICES ASSUME T # {} PROVE FALSE
      OBVIOUS
    <3> HIDE DEF Good
    <3>1. T \in SUBSET Nat
      BY <2>5
    <3>2. PICK m \in T : \A k \in T : m <= k
      BY <3>1, LeastNumber
    <3>3. m \in 1..n /\ ~Good(m)
      BY <2>5
    <3>4. m # 1 => m - 1 \in 1..n /\ m - 1 \notin T
      BY <3>2, <3>3
    <3>5. m # 1 => Good(m - 1)
      BY <2>5, <3>4
    <3> QED
      BY <2>6, <3>3, <3>5
  <2>8. Good(n)
    <3> HIDE DEF Good
    <3> QED
      BY <1>3, <2>5, <2>7, SMTT(30)
  <2> QED
    BY <2>3, <2>8
<1> QED
  BY <1>2, <1>3

-----------------------------------------------------------------------------
(* The canonical stream.                                                   *)

StreamItems == [kind : {"sequence", "scene", "shot"}, id : Sequence \cup Scene \cup Shot,
                side : {"start", "end"}]
Ends(kind, id) == {[kind |-> kind, id |-> id, side |-> side] : side \in {"start", "end"}}

Placed == {s \in Live(shots) : shots[s].scene # None}

\* What the stream of a sound topology holds.
BoundarySet ==
    (UNION {Ends("sequence", q) : q \in Live(sequences)})
    \cup (UNION {Ends("scene", c) : c \in Live(scenes)})
    \cup (UNION {Ends("shot", s) : s \in Placed})

TopologyType ==
    /\ project \in BOOLEAN
    /\ DOMAIN sequences \subseteq Sequence /\ DOMAIN scenes \subseteq Scene /\ DOMAIN shots \subseteq Shot
    /\ IsFiniteSet(DOMAIN sequences) /\ IsFiniteSet(DOMAIN scenes) /\ IsFiniteSet(DOMAIN shots)
    /\ sequences \in [DOMAIN sequences -> [position : Nat, live : BOOLEAN]]
    /\ scenes \in [DOMAIN scenes -> [sequence : DOMAIN sequences, position : Nat, live : BOOLEAN]]
    /\ shots \in [DOMAIN shots -> [scene : DOMAIN scenes \cup {None}, position : Nat, live : BOOLEAN,
                                   number : Nat \ {0}]]

\* The blocks B of the members, each without repetition and apart from the
\* others, put in a row in the members' order.
RowOfBlocks(X, table, members, B, row) ==
    /\ Ordered(table, members)
    /\ B \in [members -> Seq(X)]
    /\ \A x \in members : IsInjective(B[x])
    /\ \A x, y \in members : x # y => ToSet(B[x]) \cap ToSet(B[y]) = {}
    /\ row = [i \in DOMAIN InOrder(table, members) |-> B[InOrder(table, members)[i]]]

\* The blocks of the ordered members, one after the other, hold what the blocks hold.
LEMMA BlocksInOrder ==
    ASSUME NEW X, NEW table, NEW members, NEW B, NEW row,
           RowOfBlocks(X, table, members, B, row),
           NEW body, body = FlattenSeq(row)
    PROVE  /\ body \in Seq(X) /\ IsInjective(body)
           /\ ToSet(body) = UNION {ToSet(B[x]) : x \in members}
<1>0. /\ Ordered(table, members) /\ B \in [members -> Seq(X)]
      /\ \A x \in members : IsInjective(B[x])
      /\ \A x, y \in members : x # y => ToSet(B[x]) \cap ToSet(B[y]) = {}
  BY DEF RowOfBlocks
<1>1. PICK n \in Nat : n = Cardinality(members)
  BY <1>0, InOrderLists
<1>o. PICK order : order = InOrder(table, members)
  OBVIOUS
<1>2. /\ order \in [1..n -> members] /\ IsInjective(order) /\ ToSet(order) = members
  BY <1>0, <1>1, <1>o, InOrderLists
<1>3. PICK blocks : blocks = [i \in 1..n |-> B[order[i]]]
  OBVIOUS
<1>4. blocks = row
  BY <1>2, <1>3, <1>o DEF RowOfBlocks
<1>5. \A i \in 1..n : order[i] \in members /\ blocks[i] = B[order[i]]
  BY <1>2, <1>3
<1>6. blocks \in [1..n -> Seq(X)]
  BY <1>0, <1>3, <1>5
<1>7. \A i \in 1..n : IsInjective(blocks[i])
  BY <1>0, <1>5
<1>8. \A i, j \in 1..n : i # j => ToSet(blocks[i]) \cap ToSet(blocks[j]) = {}
  <2> SUFFICES ASSUME NEW i \in 1..n, NEW j \in 1..n, i # j
               PROVE  ToSet(blocks[i]) \cap ToSet(blocks[j]) = {}
    OBVIOUS
  <2>1. order[i] # order[j]
    BY <1>2 DEF IsInjective
  <2> QED
    BY <1>0, <1>5, <2>1
<1>9. /\ FlattenSeq(blocks) \in Seq(X) /\ IsInjective(FlattenSeq(blocks))
      /\ ToSet(FlattenSeq(blocks)) = UNION {ToSet(blocks[i]) : i \in 1..n}
  <2>1. /\ FlattenSeq(blocks) \in Seq(X)
        /\ ToSet(FlattenSeq(blocks)) = UNION {ToSet(blocks[i]) : i \in 1..n}
        /\ /\ \A i \in 1..n : IsInjective(blocks[i])
           /\ \A i, j \in 1..n : i # j => ToSet(blocks[i]) \cap ToSet(blocks[j]) = {}
           => IsInjective(FlattenSeq(blocks))
    BY <1>6, FlattenCollects, Zenon
  <2> QED
    BY <1>7, <1>8, <2>1, Zenon
<1>10. {ToSet(blocks[i]) : i \in 1..n} = {ToSet(B[x]) : x \in members}
  <2>1. \A x \in members : \E i \in 1..n : order[i] = x
    BY <1>2 DEF ToSet
  <2> QED
    BY <1>5, <2>1
<1> QED
  BY <1>4, <1>9, <1>10

\* The boundaries of a member around what it holds.
LEMMA AroundHolds ==
    ASSUME NEW X, NEW kind, NEW id, Ends(kind, id) \subseteq X,
           NEW inner \in Seq(X), IsInjective(inner), ToSet(inner) \cap Ends(kind, id) = {}
    PROVE  /\ Around(kind, id, inner) \in Seq(X) /\ IsInjective(Around(kind, id, inner))
           /\ ToSet(Around(kind, id, inner)) = Ends(kind, id) \cup ToSet(inner)
<1>1. PICK a, b : /\ a = [kind |-> kind, id |-> id, side |-> "start"]
                  /\ b = [kind |-> kind, id |-> id, side |-> "end"]
  OBVIOUS
<1>2. a # b /\ Ends(kind, id) = {a, b} /\ a \in X /\ b \in X
  <2>1. a.side = "start" /\ b.side = "end"
    BY <1>1
  <2>2. a \in Ends(kind, id) /\ b \in Ends(kind, id)
    BY <1>1 DEF Ends
  <2>3. Ends(kind, id) \subseteq {a, b}
    BY <1>1 DEF Ends
  <2> QED
    BY <2>1, <2>2, <2>3
<1>3. /\ <<a>> \in Seq(X) /\ IsInjective(<<a>>) /\ ToSet(<<a>>) = {a}
      /\ <<b>> \in Seq(X) /\ IsInjective(<<b>>) /\ ToSet(<<b>>) = {b}
  BY <1>2 DEF IsInjective, ToSet
<1>4. PICK p, q, t : p = <<a>> /\ q = <<b>> /\ t = p \o inner
  OBVIOUS
<1>5. t \in Seq(X) /\ ToSet(t) = {a} \cup ToSet(inner) /\ IsInjective(t)
  <2>1. p \in Seq(X) /\ ToSet(p) \cap ToSet(inner) = {} /\ IsInjective(p) /\ ToSet(p) = {a}
    BY <1>2, <1>3, <1>4
  <2>2. /\ p \o inner \in Seq(X) /\ ToSet(p \o inner) = ToSet(p) \cup ToSet(inner)
        /\ IsInjective(p) /\ IsInjective(inner) /\ ToSet(p) \cap ToSet(inner) = {}
              => IsInjective(p \o inner)
    BY <2>1, ConcatJoins
  <2> QED
    BY <1>4, <2>1, <2>2
<1>6. t \o q \in Seq(X) /\ ToSet(t \o q) = ToSet(t) \cup {b} /\ IsInjective(t \o q)
  <2>1. q \in Seq(X) /\ ToSet(t) \cap ToSet(q) = {} /\ IsInjective(q) /\ ToSet(q) = {b}
    BY <1>2, <1>3, <1>4, <1>5
  <2> QED
    BY <1>5, <2>1, ConcatJoins
<1>7. Around(kind, id, inner) = t \o q
  BY <1>1, <1>4 DEF Around
<1> QED
  BY <1>2, <1>5, <1>6, <1>7

\* A member that holds nothing has its two boundaries only.
LEMMA AroundNothing ==
    ASSUME NEW X, NEW kind, NEW id, Ends(kind, id) \subseteq X
    PROVE  /\ Around(kind, id, << >>) \in Seq(X) /\ IsInjective(Around(kind, id, << >>))
           /\ ToSet(Around(kind, id, << >>)) = Ends(kind, id)
<1>1. PICK e : e = << >>
  OBVIOUS
<1>2. e \in Seq(X) /\ IsInjective(e) /\ ToSet(e) = {}
  BY <1>1 DEF IsInjective, ToSet
<1>3. ToSet(e) \cap Ends(kind, id) = {}
  BY <1>2
<1>4. /\ Around(kind, id, e) \in Seq(X) /\ IsInjective(Around(kind, id, e))
      /\ ToSet(Around(kind, id, e)) = Ends(kind, id) \cup ToSet(e)
  <2>1. PICK inner \in Seq(X) : inner = e
    BY <1>2
  <2>2. IsInjective(inner) /\ ToSet(inner) \cap Ends(kind, id) = {}
    BY <1>2, <1>3, <2>1
  <2>3. /\ Around(kind, id, inner) \in Seq(X) /\ IsInjective(Around(kind, id, inner))
        /\ ToSet(Around(kind, id, inner)) = Ends(kind, id) \cup ToSet(inner)
    BY <2>2, AroundHolds
  <2> QED
    BY <2>1, <2>3
<1> QED
  BY <1>1, <1>2, <1>4

\* The ends of different members are different.
LEMMA EndsApart ==
    ASSUME NEW kind, NEW id, NEW other, NEW x, kind # other \/ id # x
    PROVE  Ends(kind, id) \cap Ends(other, x) = {}
<1> SUFFICES ASSUME NEW e \in Ends(kind, id), e \in Ends(other, x) PROVE FALSE
  OBVIOUS
<1>1. e.kind = kind /\ e.id = id /\ e.kind = other /\ e.id = x
  BY DEF Ends
<1> QED
  BY <1>1

\* The ends of what a table holds are items of the stream.
LEMMA EndsInStream ==
    ASSUME NEW kind \in {"sequence", "scene", "shot"}, NEW id \in Sequence \cup Scene \cup Shot
    PROVE  Ends(kind, id) \subseteq StreamItems
BY DEF Ends, StreamItems

\* Lists of the members of a sound topology.
LEMMA MembersOrdered ==
    ASSUME TopologyType, ~Corrupt
    PROVE  /\ Ordered(sequences, Live(sequences))
           /\ \A q \in Live(sequences) : Ordered(scenes, ScenesIn(q))
           /\ \A c \in Live(scenes) : Ordered(shots, ShotsIn(c))
<1>1. /\ Live(sequences) \in SUBSET DOMAIN sequences
      /\ \A q : ScenesIn(q) \in SUBSET DOMAIN scenes
      /\ \A c : ShotsIn(c) \in SUBSET DOMAIN shots
  BY DEF Live, ScenesIn, ShotsIn
<1>2. /\ IsFiniteSet(Live(sequences))
      /\ \A q : IsFiniteSet(ScenesIn(q))
      /\ \A c : IsFiniteSet(ShotsIn(c))
  BY <1>1, FS_Subset DEF TopologyType
<1>3. /\ \A x \in DOMAIN sequences : sequences[x].position \in Nat
      /\ \A x \in DOMAIN scenes : scenes[x].position \in Nat
      /\ \A x \in DOMAIN shots : shots[x].position \in Nat
  BY DEF TopologyType
<1> QED
  BY <1>1, <1>2, <1>3 DEF Ordered, Corrupt

\* A scene's stream holds its own ends and those of its shots, each once.
LEMMA SceneStreamHolds ==
    ASSUME TopologyType, ~Corrupt, NEW c \in Live(scenes)
    PROVE  /\ SceneStream(c) \in Seq(StreamItems) /\ IsInjective(SceneStream(c))
           /\ ToSet(SceneStream(c)) = Ends("scene", c) \cup (UNION {Ends("shot", s) : s \in ShotsIn(c)})
<1>1. Ordered(shots, ShotsIn(c)) /\ ShotsIn(c) \subseteq Shot /\ c \in Scene
  BY MembersOrdered DEF ShotsIn, Live, TopologyType
<1>2. PICK B : B = [s \in ShotsIn(c) |-> Around("shot", s, << >>)]
  OBVIOUS
<1>3. ASSUME NEW s \in ShotsIn(c)
      PROVE  B[s] \in Seq(StreamItems) /\ IsInjective(B[s]) /\ ToSet(B[s]) = Ends("shot", s)
  <2>1. Ends("shot", s) \subseteq StreamItems
    BY <1>1, <1>3, EndsInStream
  <2>2. /\ Around("shot", s, << >>) \in Seq(StreamItems) /\ IsInjective(Around("shot", s, << >>))
        /\ ToSet(Around("shot", s, << >>)) = Ends("shot", s)
    BY <2>1, AroundNothing
  <2> QED
    BY <1>2, <2>2
<1>4. PICK order : order = InOrder(shots, ShotsIn(c))
  OBVIOUS
<1>r. PICK row : row = [i \in DOMAIN order |-> B[order[i]]]
  OBVIOUS
<1>5. PICK body : body = FlattenSeq(row)
  OBVIOUS
<1>6. /\ body \in Seq(StreamItems) /\ IsInjective(body)
      /\ ToSet(body) = UNION {ToSet(B[s]) : s \in ShotsIn(c)}
  <2>1. \A x, y \in ShotsIn(c) : x # y => ToSet(B[x]) \cap ToSet(B[y]) = {}
    BY <1>3, EndsApart
  <2>2. B \in [ShotsIn(c) -> Seq(StreamItems)]
    BY <1>2, <1>3
  <2>3. \A s \in ShotsIn(c) : IsInjective(B[s])
    BY <1>3
  <2>4. RowOfBlocks(StreamItems, shots, ShotsIn(c), B, row)
    BY <1>1, <1>4, <1>r, <2>1, <2>2, <2>3 DEF RowOfBlocks
  <2> QED
    BY <1>5, <2>4, BlocksInOrder
<1>7. {ToSet(B[s]) : s \in ShotsIn(c)} = {Ends("shot", s) : s \in ShotsIn(c)}
  BY <1>3
<1>8. ToSet(body) = UNION {Ends("shot", s) : s \in ShotsIn(c)}
  BY <1>6, <1>7
<1>9. ToSet(body) \cap Ends("scene", c) = {}
  <2>1. \A s : Ends("shot", s) \cap Ends("scene", c) = {}
    BY EndsApart
  <2> QED
    BY <1>8, <2>1
<1>10. Ends("scene", c) \subseteq StreamItems
  BY <1>1, EndsInStream
<1>11. /\ Around("scene", c, body) \in Seq(StreamItems) /\ IsInjective(Around("scene", c, body))
       /\ ToSet(Around("scene", c, body)) = Ends("scene", c) \cup ToSet(body)
  BY <1>6, <1>9, <1>10, AroundHolds
<1>12. \A i \in DOMAIN order : order[i] \in ShotsIn(c)
  BY <1>1, <1>4, InOrderLists
<1>13. [i \in DOMAIN order |-> Around("shot", order[i], << >>)] = [i \in DOMAIN order |-> B[order[i]]]
  BY <1>2, <1>12
<1>14. SceneStream(c) = Around("scene", c, body)
  BY <1>4, <1>r, <1>5, <1>13 DEF SceneStream
<1> QED
  BY <1>8, <1>11, <1>14

SceneItems(c) == Ends("scene", c) \cup (UNION {Ends("shot", s) : s \in ShotsIn(c)})
SequenceItems(q) == Ends("sequence", q) \cup (UNION {SceneItems(c) : c \in ScenesIn(q)})

\* The item of a boundary names the member it bounds.
LEMMA ItemsName ==
    /\ \A kind, id : \A e \in Ends(kind, id) : e.kind = kind /\ e.id = id
    /\ \A c : \A e \in SceneItems(c) : \/ e.kind = "scene" /\ e.id = c
                                       \/ e.kind = "shot" /\ e.id \in ShotsIn(c)
    /\ \A q : \A e \in SequenceItems(q) :
          \/ e.kind = "sequence" /\ e.id = q
          \/ \E c \in ScenesIn(q) : \/ e.kind = "scene" /\ e.id = c
                                    \/ e.kind = "shot" /\ e.id \in ShotsIn(c)
<1>1. \A kind, id : \A e \in Ends(kind, id) : e.kind = kind /\ e.id = id
  BY DEF Ends
<1>2. \A c : \A e \in SceneItems(c) : \/ e.kind = "scene" /\ e.id = c
                                      \/ e.kind = "shot" /\ e.id \in ShotsIn(c)
  BY <1>1 DEF SceneItems
<1>3. ASSUME NEW q, NEW e \in SequenceItems(q)
      PROVE  \/ e.kind = "sequence" /\ e.id = q
             \/ \E c \in ScenesIn(q) : \/ e.kind = "scene" /\ e.id = c
                                       \/ e.kind = "shot" /\ e.id \in ShotsIn(c)
  <2>1. CASE e \in Ends("sequence", q)
    BY <1>1, <2>1
  <2>2. CASE \E c \in ScenesIn(q) : e \in SceneItems(c)
    BY <1>2, <2>2
  <2> QED
    BY <1>3, <2>1, <2>2 DEF SequenceItems
<1> QED
  BY <1>1, <1>2, <1>3

\* Items of different scenes, and of different sequences, are different.
LEMMA ItemsApart ==
    /\ \A c, d : c # d => SceneItems(c) \cap SceneItems(d) = {}
    /\ \A q, p : q # p => SequenceItems(q) \cap SequenceItems(p) = {}
<1>1. ASSUME NEW c, NEW d, c # d PROVE ShotsIn(c) \cap ShotsIn(d) = {}
  BY <1>1 DEF ShotsIn
<1>2. ASSUME NEW q, NEW p, q # p PROVE ScenesIn(q) \cap ScenesIn(p) = {}
  BY <1>2 DEF ScenesIn
<1>3. ASSUME NEW c, NEW d, c # d, NEW e \in SceneItems(c), e \in SceneItems(d) PROVE FALSE
  <2>1. /\ \/ e.kind = "scene" /\ e.id = c
           \/ e.kind = "shot" /\ e.id \in ShotsIn(c)
        /\ \/ e.kind = "scene" /\ e.id = d
           \/ e.kind = "shot" /\ e.id \in ShotsIn(d)
    BY <1>3, ItemsName
  <2> QED
    BY <1>1, <1>3, <2>1
<1>4. ASSUME NEW q, NEW p, q # p, NEW e \in SequenceItems(q), e \in SequenceItems(p) PROVE FALSE
  <2>1. /\ \/ e.kind = "sequence" /\ e.id = q
           \/ \E c \in ScenesIn(q) : \/ e.kind = "scene" /\ e.id = c
                                     \/ e.kind = "shot" /\ e.id \in ShotsIn(c)
        /\ \/ e.kind = "sequence" /\ e.id = p
           \/ \E c \in ScenesIn(p) : \/ e.kind = "scene" /\ e.id = c
                                     \/ e.kind = "shot" /\ e.id \in ShotsIn(c)
    BY <1>4, ItemsName
  <2>2. CASE e.kind = "sequence"
    BY <1>4, <2>1, <2>2
  <2>3. CASE e.kind # "sequence"
    <3>1. PICK c \in ScenesIn(q) : \/ e.kind = "scene" /\ e.id = c
                                   \/ e.kind = "shot" /\ e.id \in ShotsIn(c)
      BY <2>1, <2>3
    <3>2. PICK d \in ScenesIn(p) : \/ e.kind = "scene" /\ e.id = d
                                   \/ e.kind = "shot" /\ e.id \in ShotsIn(d)
      BY <2>1, <2>3
    <3>3. c # d
      BY <1>2, <1>4
    <3> QED
      BY <1>1, <3>1, <3>2, <3>3
  <2> QED
    BY <2>2, <2>3
<1> QED
  BY <1>3, <1>4

\* The stream of a sequence: its boundaries around those of its scenes.
LEMMA SequenceStreamHolds ==
    ASSUME TopologyType, ~Corrupt, NEW q \in Live(sequences)
    PROVE  /\ SequenceStream(q) \in Seq(StreamItems) /\ IsInjective(SequenceStream(q))
           /\ ToSet(SequenceStream(q)) = SequenceItems(q)
<1>1. Ordered(scenes, ScenesIn(q)) /\ ScenesIn(q) \subseteq Live(scenes) /\ q \in Sequence
  BY MembersOrdered DEF ScenesIn, Live, TopologyType
<1>2. PICK B : B = [c \in ScenesIn(q) |-> SceneStream(c)]
  OBVIOUS
<1>3. ASSUME NEW c \in ScenesIn(q)
      PROVE  B[c] \in Seq(StreamItems) /\ IsInjective(B[c]) /\ ToSet(B[c]) = SceneItems(c)
  BY <1>1, <1>2, SceneStreamHolds DEF SceneItems
<1>4. PICK order : order = InOrder(scenes, ScenesIn(q))
  OBVIOUS
<1>r. PICK row : row = [i \in DOMAIN order |-> B[order[i]]]
  OBVIOUS
<1>5. PICK body : body = FlattenSeq(row)
  OBVIOUS
<1>6. /\ body \in Seq(StreamItems) /\ IsInjective(body)
      /\ ToSet(body) = UNION {ToSet(B[c]) : c \in ScenesIn(q)}
  <2>1. \A x, y \in ScenesIn(q) : x # y => ToSet(B[x]) \cap ToSet(B[y]) = {}
    BY <1>3, ItemsApart
  <2>2. B \in [ScenesIn(q) -> Seq(StreamItems)]
    BY <1>2, <1>3
  <2>3. \A c \in ScenesIn(q) : IsInjective(B[c])
    BY <1>3
  <2>4. RowOfBlocks(StreamItems, scenes, ScenesIn(q), B, row)
    BY <1>1, <1>4, <1>r, <2>1, <2>2, <2>3 DEF RowOfBlocks
  <2> QED
    BY <1>5, <2>4, BlocksInOrder
<1>7. {ToSet(B[c]) : c \in ScenesIn(q)} = {SceneItems(c) : c \in ScenesIn(q)}
  BY <1>3
<1>8. ToSet(body) = UNION {SceneItems(c) : c \in ScenesIn(q)}
  BY <1>6, <1>7
<1>9. ToSet(body) \cap Ends("sequence", q) = {}
  <2>1. \A c : SceneItems(c) \cap Ends("sequence", q) = {}
    <3> SUFFICES ASSUME NEW c, NEW e \in SceneItems(c), e \in Ends("sequence", q) PROVE FALSE
      OBVIOUS
    <3>1. e.kind \in {"scene", "shot"} /\ e.kind = "sequence"
      BY ItemsName
    <3> QED
      BY <3>1
  <2> QED
    BY <1>8, <2>1
<1>10. Ends("sequence", q) \subseteq StreamItems
  BY <1>1, EndsInStream
<1>11. /\ Around("sequence", q, body) \in Seq(StreamItems) /\ IsInjective(Around("sequence", q, body))
       /\ ToSet(Around("sequence", q, body)) = Ends("sequence", q) \cup ToSet(body)
  BY <1>6, <1>9, <1>10, AroundHolds
<1>12. \A i \in DOMAIN order : order[i] \in ScenesIn(q)
  BY <1>1, <1>4, InOrderLists
<1>13. [i \in DOMAIN order |-> SceneStream(order[i])] = [i \in DOMAIN order |-> B[order[i]]]
  BY <1>2, <1>12
<1>14. SequenceStream(q) = Around("sequence", q, body)
  BY <1>4, <1>r, <1>5, <1>13 DEF SequenceStream
<1> QED
  BY <1>8, <1>11, <1>14 DEF SequenceItems

\* What a boundary of a sound topology bounds.
LEMMA BoundaryIs ==
    \A e : e \in BoundarySet <=>
        \/ \E q \in Live(sequences) : e \in Ends("sequence", q)
        \/ \E c \in Live(scenes) : e \in Ends("scene", c)
        \/ \E s \in Placed : e \in Ends("shot", s)
<1>1. PICK Q, C, S : /\ Q = {Ends("sequence", q) : q \in Live(sequences)}
                     /\ C = {Ends("scene", c) : c \in Live(scenes)}
                     /\ S = {Ends("shot", s) : s \in Placed}
  OBVIOUS
<1>2. BoundarySet = (UNION Q) \cup (UNION C) \cup (UNION S)
  BY <1>1 DEF BoundarySet
<1>3. \A e : (e \in UNION Q) <=> (\E q \in Live(sequences) : e \in Ends("sequence", q))
  BY <1>1
<1>4. \A e : (e \in UNION C) <=> (\E c \in Live(scenes) : e \in Ends("scene", c))
  BY <1>1
<1>5. \A e : (e \in UNION S) <=> (\E s \in Placed : e \in Ends("shot", s))
  BY <1>1
<1>6. \A e : e \in BoundarySet <=> e \in UNION Q \/ e \in UNION C \/ e \in UNION S
  BY <1>2
<1> QED
  BY <1>3, <1>4, <1>5, <1>6

\* The canonical stream of a sound topology holds the boundaries of every
\* active sequence, scene and placed shot, each once.
LEMMA StreamHolds ==
    ASSUME TopologyType, ~Corrupt
    PROVE  /\ Boundaries \in Seq(StreamItems) /\ IsInjective(Boundaries)
           /\ ToSet(Boundaries) = BoundarySet
<1>1. Ordered(sequences, Live(sequences))
  BY MembersOrdered
<1>2. PICK B : B = [q \in Live(sequences) |-> SequenceStream(q)]
  OBVIOUS
<1>3. ASSUME NEW q \in Live(sequences)
      PROVE  B[q] \in Seq(StreamItems) /\ IsInjective(B[q]) /\ ToSet(B[q]) = SequenceItems(q)
  BY <1>2, SequenceStreamHolds
<1>4. PICK order : order = InOrder(sequences, Live(sequences))
  OBVIOUS
<1>r. PICK row : row = [i \in DOMAIN order |-> B[order[i]]]
  OBVIOUS
<1>5. PICK body : body = FlattenSeq(row)
  OBVIOUS
<1>6. /\ body \in Seq(StreamItems) /\ IsInjective(body)
      /\ ToSet(body) = UNION {ToSet(B[q]) : q \in Live(sequences)}
  <2>1. \A x, y \in Live(sequences) : x # y => ToSet(B[x]) \cap ToSet(B[y]) = {}
    BY <1>3, ItemsApart
  <2>2. B \in [Live(sequences) -> Seq(StreamItems)]
    BY <1>2, <1>3
  <2>3. \A q \in Live(sequences) : IsInjective(B[q])
    BY <1>3
  <2>4. RowOfBlocks(StreamItems, sequences, Live(sequences), B, row)
    BY <1>1, <1>4, <1>r, <2>1, <2>2, <2>3 DEF RowOfBlocks
  <2> QED
    BY <1>5, <2>4, BlocksInOrder
<1>7. {ToSet(B[q]) : q \in Live(sequences)} = {SequenceItems(q) : q \in Live(sequences)}
  BY <1>3
<1>8. ToSet(body) = UNION {SequenceItems(q) : q \in Live(sequences)}
  BY <1>6, <1>7
<1>9. UNION {SequenceItems(q) : q \in Live(sequences)} = BoundarySet
  <2>1. ASSUME NEW q \in Live(sequences), NEW e \in SequenceItems(q) PROVE e \in BoundarySet
    <3>1. CASE e \in Ends("sequence", q)
      BY <3>1, BoundaryIs
    <3>2. ASSUME NEW c \in ScenesIn(q), e \in Ends("scene", c) PROVE e \in BoundarySet
      BY <3>2, BoundaryIs DEF ScenesIn
    <3>3. ASSUME NEW c \in ScenesIn(q), NEW s \in ShotsIn(c), e \in Ends("shot", s)
          PROVE  e \in BoundarySet
      <4>1. c \in Scene /\ s \in Live(shots) /\ shots[s].scene = c
        BY DEF ScenesIn, ShotsIn, Live, TopologyType
      <4>2. s \in Placed
        BY <4>1 DEF Placed
      <4> QED
        BY <3>3, <4>2, BoundaryIs
    <3> QED
      BY <2>1, <3>1, <3>2, <3>3 DEF SequenceItems, SceneItems
  <2>2. \A c \in Live(scenes) : scenes[c].sequence \in Live(sequences) /\ c \in ScenesIn(scenes[c].sequence)
    BY DEF Corrupt, ScenesIn
  <2>3. \A s \in Placed : shots[s].scene \in Live(scenes) /\ s \in ShotsIn(shots[s].scene)
    BY DEF Corrupt, Placed, ShotsIn
  <2>4. ASSUME NEW e, NEW q \in Live(sequences), e \in Ends("sequence", q)
        PROVE  e \in SequenceItems(q)
    BY <2>4 DEF SequenceItems
  <2>5. ASSUME NEW e, NEW c \in Live(scenes), e \in SceneItems(c)
        PROVE  e \in SequenceItems(scenes[c].sequence)
    BY <2>2, <2>5 DEF SequenceItems
  <2>6. ASSUME NEW e \in BoundarySet PROVE \E q \in Live(sequences) : e \in SequenceItems(q)
    <3>1. CASE \E q \in Live(sequences) : e \in Ends("sequence", q)
      BY <2>4, <3>1
    <3>2. CASE \E c \in Live(scenes) : e \in Ends("scene", c)
      BY <2>2, <2>5, <3>2 DEF SceneItems
    <3>3. CASE \E s \in Placed : e \in Ends("shot", s)
      <4>1. PICK s \in Placed : e \in Ends("shot", s)
        BY <3>3
      <4>2. e \in SceneItems(shots[s].scene) /\ shots[s].scene \in Live(scenes)
        BY <2>3, <4>1 DEF SceneItems
      <4> QED
        BY <2>2, <2>5, <4>2
    <3> QED
      BY <2>6, <3>1, <3>2, <3>3, BoundaryIs
  <2> QED
    BY <2>1, <2>6
<1>10. \A i \in DOMAIN order : order[i] \in Live(sequences)
  BY <1>1, <1>4, InOrderLists
<1>11. [i \in DOMAIN order |-> SequenceStream(order[i])] = [i \in DOMAIN order |-> B[order[i]]]
  BY <1>2, <1>10
<1>12. Boundaries = body
  BY <1>4, <1>r, <1>5, <1>11 DEF Boundaries
<1> QED
  BY <1>6, <1>8, <1>9, <1>12

-----------------------------------------------------------------------------
(* Positions.                                                              *)

\* An ordered set is counted, and is empty when its count is 0.
LEMMA MembersCount ==
    ASSUME NEW table, NEW members, Ordered(table, members)
    PROVE  Cardinality(members) \in Nat /\ (Cardinality(members) = 0 <=> members = {})
BY FS_CardinalityType, FS_EmptySet DEF Ordered

\* A new member comes after the others (next_position).
LEMMA AppendedInOrder ==
    ASSUME NEW table, NEW members, Ordered(table, members), Contiguous(table, members),
           NEW x, x \notin members, NEW T,
           \A y \in members : T[y].position = table[y].position,
           T[x].position = NextPosition(table, members)
    PROVE  /\ Ordered(T, members \cup {x}) /\ Contiguous(T, members \cup {x})
           /\ NextPosition(table, members) \in Nat
<1>1. PICK n \in Nat : n = Cardinality(members)
  BY MembersCount
<1>2. {table[y].position : y \in members} = 0..(n - 1)
  BY <1>1 DEF Contiguous
<1>3. NextPosition(table, members) = n
  <2>1. CASE members = {}
    BY <1>1, <2>1, MembersCount DEF NextPosition
  <2>2. CASE members # {}
    <3>1. n # 0
      BY <1>1, <2>2, MembersCount
    <3>2. n - 1 \in 0..(n - 1) /\ \A y \in 0..(n - 1) : n - 1 >= y
      BY <3>1
    <3>3. \A m \in 0..(n - 1) : (\A y \in 0..(n - 1) : m >= y) => m = n - 1
      BY <3>2
    <3>4. Max(0..(n - 1)) = n - 1
      BY <3>2, <3>3 DEF Max
    <3>5. NextPosition(table, members) = 1 + Max({table[y].position : y \in members})
      BY <2>2 DEF NextPosition
    <3>6. Max({table[y].position : y \in members}) = n - 1
      BY <1>2, <3>4
    <3> QED
      BY <3>5, <3>6
  <2> QED
    BY <2>1, <2>2
<1>4. IsFiniteSet(members \cup {x}) /\ Cardinality(members \cup {x}) = n + 1
  BY <1>1, FS_AddElement DEF Ordered
<1>5. \A y \in members : T[y].position \in 0..(n - 1) /\ T[y].position = table[y].position
  BY <1>2
<1>6. T[x].position = n
  BY <1>3
<1>7. Ordered(T, members \cup {x})
  <2>1. \A y \in members \cup {x} : T[y].position \in Nat
    BY <1>5, <1>6
  <2>2. \A y, z \in members : T[y].position = T[z].position => y = z
    BY <1>5 DEF Ordered, Distinct
  <2>3. \A y \in members : T[y].position # T[x].position
    BY <1>5, <1>6
  <2> QED
    BY <1>4, <2>1, <2>2, <2>3 DEF Ordered, Distinct
<1>8. {T[y].position : y \in members \cup {x}} = 0..n
  <2>1. {T[y].position : y \in members} = {table[y].position : y \in members}
    BY <1>5
  <2>2. {T[y].position : y \in members \cup {x}} = {T[y].position : y \in members} \cup {n}
    BY <1>6
  <2>3. 0..n = 0..(n - 1) \cup {n}
    OBVIOUS
  <2> QED
    BY <1>2, <2>1, <2>2, <2>3
<1>9. Cardinality(members \cup {x}) - 1 = n
  BY <1>4
<1>10. Contiguous(T, members \cup {x})
  BY <1>8, <1>9 DEF Contiguous
<1> QED
  BY <1>3, <1>7, <1>10

\* Numbering the members by rank leaves no gap (compact_active).
LEMMA CompactedInOrder ==
    ASSUME NEW table, NEW members, Ordered(table, members), NEW T,
           \A x \in members : T[x].position = Cardinality(Below(table, members, x))
    PROVE  Ordered(T, members) /\ Contiguous(T, members)
<1>1. PICK r : r = [x \in members |-> Cardinality(Below(table, members, x))]
  OBVIOUS
<1>2. /\ \A x \in members : Cardinality(Below(table, members, x)) \in 0..(Cardinality(members) - 1)
      /\ \A x, y \in members :
             Cardinality(Below(table, members, x)) = Cardinality(Below(table, members, y)) => x = y
      /\ {Cardinality(Below(table, members, x)) : x \in members} = 0..(Cardinality(members) - 1)
  BY RanksCount
<1>3. {T[x].position : x \in members} = {Cardinality(Below(table, members, x)) : x \in members}
  OBVIOUS
<1>4. Cardinality(members) \in Nat
  BY MembersCount
<1>5. \A x \in members : T[x].position \in Nat
  BY <1>2, <1>4
<1> QED
  BY <1>2, <1>3, <1>5 DEF Ordered, Contiguous, Distinct

\* Numbering the members by their place in a list of them leaves no gap
\* (reorder_full_set, replace_scene_shots).
LEMMA ListedInOrder ==
    ASSUME NEW X, NEW list \in Seq(X), IsInjective(list), NEW T,
           \A x \in ToSet(list) : T[x].position = (CHOOSE i \in DOMAIN list : list[i] = x) - 1
    PROVE  Ordered(T, ToSet(list)) /\ Contiguous(T, ToSet(list))
<1>1. PICK n \in Nat : n = Len(list)
  OBVIOUS
<1>2. DOMAIN list = 1..n
  BY <1>1, LenProperties
<1>3. PICK members : members = ToSet(list)
  OBVIOUS
<1>4. \A i \in 1..n : list[i] \in members /\ T[list[i]].position = i - 1
  <2> SUFFICES ASSUME NEW i \in 1..n PROVE list[i] \in members /\ T[list[i]].position = i - 1
    OBVIOUS
  <2>1. list[i] \in members
    BY <1>2, <1>3 DEF ToSet
  <2>2. \A j \in DOMAIN list : list[j] = list[i] => j = i
    BY <1>2 DEF IsInjective
  <2>3. (CHOOSE j \in DOMAIN list : list[j] = list[i]) = i
    BY <1>2, <2>2
  <2> QED
    BY <1>3, <2>1, <2>3
<1>5. \A x \in members : \E i \in 1..n : list[i] = x
  BY <1>2, <1>3 DEF ToSet
<1>6. IsFiniteSet(members) /\ Cardinality(members) = n
  <2>1. list \in [1..n -> members]
    BY <1>1, <1>2, <1>4, LenProperties
  <2>2. list \in Injection(1..n, members) /\ list \in Surjection(1..n, members)
    BY <1>5, <2>1 DEF Injection, Surjection
  <2>3. IsFiniteSet(1..n) /\ Cardinality(1..n) = n
    BY FS_Interval
  <2> QED
    BY <2>2, <2>3, FS_Surjection
<1>7. {T[x].position : x \in members} = 0..(n - 1)
  <2>1. ASSUME NEW x \in members PROVE T[x].position \in 0..(n - 1)
    <3>1. PICK i \in 1..n : list[i] = x
      BY <1>5
    <3>2. T[x].position = i - 1
      BY <1>4, <3>1
    <3> QED
      BY <3>2
  <2>2. ASSUME NEW p \in 0..(n - 1) PROVE \E x \in members : p = T[x].position
    <3>1. p + 1 \in 1..n /\ (p + 1) - 1 = p
      OBVIOUS
    <3>2. list[p + 1] \in members /\ T[list[p + 1]].position = p
      BY <1>4, <3>1
    <3> QED
      BY <3>2
  <2> QED
    BY <2>1, <2>2
<1>8. Distinct(T, members)
  <2> SUFFICES ASSUME NEW x \in members, NEW y \in members, T[x].position = T[y].position
               PROVE  x = y
    BY DEF Distinct
  <2>1. PICK i \in 1..n : list[i] = x
    BY <1>5
  <2>2. PICK j \in 1..n : list[j] = y
    BY <1>5
  <2>3. i - 1 = j - 1
    BY <1>4, <2>1, <2>2
  <2> QED
    BY <2>1, <2>2, <2>3
<1>9. \A x \in members : T[x].position \in Nat
  BY <1>4, <1>5
<1> QED
  BY <1>3, <1>6, <1>7, <1>8, <1>9 DEF Ordered, Contiguous

\* Members whose positions stay as they are stay in order.
LEMMA SameInOrder ==
    ASSUME NEW table, NEW members, NEW T,
           \A x \in members : T[x].position = table[x].position
    PROVE  /\ Ordered(table, members) => Ordered(T, members)
           /\ Contiguous(table, members) => Contiguous(T, members)
<1>1. {T[x].position : x \in members} = {table[x].position : x \in members}
  OBVIOUS
<1> QED
  BY <1>1 DEF Ordered, Contiguous, Distinct

\* No members are in order.
LEMMA NoneInOrder ==
    \A T : Ordered(T, {}) /\ Contiguous(T, {})
<1>1. IsFiniteSet({}) /\ Cardinality({}) = 0
  BY FS_EmptySet
<1> QED
  BY <1>1 DEF Ordered, Contiguous, Distinct

-----------------------------------------------------------------------------
(* The inductive invariant: the topology.  Each part is about a table and  *)
(* the one above it.                                                       *)

In(sc, q) == {c \in Live(sc) : sc[c].sequence = q}
Of(sh, c) == {s \in Live(sh) : sh[s].scene = c}

SequencesOK(sq) ==
    /\ DOMAIN sq \subseteq Sequence /\ IsFiniteSet(DOMAIN sq)
    /\ sq \in [DOMAIN sq -> [position : Nat, live : BOOLEAN]]
    /\ Ordered(sq, Live(sq)) /\ Contiguous(sq, Live(sq))

ScenesOK(sq, sc) ==
    /\ DOMAIN sc \subseteq Scene /\ IsFiniteSet(DOMAIN sc)
    /\ sc \in [DOMAIN sc -> [sequence : DOMAIN sq, position : Nat, live : BOOLEAN]]
    /\ \A c \in Live(sc) : sc[c].sequence \in Live(sq)
    /\ \A q \in Live(sq) : Ordered(sc, In(sc, q)) /\ Contiguous(sc, In(sc, q))

ShotsOK(sc, sh) ==
    /\ DOMAIN sh \subseteq Shot /\ IsFiniteSet(DOMAIN sh)
    /\ sh \in [DOMAIN sh -> [scene : DOMAIN sc \cup {None}, position : Nat, live : BOOLEAN,
                             number : Nat \ {0}]]
    /\ \A s \in Live(sh) : sh[s].scene # None => sh[s].scene \in Live(sc)
    /\ \A c \in Live(sc) : Ordered(sh, Of(sh, c))

TopologyInv ==
    /\ project \in BOOLEAN
    /\ SequencesOK(sequences) /\ ScenesOK(sequences, scenes) /\ ShotsOK(scenes, shots)

\* The invariant says that the topology is sound, and contiguous.
LEMMA TopologyHolds ==
    ASSUME TopologyInv
    PROVE  TopologyType /\ OrderingSound /\ PositionsContiguous /\ NarrativeTypeOK
<1>1. TopologyType
  BY DEF TopologyInv, SequencesOK, ScenesOK, ShotsOK, TopologyType
<1>2. /\ \A q : In(scenes, q) = ScenesIn(q)
      /\ \A c : Of(shots, c) = ShotsIn(c)
  BY DEF In, Of, ScenesIn, ShotsIn
<1>3. OrderingSound
  BY <1>2 DEF TopologyInv, SequencesOK, ScenesOK, ShotsOK, OrderingSound, Corrupt, Ordered
<1>4. PositionsContiguous
  BY <1>2 DEF TopologyInv, SequencesOK, ScenesOK, PositionsContiguous, Contiguous
<1>5. NarrativeTypeOK
  BY <1>1 DEF TopologyType, NarrativeTypeOK
<1> QED
  BY <1>1, <1>3, <1>4, <1>5

\* The greatest of a finite set of numbers.
LEMMA MaxIsGreatest ==
    ASSUME NEW S \in SUBSET Nat, IsFiniteSet(S), S # {}
    PROVE  Max(S) \in S /\ \A n \in S : n <= Max(S)
<1>1. PICK T : T = [n \in S |-> [position |-> n]]
  OBVIOUS
<1>2. \A n \in S : T[n].position = n
  BY <1>1
<1>3. Ordered(T, S)
  BY <1>2 DEF Ordered, Distinct
<1>4. Cardinality(S) \in Nat /\ Cardinality(S) # 0
  BY FS_CardinalityType, FS_EmptySet
<1>5. /\ \A n \in S : Cardinality(Below(T, S, n)) \in 0..(Cardinality(S) - 1)
      /\ \A n, k \in S : T[n].position < T[k].position =>
             Cardinality(Below(T, S, n)) < Cardinality(Below(T, S, k))
      /\ {Cardinality(Below(T, S, n)) : n \in S} = 0..(Cardinality(S) - 1)
  BY <1>3, RanksCount
<1>6. Cardinality(S) - 1 \in 0..(Cardinality(S) - 1)
  BY <1>4
<1>7. PICK m \in S : Cardinality(Below(T, S, m)) = Cardinality(S) - 1
  BY <1>5, <1>6
<1>8. \A n \in S : m >= n
  <2> SUFFICES ASSUME NEW n \in S, ~(m >= n) PROVE FALSE
    OBVIOUS
  <2>1. T[m].position < T[n].position
    BY <1>2
  <2>2. Cardinality(Below(T, S, m)) < Cardinality(Below(T, S, n))
    BY <1>5, <2>1
  <2>3. Cardinality(Below(T, S, n)) \in 0..(Cardinality(S) - 1)
    BY <1>5
  <2> QED
    BY <1>4, <1>7, <2>2, <2>3
<1> QED
  BY <1>8 DEF Max

\* A table of rows, with one more.
LEMMA WithTyped ==
    ASSUME NEW R, NEW table, table \in [DOMAIN table -> R], NEW x, NEW row \in R, x \notin DOMAIN table
    PROVE  With(table, x, row) \in [DOMAIN table \cup {x} -> R]
BY DEF With

\* create_sequence.
LEMMA CreateSequenceOK ==
    ASSUME NEW sq, NEW sc, SequencesOK(sq), ScenesOK(sq, sc), NEW q \in Sequence, q \notin DOMAIN sq,
           NEW T, T = With(sq, q, [position |-> NextPosition(sq, Live(sq)), live |-> TRUE])
    PROVE  SequencesOK(T) /\ ScenesOK(T, sc)
<1>1. PICK row : row = [position |-> NextPosition(sq, Live(sq)), live |-> TRUE]
  OBVIOUS
<1>2. row.live = TRUE /\ row.position = NextPosition(sq, Live(sq))
  BY <1>1
<1>3. /\ DOMAIN T = DOMAIN sq \cup {q} /\ T[q] = row
      /\ \A y \in DOMAIN sq : T[y] = sq[y]
      /\ row \in [position : Nat, live : BOOLEAN] => T \in [DOMAIN T -> [position : Nat, live : BOOLEAN]]
      /\ IsFiniteSet(DOMAIN T)
      /\ Live(T) = Live(sq) \cup {q}
  <2>1. T = With(sq, q, row) /\ IsFiniteSet(DOMAIN sq) /\ sq \in [DOMAIN sq -> [position : Nat, live : BOOLEAN]]
    BY <1>1 DEF SequencesOK
  <2>a. DOMAIN T = DOMAIN sq \cup {q}
    BY <2>1 DEF With
  <2>b. T[q] = row /\ \A y \in DOMAIN sq : T[y] = sq[y]
    BY <2>1 DEF With
  <2>2. Live(T) = Live(sq) \cup {q}
    BY <1>2, <2>a, <2>b DEF Live
  <2>3. row \in [position : Nat, live : BOOLEAN] =>
           With(sq, q, row) \in [DOMAIN sq \cup {q} -> [position : Nat, live : BOOLEAN]]
    BY <2>1, WithTyped
  <2>4. IsFiniteSet(DOMAIN T)
    BY <2>1, <2>a, FS_AddElement
  <2> QED
    BY <1>2, <2>1, <2>2, <2>3, <2>4, <2>a, <2>b
<1>4. Live(sq) \subseteq DOMAIN sq /\ q \notin Live(sq)
  BY DEF Live
<1>5. /\ Ordered(T, Live(T)) /\ Contiguous(T, Live(T))
      /\ NextPosition(sq, Live(sq)) \in Nat
  <2>1. \A y \in Live(sq) : T[y].position = sq[y].position
    BY <1>3, <1>4
  <2>2. T[q].position = NextPosition(sq, Live(sq))
    BY <1>2, <1>3
  <2>3. Ordered(sq, Live(sq)) /\ Contiguous(sq, Live(sq))
    BY DEF SequencesOK
  <2>4. /\ Ordered(T, Live(sq) \cup {q}) /\ Contiguous(T, Live(sq) \cup {q})
        /\ NextPosition(sq, Live(sq)) \in Nat
    BY <1>4, <2>1, <2>2, <2>3, AppendedInOrder
  <2> QED
    BY <1>3, <2>4
<1>6. row \in [position : Nat, live : BOOLEAN]
  BY <1>1, <1>5
<1>7. T \in [DOMAIN T -> [position : Nat, live : BOOLEAN]]
  BY <1>3, <1>6
<1>8. SequencesOK(T)
  BY <1>3, <1>5, <1>7 DEF SequencesOK
<1>9. ScenesOK(T, sc)
  <2>1. In(sc, q) = {}
    BY <1>4 DEF In, ScenesOK
  <2>2. sc \in [DOMAIN sc -> [sequence : DOMAIN T, position : Nat, live : BOOLEAN]]
    BY <1>3 DEF ScenesOK
  <2>3. \A c \in Live(sc) : sc[c].sequence \in Live(T)
    BY <1>3 DEF ScenesOK
  <2>4. \A p \in Live(T) : Ordered(sc, In(sc, p)) /\ Contiguous(sc, In(sc, p))
    <3> SUFFICES ASSUME NEW p \in Live(T)
                 PROVE  Ordered(sc, In(sc, p)) /\ Contiguous(sc, In(sc, p))
      OBVIOUS
    <3>1. CASE p = q
      BY <2>1, <3>1, NoneInOrder, Zenon
    <3>2. CASE p # q
      <4>1. p \in Live(sq)
        BY <1>3, <3>2
      <4> QED
        BY <4>1 DEF ScenesOK
    <3> QED
      BY <3>1, <3>2
  <2> QED
    BY <2>2, <2>3, <2>4 DEF ScenesOK
<1> QED
  BY <1>8, <1>9

\* Fewer members are in order too.
LEMMA FewerInOrder ==
    ASSUME NEW table, NEW members, Ordered(table, members), NEW M \in SUBSET members
    PROVE  Ordered(table, M)
BY FS_Subset DEF Ordered, Distinct

\* delete_sequence.
LEMMA DeleteSequenceOK ==
    ASSUME NEW sq, NEW sc, SequencesOK(sq), ScenesOK(sq, sc), NEW q \in Live(sq), In(sc, q) = {},
           NEW T, T = CompactActive(Tombstone(sq, q), Live(sq) \ {q})
    PROVE  SequencesOK(T) /\ ScenesOK(T, sc) /\ Live(T) = Live(sq) \ {q}
<1> DEFINE R == [position : Nat, live : BOOLEAN]
<1>1. PICK M, D : M = Live(sq) \ {q} /\ D = Tombstone(sq, q)
  OBVIOUS
<1>2. Live(sq) \subseteq DOMAIN sq /\ M \subseteq Live(sq)
  BY <1>1 DEF Live
<1>3. /\ DOMAIN D = DOMAIN sq
      /\ \A x \in DOMAIN sq : /\ D[x] \in R /\ D[x].position = sq[x].position
                              /\ D[x].live = (x # q /\ sq[x].live)
  BY <1>1 DEF Tombstone, SequencesOK
<1>4. Ordered(D, M)
  <2>1. Ordered(sq, M)
    BY <1>2, FewerInOrder DEF SequencesOK
  <2>2. \A x \in M : D[x].position = sq[x].position
    BY <1>2, <1>3
  <2> QED
    BY <2>1, <2>2, SameInOrder
<1>5. \A x \in M : Cardinality(Below(D, M, x)) \in Nat
  BY <1>4, RanksCount, MembersCount
<1>6. T = [x \in DOMAIN D |->
              IF x \notin M THEN D[x] ELSE [D[x] EXCEPT !.position = Cardinality(Below(D, M, x))]]
  BY <1>1 DEF CompactActive, Below
<1>7. /\ DOMAIN T = DOMAIN sq
      /\ \A x \in DOMAIN sq : /\ T[x] \in R /\ T[x].live = (x # q /\ sq[x].live)
                              /\ x \in M => T[x].position = Cardinality(Below(D, M, x))
  <2>1. DOMAIN T = DOMAIN sq
    BY <1>3, <1>6
  <2> SUFFICES ASSUME NEW x \in DOMAIN sq
               PROVE  /\ T[x] \in R /\ T[x].live = (x # q /\ sq[x].live)
                      /\ x \in M => T[x].position = Cardinality(Below(D, M, x))
    BY <2>1
  <2>2. CASE x \notin M
    <3>1. T[x] = D[x]
      BY <1>3, <1>6, <2>2
    <3> QED
      BY <1>3, <2>2, <3>1
  <2>3. CASE x \in M
    <3>1. T[x] = [D[x] EXCEPT !.position = Cardinality(Below(D, M, x))]
      BY <1>3, <1>6, <2>3
    <3>2. PICK k \in Nat : k = Cardinality(Below(D, M, x))
      BY <1>5, <2>3
    <3>3. T[x] = [D[x] EXCEPT !.position = k]
      BY <3>1, <3>2
    <3>4. T[x] \in R /\ T[x].live = D[x].live /\ T[x].position = k
      BY <1>3, <3>3
    <3> QED
      BY <1>3, <3>2, <3>4
  <2> QED
    BY <2>2, <2>3
<1>8. Live(T) = M
  BY <1>1, <1>7 DEF Live
<1>9. Ordered(T, M) /\ Contiguous(T, M)
  BY <1>2, <1>4, <1>7, CompactedInOrder
<1>10. T \in [DOMAIN T -> R]
  <2>1. T = [x \in DOMAIN T |-> T[x]]
    BY <1>6
  <2> QED
    BY <1>7, <2>1
<1>11. SequencesOK(T)
  BY <1>7, <1>8, <1>9, <1>10 DEF SequencesOK
<1>12. ScenesOK(T, sc)
  <2>1. \A c \in Live(sc) : sc[c].sequence \in Live(sq) /\ sc[c].sequence # q
    BY DEF ScenesOK, In
  <2>2. \A c \in Live(sc) : sc[c].sequence \in Live(T)
    BY <1>1, <1>8, <2>1
  <2> QED
    BY <1>1, <1>7, <1>8, <2>2 DEF ScenesOK
<1> QED
  BY <1>1, <1>8, <1>11, <1>12

\* reorder_sequences.
LEMMA ReorderSequencesOK ==
    ASSUME NEW sq, NEW sc, SequencesOK(sq), ScenesOK(sq, sc), NEW X, NEW list \in Seq(X),
           ExactSet(list, Live(sq)), NEW T, T = ReorderFullSet(sq, list)
    PROVE  SequencesOK(T) /\ ScenesOK(T, sc) /\ Live(T) = Live(sq)
<1> DEFINE R == [position : Nat, live : BOOLEAN]
           at(x) == (CHOOSE i \in DOMAIN list : list[i] = x) - 1
<1>1. IsInjective(list) /\ ToSet(list) = Live(sq) /\ Live(sq) \subseteq DOMAIN sq
  BY DEF ExactSet, Live
<1>2. \A x \in Live(sq) : at(x) \in Nat
  <2> SUFFICES ASSUME NEW x \in Live(sq) PROVE at(x) \in Nat
    OBVIOUS
  <2>1. \E i \in DOMAIN list : list[i] = x
    BY <1>1 DEF ToSet
  <2>2. (CHOOSE i \in DOMAIN list : list[i] = x) \in DOMAIN list /\ DOMAIN list = 1..Len(list)
    BY <2>1, LenProperties
  <2> QED
    BY <2>2, LenProperties
<1>3. T = [x \in DOMAIN sq |-> IF x \notin Live(sq) THEN sq[x] ELSE [sq[x] EXCEPT !.position = at(x)]]
  BY <1>1 DEF ReorderFullSet
<1> HIDE DEF at
<1>4. \A x \in DOMAIN sq : sq[x] \in R
  BY DEF SequencesOK
<1>5. \A x \in DOMAIN sq : /\ T[x] \in R /\ T[x].live = sq[x].live
                           /\ x \in Live(sq) => T[x].position = at(x)
  BY <1>2, <1>3, <1>4
<1>6. DOMAIN T = DOMAIN sq /\ T \in [DOMAIN T -> R]
  BY <1>3, <1>5
<1>7. Live(T) = Live(sq)
  BY <1>5, <1>6 DEF Live
<1>8. Ordered(T, Live(sq)) /\ Contiguous(T, Live(sq))
  <2>a. \A x \in ToSet(list) : T[x].position = at(x)
    BY <1>1, <1>5
  <2>1. \A x \in ToSet(list) : T[x].position = (CHOOSE i \in DOMAIN list : list[i] = x) - 1
    BY <2>a, Zenon DEF at
  <2>2. Ordered(T, ToSet(list)) /\ Contiguous(T, ToSet(list))
    BY <1>1, <2>1, ListedInOrder
  <2> QED
    BY <1>1, <2>2
<1>9. SequencesOK(T)
  BY <1>6, <1>7, <1>8 DEF SequencesOK
<1>10. ScenesOK(T, sc)
  BY <1>6, <1>7 DEF ScenesOK
<1> QED
  BY <1>7, <1>9, <1>10

\* create_scene.
LEMMA CreateSceneOK ==
    ASSUME NEW sq, NEW sc, NEW sh, SequencesOK(sq), ScenesOK(sq, sc), ShotsOK(sc, sh),
           NEW q \in Live(sq), NEW c \in Scene, c \notin DOMAIN sc,
           NEW T, T = With(sc, c, [sequence |-> q, live |-> TRUE,
                                   position |-> NextPosition(sc, In(sc, q))])
    PROVE  ScenesOK(sq, T) /\ ShotsOK(T, sh)
<1> DEFINE R == [sequence : DOMAIN sq, position : Nat, live : BOOLEAN]
<1>1. PICK row : row = [sequence |-> q, live |-> TRUE, position |-> NextPosition(sc, In(sc, q))]
  OBVIOUS
<1>2. /\ row.live = TRUE /\ row.sequence = q /\ row.position = NextPosition(sc, In(sc, q))
      /\ q \in DOMAIN sq
  BY <1>1 DEF Live
<1>3. T = With(sc, c, row) /\ sc \in [DOMAIN sc -> R] /\ IsFiniteSet(DOMAIN sc)
  BY <1>1 DEF ScenesOK
<1>4. DOMAIN T = DOMAIN sc \cup {c} /\ T[c] = row /\ \A y \in DOMAIN sc : T[y] = sc[y]
  BY <1>3 DEF With
<1>5. IsFiniteSet(DOMAIN T)
  BY <1>3, <1>4, FS_AddElement
<1>6. Live(T) = Live(sc) \cup {c} /\ Live(sc) \subseteq DOMAIN sc /\ c \notin Live(sc)
  <2>1. \A y \in DOMAIN sc : T[y].live = sc[y].live
    BY <1>4
  <2>2. T[c].live = TRUE
    BY <1>2, <1>4
  <2> QED
    BY <1>4, <2>1, <2>2 DEF Live
<1>7. In(T, q) = In(sc, q) \cup {c} /\ c \notin In(sc, q)
  BY <1>2, <1>4, <1>6, ZenonT(40) DEF In
<1>8. \A p : p # q => In(T, p) = In(sc, p)
  <2>1. T[c].sequence = q
    BY <1>2, <1>4
  <2>2. \A y \in Live(sc) : T[y] = sc[y]
    BY <1>4, <1>6
  <2> QED
    BY <1>6, <2>1, <2>2 DEF In
<1>9. Ordered(T, In(T, q)) /\ Contiguous(T, In(T, q)) /\ NextPosition(sc, In(sc, q)) \in Nat
  <2>1. PICK m : m = In(sc, q)
    OBVIOUS
  <2>2. \A y \in m : T[y].position = sc[y].position
    BY <1>4, <1>6, <2>1 DEF In
  <2>3. Ordered(sc, m) /\ Contiguous(sc, m)
    BY <2>1 DEF ScenesOK
  <2>4. T[c].position = NextPosition(sc, m) /\ c \notin m
    BY <1>2, <1>4, <1>7, <2>1
  <2>5. Ordered(T, m \cup {c}) /\ Contiguous(T, m \cup {c}) /\ NextPosition(sc, m) \in Nat
    BY <2>2, <2>3, <2>4, AppendedInOrder
  <2> QED
    BY <1>7, <2>1, <2>5
<1>10. T \in [DOMAIN T -> R]
  <2>1. row \in R
    BY <1>1, <1>2, <1>9
  <2>2. With(sc, c, row) \in [DOMAIN sc \cup {c} -> R]
    BY <1>3, <2>1, WithTyped
  <2> QED
    BY <1>3, <1>4, <2>2
<1>11. \A p \in Live(sq) : Ordered(T, In(T, p)) /\ Contiguous(T, In(T, p))
  <2> SUFFICES ASSUME NEW p \in Live(sq), p # q PROVE Ordered(T, In(T, p)) /\ Contiguous(T, In(T, p))
    BY <1>9
  <2>1. Ordered(sc, In(sc, p)) /\ Contiguous(sc, In(sc, p))
    BY DEF ScenesOK
  <2>2. \A y \in In(sc, p) : T[y].position = sc[y].position
    BY <1>4, <1>6 DEF In
  <2>3. Ordered(T, In(sc, p)) /\ Contiguous(T, In(sc, p))
    BY <2>1, <2>2, SameInOrder
  <2> QED
    BY <1>8, <2>3
<1>12. ASSUME NEW y \in Live(T) PROVE T[y].sequence \in Live(sq)
  <2>1. CASE y = c
    BY <1>2, <1>4, <2>1
  <2>2. CASE y # c
    <3>1. y \in Live(sc) /\ T[y] = sc[y]
      BY <1>4, <1>6, <2>2
    <3> QED
      BY <3>1 DEF ScenesOK
  <2> QED
    BY <2>1, <2>2
<1>13. ScenesOK(sq, T)
  BY <1>4, <1>5, <1>10, <1>11, <1>12 DEF ScenesOK
<1>14. ShotsOK(T, sh)
  <2>1. sh \in [DOMAIN sh -> [scene : DOMAIN T \cup {None}, position : Nat, live : BOOLEAN,
                              number : Nat \ {0}]]
    BY <1>4 DEF ShotsOK
  <2>2. \A s \in Live(sh) : sh[s].scene # None => sh[s].scene \in Live(T)
    BY <1>6 DEF ShotsOK
  <2>3. Of(sh, c) = {}
    BY <1>6 DEF Of, ShotsOK
  <2>4. \A y \in Live(T) : Ordered(sh, Of(sh, y))
    BY <1>6, <2>3, NoneInOrder, ZenonT(40) DEF ShotsOK
  <2> QED
    BY <2>1, <2>2, <2>4 DEF ShotsOK
<1> QED
  BY <1>13, <1>14

\* delete_scene.
LEMMA DeleteSceneOK ==
    ASSUME NEW sq, NEW sc, NEW sh, SequencesOK(sq), ScenesOK(sq, sc), ShotsOK(sc, sh),
           NEW c \in Live(sc), Of(sh, c) = {},
           NEW T, T = CompactActive(Tombstone(sc, c), In(sc, sc[c].sequence) \ {c})
    PROVE  /\ ScenesOK(sq, T) /\ ShotsOK(T, sh) /\ Live(T) = Live(sc) \ {c}
           /\ \A x \in Live(T) : T[x].sequence = sc[x].sequence
<1> DEFINE R == [sequence : DOMAIN sq, position : Nat, live : BOOLEAN]
<1>1. PICK q, M, D : q = sc[c].sequence /\ M = In(sc, q) \ {c} /\ D = Tombstone(sc, c)
  OBVIOUS
<1>2. Live(sc) \subseteq DOMAIN sc /\ In(sc, q) \subseteq Live(sc) /\ M \subseteq In(sc, q)
  BY <1>1 DEF Live, In
<1>3. /\ DOMAIN D = DOMAIN sc
      /\ \A x \in DOMAIN sc : /\ D[x] \in R /\ D[x].position = sc[x].position
                              /\ D[x].live = (x # c /\ sc[x].live)
                              /\ D[x].sequence = sc[x].sequence
  BY <1>1 DEF Tombstone, ScenesOK
<1>q. q \in Live(sq)
  BY <1>1 DEF ScenesOK
<1>4. Ordered(D, M)
  <2>1. Ordered(sc, M)
    BY <1>2, <1>q, FewerInOrder DEF ScenesOK
  <2>2. \A x \in M : D[x].position = sc[x].position
    BY <1>2, <1>3
  <2> QED
    BY <2>1, <2>2, SameInOrder
<1>5. \A x \in M : Cardinality(Below(D, M, x)) \in Nat
  BY <1>4, RanksCount, MembersCount
<1>6. T = [x \in DOMAIN D |->
              IF x \notin M THEN D[x] ELSE [D[x] EXCEPT !.position = Cardinality(Below(D, M, x))]]
  BY <1>1 DEF CompactActive, Below
<1>7. /\ DOMAIN T = DOMAIN sc
      /\ \A x \in DOMAIN sc : /\ T[x] \in R /\ T[x].live = (x # c /\ sc[x].live)
                              /\ T[x].sequence = sc[x].sequence
                              /\ x \in M => T[x].position = Cardinality(Below(D, M, x))
                              /\ x \notin M => T[x].position = sc[x].position
  <2>1. DOMAIN T = DOMAIN sc
    BY <1>3, <1>6
  <2> SUFFICES ASSUME NEW x \in DOMAIN sc
               PROVE  /\ T[x] \in R /\ T[x].live = (x # c /\ sc[x].live)
                      /\ T[x].sequence = sc[x].sequence
                      /\ x \in M => T[x].position = Cardinality(Below(D, M, x))
                      /\ x \notin M => T[x].position = sc[x].position
    BY <2>1
  <2>2. CASE x \notin M
    <3>1. T[x] = D[x]
      BY <1>3, <1>6, <2>2
    <3> QED
      BY <1>3, <2>2, <3>1
  <2>3. CASE x \in M
    <3>1. T[x] = [D[x] EXCEPT !.position = Cardinality(Below(D, M, x))]
      BY <1>3, <1>6, <2>3
    <3>2. PICK k \in Nat : k = Cardinality(Below(D, M, x))
      BY <1>5, <2>3
    <3>3. T[x] = [D[x] EXCEPT !.position = k]
      BY <3>1, <3>2
    <3>4. /\ T[x] \in R /\ T[x].live = D[x].live /\ T[x].position = k
          /\ T[x].sequence = D[x].sequence
      BY <1>3, <3>3
    <3> QED
      BY <1>3, <2>3, <3>2, <3>4
  <2> QED
    BY <2>2, <2>3
<1>8. Live(T) = Live(sc) \ {c}
  BY <1>7 DEF Live
<1>9. \A p : In(T, p) = In(sc, p) \ {c}
  BY <1>2, <1>7, <1>8 DEF In
<1>10. \A p \in Live(sq) : Ordered(T, In(T, p)) /\ Contiguous(T, In(T, p))
  <2> SUFFICES ASSUME NEW p \in Live(sq) PROVE Ordered(T, In(T, p)) /\ Contiguous(T, In(T, p))
    OBVIOUS
  <2>1. CASE p = q
    <3>1. \A x \in M : T[x].position = Cardinality(Below(D, M, x))
      BY <1>2, <1>7
    <3>2. Ordered(T, M) /\ Contiguous(T, M)
      BY <1>4, <3>1, CompactedInOrder
    <3> QED
      BY <1>1, <1>9, <2>1, <3>2
  <2>2. CASE p # q
    <3>1. In(T, p) = In(sc, p)
      BY <1>1, <1>9, <2>2 DEF In
    <3>2. \A x \in In(sc, p) : T[x].position = sc[x].position
      <4> SUFFICES ASSUME NEW x \in In(sc, p) PROVE T[x].position = sc[x].position
        OBVIOUS
      <4>1. x \in DOMAIN sc /\ x \notin M
        BY <1>1, <1>2, <2>2 DEF In
      <4> QED
        BY <1>7, <4>1
    <3>3. Ordered(sc, In(sc, p)) /\ Contiguous(sc, In(sc, p))
      BY DEF ScenesOK
    <3>4. Ordered(T, In(sc, p)) /\ Contiguous(T, In(sc, p))
      BY <3>2, <3>3, SameInOrder
    <3> QED
      BY <3>1, <3>4
  <2> QED
    BY <2>1, <2>2
<1>11. T \in [DOMAIN T -> R]
  <2>1. T = [x \in DOMAIN T |-> T[x]]
    BY <1>6
  <2> QED
    BY <1>7, <2>1
<1>12. \A x \in Live(T) : T[x].sequence = sc[x].sequence /\ T[x].sequence \in Live(sq)
  BY <1>2, <1>7, <1>8 DEF ScenesOK
<1>13. ScenesOK(sq, T)
  BY <1>7, <1>10, <1>11, <1>12 DEF ScenesOK
<1>14. ShotsOK(T, sh)
  <2>1. \A s \in Live(sh) : sh[s].scene # None => sh[s].scene \in Live(T)
    BY <1>8 DEF ShotsOK, Of
  <2>2. \A y \in Live(T) : Ordered(sh, Of(sh, y))
    BY <1>8 DEF ShotsOK
  <2> QED
    BY <1>7, <2>1, <2>2 DEF ShotsOK
<1> QED
  BY <1>8, <1>12, <1>13, <1>14

\* reorder_scenes.
LEMMA ReorderScenesOK ==
    ASSUME NEW sq, NEW sc, NEW sh, ScenesOK(sq, sc), ShotsOK(sc, sh), NEW q \in Live(sq),
           NEW X, NEW list \in Seq(X), ExactSet(list, In(sc, q)), NEW T, T = ReorderFullSet(sc, list)
    PROVE  /\ ScenesOK(sq, T) /\ ShotsOK(T, sh) /\ Live(T) = Live(sc)
           /\ \A x \in Live(T) : T[x].sequence = sc[x].sequence
<1> DEFINE R == [sequence : DOMAIN sq, position : Nat, live : BOOLEAN]
           at(x) == (CHOOSE i \in DOMAIN list : list[i] = x) - 1
<1>m. PICK M : M = In(sc, q)
  OBVIOUS
<1>1. IsInjective(list) /\ ToSet(list) = M /\ M \subseteq Live(sc) /\ Live(sc) \subseteq DOMAIN sc
  BY <1>m DEF ExactSet, Live, In
<1>2. \A x \in M : at(x) \in Nat
  <2> SUFFICES ASSUME NEW x \in M PROVE at(x) \in Nat
    OBVIOUS
  <2>1. \E i \in DOMAIN list : list[i] = x
    BY <1>1 DEF ToSet
  <2>2. (CHOOSE i \in DOMAIN list : list[i] = x) \in DOMAIN list /\ DOMAIN list = 1..Len(list)
    BY <2>1, LenProperties
  <2> QED
    BY <2>2, LenProperties
<1>3. T = [x \in DOMAIN sc |-> IF x \notin M THEN sc[x] ELSE [sc[x] EXCEPT !.position = at(x)]]
  BY <1>1 DEF ReorderFullSet
<1> HIDE DEF at
<1>4. \A x \in DOMAIN sc : sc[x] \in R
  BY DEF ScenesOK
<1>5. \A x \in DOMAIN sc : /\ T[x] \in R /\ T[x].live = sc[x].live /\ T[x].sequence = sc[x].sequence
                           /\ x \in M => T[x].position = at(x)
                           /\ x \notin M => T[x].position = sc[x].position
  BY <1>2, <1>3, <1>4
<1>6. DOMAIN T = DOMAIN sc /\ T \in [DOMAIN T -> R]
  BY <1>3, <1>5
<1>7. Live(T) = Live(sc)
  BY <1>5, <1>6 DEF Live
<1>8. \A p : In(T, p) = In(sc, p)
  BY <1>1, <1>5, <1>7 DEF In
<1>9. Ordered(T, M) /\ Contiguous(T, M)
  <2>1. \A x \in ToSet(list) : T[x].position = at(x)
    BY <1>1, <1>5
  <2>2. \A x \in ToSet(list) : T[x].position = (CHOOSE i \in DOMAIN list : list[i] = x) - 1
    BY <2>1, Zenon DEF at
  <2>3. Ordered(T, ToSet(list)) /\ Contiguous(T, ToSet(list))
    BY <1>1, <2>2, ListedInOrder
  <2> QED
    BY <1>1, <2>3
<1>10. \A p \in Live(sq) : Ordered(T, In(T, p)) /\ Contiguous(T, In(T, p))
  <2> SUFFICES ASSUME NEW p \in Live(sq), p # q PROVE Ordered(T, In(T, p)) /\ Contiguous(T, In(T, p))
    BY <1>m, <1>8, <1>9
  <2>1. \A x \in In(sc, p) : T[x].position = sc[x].position
    <3> SUFFICES ASSUME NEW x \in In(sc, p) PROVE T[x].position = sc[x].position
      OBVIOUS
    <3>1. x \in DOMAIN sc /\ x \notin M
      BY <1>1, <1>m DEF In
    <3> QED
      BY <1>5, <3>1
  <2>2. Ordered(sc, In(sc, p)) /\ Contiguous(sc, In(sc, p))
    BY DEF ScenesOK
  <2>3. Ordered(T, In(sc, p)) /\ Contiguous(T, In(sc, p))
    BY <2>1, <2>2, SameInOrder
  <2> QED
    BY <1>8, <2>3
<1>11. \A x \in Live(T) : T[x].sequence = sc[x].sequence /\ T[x].sequence \in Live(sq)
  BY <1>1, <1>5, <1>7 DEF ScenesOK
<1>12. ScenesOK(sq, T)
  BY <1>6, <1>10, <1>11 DEF ScenesOK
<1>13. ShotsOK(T, sh)
  BY <1>6, <1>7 DEF ShotsOK
<1> QED
  BY <1>7, <1>11, <1>12, <1>13

\* What a scene and a sequence hold, in the words of the operations.
LEMMA MembersAre ==
    /\ \A q : ScenesIn(q) = In(scenes, q)
    /\ \A c : ShotsIn(c) = Of(shots, c)
BY DEF ScenesIn, ShotsIn, In, Of

\* The place of a member of a list is a position.
LEMMA PlaceInList ==
    ASSUME NEW X, NEW list \in Seq(X)
    PROVE  \A x \in ToSet(list) : (CHOOSE i \in DOMAIN list : list[i] = x) - 1 \in Nat
<1> SUFFICES ASSUME NEW x \in ToSet(list)
             PROVE  (CHOOSE i \in DOMAIN list : list[i] = x) - 1 \in Nat
  OBVIOUS
<1>1. \E i \in DOMAIN list : list[i] = x
  BY DEF ToSet
<1>2. (CHOOSE i \in DOMAIN list : list[i] = x) \in DOMAIN list /\ DOMAIN list = 1..Len(list)
  BY <1>1, LenProperties
<1> QED
  BY <1>2, LenProperties

\* A shot's row, with another scene and position.
LEMMA PlacedRow ==
    ASSUME NEW S, NEW row \in [scene : S, position : Nat, live : BOOLEAN, number : Nat \ {0}],
           NEW c \in S, NEW k \in Nat, NEW r, r = [row EXCEPT !.scene = c, !.position = k]
    PROVE  /\ r \in [scene : S, position : Nat, live : BOOLEAN, number : Nat \ {0}]
           /\ r.live = row.live /\ r.scene = c /\ r.position = k
OBVIOUS

\* replace_scene_shots.
LEMMA AssignSceneShotsOK ==
    ASSUME TopologyInv, NEW c \in Scene, NEW list \in Seq(Shot), AssignSceneShots(c, list), NEW T, T = shots'
    PROVE  /\ ShotsOK(scenes, T) /\ Live(T) = Live(shots)
           /\ \A s \in Live(shots) : /\ s \notin Of(shots, c) \ ToSet(list) /\ shots[s].scene # None
                                            => T[s].scene = shots[s].scene
                                     /\ s \in ToSet(list) => T[s].scene = c
<1> DEFINE R == [scene : DOMAIN scenes \cup {None}, position : Nat, live : BOOLEAN, number : Nat \ {0}]
           at(s) == (CHOOSE i \in DOMAIN list : list[i] = s) - 1
           L == ToSet(list)
           M == ShotsIn(c)
<1>T. T = shots'
  OBVIOUS
<1>3. T = [s \in DOMAIN shots |-> IF s \in L THEN [shots[s] EXCEPT !.scene = c, !.position = at(s)]
                                  ELSE IF s \in M THEN [shots[s] EXCEPT !.scene = None, !.position = 0]
                                  ELSE shots[s]]
  BY <1>T DEF AssignSceneShots
<1>m. L = ToSet(list) /\ M = Of(shots, c)
  BY MembersAre, SMTT(30)
<1> HIDE DEF L, M
<1>a. /\ c \in Live(scenes) /\ IsInjective(list)
      /\ \A s \in L : s \in Live(shots) /\ shots[s].scene \in {None, c}
      /\ ScenesOK(sequences, scenes) /\ ShotsOK(scenes, shots)
  BY <1>m DEF AssignSceneShots, TopologyInv
<1> USE <1>a
<1>1. /\ L \subseteq Live(shots) /\ M \subseteq Live(shots) /\ Live(shots) \subseteq DOMAIN shots
      /\ c \in DOMAIN scenes /\ c # None
  BY <1>m DEF Live, Of, ScenesOK
<1>2. \A s \in L : at(s) \in Nat
  BY <1>m, PlaceInList
<1> HIDE DEF at
<1>4. \A s \in DOMAIN shots : shots[s] \in R
  BY DEF ShotsOK
<1>5. /\ DOMAIN T = DOMAIN shots
      /\ \A s \in DOMAIN shots : /\ T[s] \in R /\ T[s].live = shots[s].live
                                 /\ s \in L => T[s].scene = c /\ T[s].position = at(s)
                                 /\ s \notin L /\ s \in M => T[s].scene = None
                                 /\ s \notin L /\ s \notin M => T[s] = shots[s]
  <2>1. DOMAIN T = DOMAIN shots
    BY <1>3
  <2> SUFFICES ASSUME NEW s \in DOMAIN shots
               PROVE  /\ T[s] \in R /\ T[s].live = shots[s].live
                      /\ s \in L => T[s].scene = c /\ T[s].position = at(s)
                      /\ s \notin L /\ s \in M => T[s].scene = None
                      /\ s \notin L /\ s \notin M => T[s] = shots[s]
    BY <2>1
  <2>2. CASE s \in L
    <3>1. T[s] = [shots[s] EXCEPT !.scene = c, !.position = at(s)]
      BY <1>3, <2>2
    <3>2. PICK S, row, k, r : S = DOMAIN scenes \cup {None} /\ row = shots[s] /\ k = at(s) /\ r = T[s]
      OBVIOUS
    <3>3. /\ row \in [scene : S, position : Nat, live : BOOLEAN, number : Nat \ {0}]
          /\ c \in S /\ k \in Nat /\ r = [row EXCEPT !.scene = c, !.position = k]
      BY <1>1, <1>2, <1>4, <2>2, <3>1, <3>2
    <3>4. /\ r \in [scene : S, position : Nat, live : BOOLEAN, number : Nat \ {0}]
          /\ r.live = row.live /\ r.scene = c /\ r.position = k
      BY <3>3, PlacedRow
    <3>5. T[s] \in R /\ T[s].live = shots[s].live /\ T[s].scene = c /\ T[s].position = at(s)
      BY <3>2, <3>4
    <3> QED
      BY <2>2, <3>5, SMTT(30)
  <2>3. CASE s \notin L /\ s \in M
    <3>1. T[s] = [shots[s] EXCEPT !.scene = None, !.position = 0]
      BY <1>3, <2>3
    <3>2. PICK S, row, r : S = DOMAIN scenes \cup {None} /\ row = shots[s] /\ r = T[s]
      OBVIOUS
    <3>3. /\ row \in [scene : S, position : Nat, live : BOOLEAN, number : Nat \ {0}]
          /\ None \in S /\ 0 \in Nat /\ r = [row EXCEPT !.scene = None, !.position = 0]
      BY <1>4, <3>1, <3>2
    <3>4. r \in [scene : S, position : Nat, live : BOOLEAN, number : Nat \ {0}] /\ r.live = row.live /\ r.scene = None
      BY <3>3, PlacedRow
    <3>5. T[s] \in R /\ T[s].live = shots[s].live /\ T[s].scene = None
      BY <3>2, <3>4
    <3> QED
      BY <2>3, <3>5, SMTT(30)
  <2>4. CASE s \notin L /\ s \notin M
    <3>1. T[s] = shots[s]
      BY <1>3, <2>4
    <3> QED
      BY <1>4, <2>4, <3>1, SMTT(30)
  <2> QED
    BY <2>2, <2>3, <2>4, SMTT(30)
<1>6. Live(T) = Live(shots)
  <2>1. DOMAIN T = DOMAIN shots /\ \A s \in DOMAIN shots : T[s].live = shots[s].live
    BY <1>5
  <2> HIDE <1>3
  <2> QED
    BY <2>1, Zenon DEF Live
<1>7. Of(T, c) = L
  <2>1. \A s \in Live(shots) : s \notin L => T[s].scene # c
    <3> SUFFICES ASSUME NEW s \in Live(shots), s \notin L PROVE T[s].scene # c
      OBVIOUS
    <3>1. CASE s \in M
      BY <1>1, <1>5, <3>1
    <3>2. CASE s \notin M
      <4>1. shots[s].scene # c
        BY <1>m, <3>2 DEF Of
      <4> QED
        BY <1>1, <1>5, <3>2, <4>1
    <3> QED
      BY <3>1, <3>2
  <2> QED
    BY <1>1, <1>5, <1>6, <2>1 DEF Of
<1>8. \A y \in Live(scenes) : y # c => /\ Of(T, y) = Of(shots, y)
                                      /\ \A s \in Of(shots, y) : T[s].position = shots[s].position
  <2> SUFFICES ASSUME NEW y \in Live(scenes), y # c
               PROVE  /\ Of(T, y) = Of(shots, y)
                      /\ \A s \in Of(shots, y) : T[s].position = shots[s].position
    OBVIOUS
  <2>1. y # None
    BY DEF Live, ScenesOK
  <2>2. \A s \in Of(shots, y) : s \notin L /\ s \notin M /\ s \in DOMAIN shots
    BY <1>1, <1>m, <2>1 DEF Of
  <2>3. \A s \in Live(shots) : T[s].scene = y => s \in Of(shots, y)
    <3> SUFFICES ASSUME NEW s \in Live(shots), T[s].scene = y PROVE s \in Of(shots, y)
      OBVIOUS
    <3>1. s \notin L /\ s \notin M
      BY <1>1, <1>5, <2>1
    <3>2. T[s] = shots[s]
      BY <1>1, <1>5, <3>1
    <3> QED
      BY <3>2 DEF Of
  <2>4. \A s \in Of(shots, y) : T[s] = shots[s]
    BY <1>5, <2>2
  <2> QED
    BY <1>6, <2>3, <2>4 DEF Of
<1>9. \A y \in Live(scenes) : Ordered(T, Of(T, y))
  <2>1. Ordered(T, Of(T, c))
    <3>1. \A s \in ToSet(list) : T[s].position = at(s)
      BY <1>1, <1>m, <1>5
    <3>2. \A s \in ToSet(list) : T[s].position = (CHOOSE i \in DOMAIN list : list[i] = s) - 1
      BY <3>1, Zenon DEF at
    <3>3. Ordered(T, ToSet(list))
      BY <3>2, ListedInOrder
    <3> QED
      BY <1>m, <1>7, <3>3
  <2>2. ASSUME NEW y \in Live(scenes), y # c PROVE Ordered(T, Of(T, y))
    <3>1. Ordered(shots, Of(shots, y))
      BY DEF ShotsOK
    <3>2. Ordered(T, Of(shots, y))
      BY <1>8, <2>2, <3>1, SameInOrder
    <3> QED
      BY <1>8, <2>2, <3>2
  <2> QED
    BY <2>1, <2>2
<1>10. \A s \in Live(T) : T[s].scene # None => T[s].scene \in Live(scenes)
  <2> SUFFICES ASSUME NEW s \in Live(shots), T[s].scene # None PROVE T[s].scene \in Live(scenes)
    BY <1>6
  <2>1. CASE s \in L
    BY <1>1, <1>5, <2>1
  <2>2. CASE s \notin L
    <3>1. T[s] = shots[s]
      BY <1>1, <1>5, <2>2
    <3> QED
      BY <3>1 DEF ShotsOK
  <2> QED
    BY <2>1, <2>2
<1>11. T \in [DOMAIN T -> R]
  <2>1. T = [s \in DOMAIN T |-> T[s]]
    BY <1>3
  <2> QED
    BY <1>5, <2>1, SMTT(30)
<1>12. ShotsOK(scenes, T)
  BY <1>5, <1>9, <1>10, <1>11 DEF ShotsOK
<1>13. ASSUME NEW s \in Live(shots)
       PROVE  /\ s \notin M \ L /\ shots[s].scene # None => T[s].scene = shots[s].scene
              /\ s \in L => T[s].scene = c
  <2>1. CASE s \in L
    BY <1>1, <1>m, <1>5, <2>1
  <2>2. CASE s \notin L
    BY <1>1, <1>5, <2>2
  <2> QED
    BY <2>1, <2>2
<1> QED
  BY <1>6, <1>12, <1>13, <1>m

\* create_shot.
LEMMA CreateShotOK ==
    ASSUME NEW sc, NEW sh, ShotsOK(sc, sh), DOMAIN sc \subseteq Scene, NEW s \in Shot, s \notin DOMAIN sh,
           NEW T, T = With(sh, s, [scene |-> None, position |-> 0, live |-> TRUE,
                                   number |-> 1 + Max({0} \cup {sh[x].number : x \in DOMAIN sh})])
    PROVE  /\ ShotsOK(sc, T) /\ Live(sh) \subseteq Live(T)
           /\ \A x \in Live(sh) : T[x] = sh[x]
<1> DEFINE R == [scene : DOMAIN sc \cup {None}, position : Nat, live : BOOLEAN, number : Nat \ {0}]
<1>1. PICK n : n = 1 + Max({0} \cup {sh[x].number : x \in DOMAIN sh})
  OBVIOUS
<1>2. n \in Nat \ {0}
  <2>1. PICK S : S = {0} \cup {sh[x].number : x \in DOMAIN sh}
    OBVIOUS
  <2>2. S \subseteq Nat /\ S # {}
    BY <2>1 DEF ShotsOK
  <2>3. PICK N : N = {sh[x].number : x \in DOMAIN sh}
    OBVIOUS
  <2>a. PICK D : D = DOMAIN sh
    OBVIOUS
  <2>b. IsFiniteSet(D) /\ N = {sh[x].number : x \in D}
    BY <2>3, <2>a DEF ShotsOK
  <2>4. IsFiniteSet(N)
    <3>1. PICK f : f = [x \in D |-> sh[x].number]
      OBVIOUS
    <3>2. f \in Surjection(D, N)
      BY <2>b, <3>1 DEF Surjection
    <3> QED
      BY <2>b, <3>2, FS_Surjection
  <2>5. IsFiniteSet(S)
    BY <2>1, <2>3, <2>4, FS_AddElement
  <2>6. Max(S) \in S
    BY <2>2, <2>5, MaxIsGreatest
  <2> QED
    BY <1>1, <2>1, <2>2, <2>6
<1>3. PICK row : row = [scene |-> None, position |-> 0, live |-> TRUE, number |-> n]
  OBVIOUS
<1>4. row \in R /\ row.live = TRUE /\ row.scene = None
  BY <1>2, <1>3
<1>5. T = With(sh, s, row) /\ sh \in [DOMAIN sh -> R] /\ IsFiniteSet(DOMAIN sh)
  BY <1>1, <1>3 DEF ShotsOK
<1>6. DOMAIN T = DOMAIN sh \cup {s} /\ T[s] = row /\ \A y \in DOMAIN sh : T[y] = sh[y]
  BY <1>5 DEF With
<1>7. T \in [DOMAIN T -> R]
  <2>1. With(sh, s, row) \in [DOMAIN sh \cup {s} -> R]
    BY <1>4, <1>5, WithTyped
  <2> QED
    BY <1>5, <1>6, <2>1
<1>8. IsFiniteSet(DOMAIN T)
  BY <1>5, <1>6, FS_AddElement
<1>9. Live(T) = Live(sh) \cup {s} /\ Live(sh) \subseteq DOMAIN sh
  <2>1. \A y \in DOMAIN sh : T[y].live = sh[y].live
    BY <1>6
  <2>2. T[s].live = TRUE
    BY <1>4, <1>6
  <2> QED
    BY <1>6, <2>1, <2>2 DEF Live
<1>10. \A y \in Live(sh) : T[y] = sh[y]
  BY <1>6, <1>9
<1>11. T[s].scene = None
  BY <1>4, <1>6
<1>12. \A c \in Live(sc) : Ordered(T, Of(T, c))
  <2> SUFFICES ASSUME NEW c \in Live(sc) PROVE Ordered(T, Of(T, c))
    OBVIOUS
  <2>1. c # None
    BY DEF Live
  <2>2. Of(T, c) = Of(sh, c)
    BY <1>9, <1>10, <1>11, <2>1 DEF Of
  <2>3. \A y \in Of(sh, c) : T[y].position = sh[y].position
    BY <1>10 DEF Of
  <2>4. Ordered(sh, Of(sh, c))
    BY DEF ShotsOK
  <2> QED
    BY <2>2, <2>3, <2>4, SameInOrder
<1>13. \A y \in Live(T) : T[y].scene # None => T[y].scene \in Live(sc)
  BY <1>9, <1>10, <1>11 DEF ShotsOK
<1>14. ShotsOK(sc, T)
  BY <1>6, <1>7, <1>8, <1>12, <1>13 DEF ShotsOK
<1> QED
  BY <1>9, <1>10, <1>14

\* delete_shot.
LEMMA DeleteShotOK ==
    ASSUME NEW sc, NEW sh, ShotsOK(sc, sh), NEW s \in Live(sh), NEW T, T = Tombstone(sh, s)
    PROVE  /\ ShotsOK(sc, T) /\ Live(T) = Live(sh) \ {s}
           /\ \A x \in Live(T) : T[x] = sh[x]
<1> DEFINE R == [scene : DOMAIN sc \cup {None}, position : Nat, live : BOOLEAN, number : Nat \ {0}]
<1>1. s \in DOMAIN sh /\ Live(sh) \subseteq DOMAIN sh /\ sh \in [DOMAIN sh -> R]
  BY DEF Live, ShotsOK
<1>2. T = [sh EXCEPT ![s].live = FALSE]
  BY DEF Tombstone
<1>3. /\ DOMAIN T = DOMAIN sh /\ T \in [DOMAIN T -> R]
      /\ \A x \in DOMAIN sh : /\ x # s => T[x] = sh[x]
                              /\ T[x].live = (x # s /\ sh[x].live)
  <2>1. sh[s] \in R
    BY <1>1
  <2>2. PICK row : row = [sh[s] EXCEPT !.live = FALSE]
    OBVIOUS
  <2>3. row \in R /\ row.live = FALSE
    BY <2>1, <2>2
  <2>4. T = [sh EXCEPT ![s] = row]
    BY <1>2, <2>2
  <2>5. DOMAIN T = DOMAIN sh /\ T[s] = row /\ \A x \in DOMAIN sh : x # s => T[x] = sh[x]
    BY <1>1, <2>4
  <2>6. T \in [DOMAIN T -> R]
    BY <1>1, <2>3, <2>4
  <2>7. \A x \in DOMAIN sh : sh[x].live \in BOOLEAN
    BY <1>1
  <2> QED
    BY <2>3, <2>5, <2>6, <2>7
<1>4. Live(T) = Live(sh) \ {s}
  BY <1>3 DEF Live
<1>5. \A x \in Live(T) : T[x] = sh[x]
  BY <1>1, <1>3, <1>4
<1>6. \A c \in Live(sc) : Ordered(T, Of(T, c))
  <2> SUFFICES ASSUME NEW c \in Live(sc) PROVE Ordered(T, Of(T, c))
    OBVIOUS
  <2>1. Ordered(sh, Of(sh, c))
    BY DEF ShotsOK
  <2>2. Of(T, c) \subseteq Of(sh, c) /\ \A x \in Of(T, c) : T[x].position = sh[x].position
    BY <1>4, <1>5 DEF Of
  <2>3. Ordered(sh, Of(T, c))
    BY <2>1, <2>2, FewerInOrder
  <2> QED
    BY <2>2, <2>3, SameInOrder
<1>7. \A x \in Live(T) : T[x].scene # None => T[x].scene \in Live(sc)
  BY <1>4, <1>5 DEF ShotsOK
<1>8. IsFiniteSet(DOMAIN T) /\ DOMAIN T \subseteq Shot
  BY <1>3 DEF ShotsOK
<1> QED
  BY <1>3, <1>4, <1>5, <1>6, <1>7, <1>8 DEF ShotsOK

-----------------------------------------------------------------------------
(* Every operation on the topology keeps the invariant, and every boundary *)
(* that a feature or relation transition hangs on.                         *)

KeepsAnchored == \A e \in BoundarySet : e \in BoundarySet' \/ ~Anchored(e.kind, e.id)

\* The same of the next state.
LEMMA BoundaryIsNext ==
    (\A e : e \in BoundarySet <=>
        \/ \E q \in Live(sequences) : e \in Ends("sequence", q)
        \/ \E c \in Live(scenes) : e \in Ends("scene", c)
        \/ \E s \in Placed : e \in Ends("shot", s))'
BY BoundaryIs, PTL

\* A boundary stays when the row it belongs to does.
LEMMA BoundariesStay ==
    ASSUME \A q \in Live(sequences) : q \in Live(sequences') \/ ~Anchored("sequence", q),
           \A c \in Live(scenes) : c \in Live(scenes') \/ ~Anchored("scene", c),
           \A s \in Placed : s \in Placed' \/ ~Anchored("shot", s)
    PROVE  KeepsAnchored
<1> SUFFICES ASSUME NEW e \in BoundarySet PROVE e \in BoundarySet' \/ ~Anchored(e.kind, e.id)
  BY DEF KeepsAnchored
<1>1. /\ (\E q \in Live(sequences') : e \in Ends("sequence", q)) => e \in BoundarySet'
      /\ (\E c \in Live(scenes') : e \in Ends("scene", c)) => e \in BoundarySet'
      /\ (\E s \in Placed' : e \in Ends("shot", s)) => e \in BoundarySet'
  BY BoundaryIsNext
<1>2. \A kind, id : e \in Ends(kind, id) => e.kind = kind /\ e.id = id
  BY DEF Ends
<1>3. CASE \E q \in Live(sequences) : e \in Ends("sequence", q)
  BY <1>1, <1>2, <1>3
<1>4. CASE \E c \in Live(scenes) : e \in Ends("scene", c)
  BY <1>1, <1>2, <1>4
<1>5. CASE \E s \in Placed : e \in Ends("shot", s)
  BY <1>1, <1>2, <1>5
<1> QED
  BY <1>3, <1>4, <1>5, BoundaryIs

\* The placed shots of the next state.
LEMMA PlacedNext == Placed' = {s \in Live(shots') : shots'[s].scene # None}
BY DEF Placed, Live

\* The invariant of the next state, part by part.
LEMMA TopologyInvNext ==
    ASSUME project' \in BOOLEAN, SequencesOK(sequences'), ScenesOK(sequences', scenes'),
           ShotsOK(scenes', shots')
    PROVE  TopologyInv'
BY DEF TopologyInv

\* Creating a sequence, and deleting one that nothing hangs on.
LEMMA SequenceSteps ==
    ASSUME TopologyInv, NEW q \in Sequence, CreateSequence(q) \/ DeleteSequence(q)
    PROVE  TopologyInv' /\ KeepsAnchored
<1>1. /\ project \in BOOLEAN
      /\ SequencesOK(sequences) /\ ScenesOK(sequences, scenes) /\ ShotsOK(scenes, shots)
  BY DEF TopologyInv
<1>2. project' = project /\ scenes' = scenes /\ shots' = shots
  BY DEF CreateSequence, DeleteSequence
<1>3. Placed' = Placed
  BY <1>2, PlacedNext DEF Placed
<1>4. CASE CreateSequence(q)
  <2>1. PICK T : T = sequences'
    OBVIOUS
  <2>2. /\ q \notin DOMAIN sequences
        /\ T = With(sequences, q, [position |-> NextPosition(sequences, Live(sequences)), live |-> TRUE])
    BY <1>4, <2>1 DEF CreateSequence
  <2>3. SequencesOK(T) /\ ScenesOK(T, scenes)
    BY <1>1, <2>2, CreateSequenceOK
  <2>4. Live(sequences) \subseteq Live(T)
    BY <2>2 DEF Live, With
  <2>5. TopologyInv'
    BY <1>1, <1>2, <2>1, <2>3, TopologyInvNext
  <2>6. KeepsAnchored
    BY <1>2, <1>3, <2>1, <2>4, BoundariesStay
  <2> QED
    BY <2>5, <2>6
<1>5. CASE DeleteSequence(q)
  <2>1. PICK T : T = sequences'
    OBVIOUS
  <2>2. /\ q \in Live(sequences) /\ In(scenes, q) = {} /\ ~Anchored("sequence", q)
        /\ T = CompactActive(Tombstone(sequences, q), Live(sequences) \ {q})
    BY <1>5, <2>1, MembersAre DEF DeleteSequence
  <2>3. SequencesOK(T) /\ ScenesOK(T, scenes) /\ Live(T) = Live(sequences) \ {q}
    BY <1>1, <2>2, DeleteSequenceOK
  <2>4. TopologyInv'
    BY <1>1, <1>2, <2>1, <2>3, TopologyInvNext
  <2>5. \A x \in Live(sequences) : x \in Live(sequences') \/ ~Anchored("sequence", x)
    BY <2>1, <2>2, <2>3
  <2>6. KeepsAnchored
    BY <1>2, <1>3, <2>5, BoundariesStay
  <2> QED
    BY <2>4, <2>6
<1> QED
  BY <1>4, <1>5

\* Reordering the sequences moves positions only.
LEMMA ReorderSequencesStep ==
    ASSUME TopologyInv, NEW list \in Seq(Sequence), ReorderSequences(list)
    PROVE  TopologyInv' /\ KeepsAnchored
<1>1. /\ project \in BOOLEAN
      /\ SequencesOK(sequences) /\ ScenesOK(sequences, scenes) /\ ShotsOK(scenes, shots)
  BY DEF TopologyInv
<1>2. project' = project /\ scenes' = scenes /\ shots' = shots
  BY DEF ReorderSequences
<1>3. Placed' = Placed
  BY <1>2, PlacedNext DEF Placed
<1>4. PICK T : T = sequences'
  OBVIOUS
<1>5. ExactSet(list, Live(sequences)) /\ T = ReorderFullSet(sequences, list)
  BY <1>4 DEF ReorderSequences
<1>6. SequencesOK(T) /\ ScenesOK(T, scenes) /\ Live(T) = Live(sequences)
  BY <1>1, <1>5, ReorderSequencesOK
<1>7. TopologyInv'
  BY <1>1, <1>2, <1>4, <1>6, TopologyInvNext
<1>8. KeepsAnchored
  BY <1>2, <1>3, <1>4, <1>6, BoundariesStay
<1> QED
  BY <1>7, <1>8

\* Creating a scene under an active sequence.
LEMMA CreateSceneStep ==
    ASSUME TopologyInv, NEW c \in Scene, NEW q \in Sequence, CreateScene(c, q)
    PROVE  TopologyInv' /\ KeepsAnchored
<1>1. /\ project \in BOOLEAN
      /\ SequencesOK(sequences) /\ ScenesOK(sequences, scenes) /\ ShotsOK(scenes, shots)
  BY DEF TopologyInv
<1>2. project' = project /\ sequences' = sequences /\ shots' = shots
  BY DEF CreateScene
<1>3. Placed' = Placed
  BY <1>2, PlacedNext DEF Placed
<1>4. PICK T : T = scenes'
  OBVIOUS
<1>5. /\ q \in Live(sequences) /\ c \notin DOMAIN scenes
      /\ T = With(scenes, c, [sequence |-> q, live |-> TRUE,
                              position |-> NextPosition(scenes, In(scenes, q))])
  BY <1>4, MembersAre DEF CreateScene
<1>6. ScenesOK(sequences, T) /\ ShotsOK(T, shots)
  BY <1>1, <1>5, CreateSceneOK
<1>7. Live(scenes) \subseteq Live(T)
  BY <1>5 DEF Live, With
<1>8. TopologyInv'
  BY <1>1, <1>2, <1>4, <1>6, TopologyInvNext
<1>9. KeepsAnchored
  BY <1>2, <1>3, <1>4, <1>7, BoundariesStay
<1> QED
  BY <1>8, <1>9

\* Deleting an empty scene that nothing hangs on closes the gap it leaves.
LEMMA DeleteSceneStep ==
    ASSUME TopologyInv, NEW c \in Scene, DeleteScene(c)
    PROVE  TopologyInv' /\ KeepsAnchored
<1>1. /\ project \in BOOLEAN
      /\ SequencesOK(sequences) /\ ScenesOK(sequences, scenes) /\ ShotsOK(scenes, shots)
  BY DEF TopologyInv
<1>2. project' = project /\ sequences' = sequences /\ shots' = shots
  BY DEF DeleteScene
<1>3. Placed' = Placed
  BY <1>2, PlacedNext DEF Placed
<1>4. PICK T : T = scenes'
  OBVIOUS
<1>5. /\ c \in Live(scenes) /\ Of(shots, c) = {} /\ ~Anchored("scene", c)
      /\ T = CompactActive(Tombstone(scenes, c), In(scenes, scenes[c].sequence) \ {c})
  BY <1>4, MembersAre DEF DeleteScene
<1>6. ScenesOK(sequences, T) /\ ShotsOK(T, shots) /\ Live(T) = Live(scenes) \ {c}
  BY <1>1, <1>5, DeleteSceneOK
<1>7. TopologyInv'
  BY <1>1, <1>2, <1>4, <1>6, TopologyInvNext
<1>8. \A x \in Live(scenes) : x \in Live(scenes') \/ ~Anchored("scene", x)
  BY <1>4, <1>5, <1>6
<1>9. KeepsAnchored
  BY <1>2, <1>3, <1>8, BoundariesStay
<1> QED
  BY <1>7, <1>9

\* Reordering the scenes of a sequence moves positions only.
LEMMA ReorderScenesStep ==
    ASSUME TopologyInv, NEW q \in Sequence, NEW list \in Seq(Scene), ReorderScenes(q, list)
    PROVE  TopologyInv' /\ KeepsAnchored
<1>1. /\ project \in BOOLEAN
      /\ SequencesOK(sequences) /\ ScenesOK(sequences, scenes) /\ ShotsOK(scenes, shots)
  BY DEF TopologyInv
<1>2. project' = project /\ sequences' = sequences /\ shots' = shots
  BY DEF ReorderScenes
<1>3. Placed' = Placed
  BY <1>2, PlacedNext DEF Placed
<1>4. PICK T : T = scenes'
  OBVIOUS
<1>5. q \in Live(sequences) /\ ExactSet(list, In(scenes, q)) /\ T = ReorderFullSet(scenes, list)
  BY <1>4, MembersAre DEF ReorderScenes
<1>6. ScenesOK(sequences, T) /\ ShotsOK(T, shots) /\ Live(T) = Live(scenes)
  BY <1>1, <1>5, ReorderScenesOK
<1>7. TopologyInv'
  BY <1>1, <1>2, <1>4, <1>6, TopologyInvNext
<1>8. KeepsAnchored
  BY <1>2, <1>3, <1>4, <1>6, BoundariesStay
<1> QED
  BY <1>7, <1>8

\* Assigning a scene's shots unplaces none that a transition is anchored at.
LEMMA AssignSceneShotsStep ==
    ASSUME TopologyInv, NEW c \in Scene, NEW list \in Seq(Shot), AssignSceneShots(c, list)
    PROVE  TopologyInv' /\ KeepsAnchored
<1>1. /\ project \in BOOLEAN
      /\ SequencesOK(sequences) /\ ScenesOK(sequences, scenes) /\ ShotsOK(scenes, shots)
  BY DEF TopologyInv
<1>2. project' = project /\ sequences' = sequences /\ scenes' = scenes
  BY DEF AssignSceneShots
<1>3. PICK T : T = shots'
  OBVIOUS
<1>4. \A s \in Of(shots, c) \ ToSet(list) : ~Anchored("shot", s)
  BY MembersAre DEF AssignSceneShots
<1>6. /\ ShotsOK(scenes, T) /\ Live(T) = Live(shots)
      /\ \A s \in Live(shots) : /\ s \notin Of(shots, c) \ ToSet(list) /\ shots[s].scene # None
                                       => T[s].scene = shots[s].scene
                                /\ s \in ToSet(list) => T[s].scene = c
  BY <1>3, AssignSceneShotsOK
<1>7. TopologyInv'
  BY <1>1, <1>2, <1>3, <1>6, TopologyInvNext
<1>8. ASSUME NEW s \in Placed PROVE s \in Placed' \/ ~Anchored("shot", s)
  <2>1. s \in Live(shots) /\ shots[s].scene # None
    BY DEF Placed
  <2>2. CASE s \in Of(shots, c) \ ToSet(list)
    BY <1>4, <2>2
  <2>3. CASE s \notin Of(shots, c) \ ToSet(list)
    <3>1. T[s].scene = shots[s].scene
      BY <1>6, <2>1, <2>3
    <3> QED
      BY <1>3, <1>6, <2>1, <3>1, PlacedNext
  <2> QED
    BY <2>2, <2>3
<1>9. KeepsAnchored
  BY <1>2, <1>8, BoundariesStay
<1> QED
  BY <1>7, <1>9

\* Creating a shot, which is unplaced, and deleting one that nothing hangs on.
LEMMA ShotSteps ==
    ASSUME TopologyInv, NEW s \in Shot, CreateShot(s) \/ DeleteShot(s)
    PROVE  TopologyInv' /\ KeepsAnchored
<1>1. /\ project \in BOOLEAN
      /\ SequencesOK(sequences) /\ ScenesOK(sequences, scenes) /\ ShotsOK(scenes, shots)
  BY DEF TopologyInv
<1>2. project' = project /\ sequences' = sequences /\ scenes' = scenes
  BY DEF CreateShot, DeleteShot
<1>3. PICK T : T = shots'
  OBVIOUS
<1>4. CASE CreateShot(s)
  <2>1. /\ s \notin DOMAIN shots
        /\ T = With(shots, s, [scene |-> None, position |-> 0, live |-> TRUE,
                               number |-> 1 + Max({0} \cup {shots[x].number : x \in DOMAIN shots})])
    BY <1>3, <1>4 DEF CreateShot
  <2>2. DOMAIN scenes \subseteq Scene
    BY <1>1 DEF ScenesOK
  <2>3. /\ ShotsOK(scenes, T) /\ Live(shots) \subseteq Live(T)
        /\ \A x \in Live(shots) : T[x] = shots[x]
    BY <1>1, <2>1, <2>2, CreateShotOK
  <2>4. TopologyInv'
    BY <1>1, <1>2, <1>3, <2>3, TopologyInvNext
  <2>5. \A x \in Placed : x \in Placed'
    BY <1>3, <2>3, PlacedNext DEF Placed
  <2>6. KeepsAnchored
    BY <1>2, <2>5, BoundariesStay
  <2> QED
    BY <2>4, <2>6
<1>5. CASE DeleteShot(s)
  <2>1. s \in Live(shots) /\ ~Anchored("shot", s) /\ T = Tombstone(shots, s)
    BY <1>3, <1>5 DEF DeleteShot
  <2>2. /\ ShotsOK(scenes, T) /\ Live(T) = Live(shots) \ {s}
        /\ \A x \in Live(T) : T[x] = shots[x]
    BY <1>1, <2>1, DeleteShotOK
  <2>3. TopologyInv'
    BY <1>1, <1>2, <1>3, <2>2, TopologyInvNext
  <2>4. \A x \in Placed : x \in Placed' \/ ~Anchored("shot", x)
    BY <1>3, <2>1, <2>2, PlacedNext DEF Placed
  <2>5. KeepsAnchored
    BY <1>2, <2>4, BoundariesStay
  <2> QED
    BY <2>3, <2>5
<1> QED
  BY <1>4, <1>5

\* Every edit of the topology keeps it sound, and every anchored boundary.
LEMMA NarrativeKeeps ==
    ASSUME TopologyInv, NarrativeStep
    PROVE  TopologyInv' /\ KeepsAnchored /\ transitions' = transitions
<1>1. transitions' = transitions
  BY Zenon DEF NarrativeStep, CreateSequence, DeleteSequence, ReorderSequences, CreateScene, DeleteScene,
     ReorderScenes, AssignSceneShots, CreateShot, DeleteShot
<1>2. CASE \E q \in Sequence : CreateSequence(q) \/ DeleteSequence(q)
  BY <1>1, <1>2, SequenceSteps
<1>3. CASE \E list \in Seq(Sequence) : ReorderSequences(list)
  BY <1>1, <1>3, ReorderSequencesStep
<1>4. CASE \E c \in Scene, q \in Sequence : CreateScene(c, q)
  BY <1>1, <1>4, CreateSceneStep
<1>5. CASE \E c \in Scene : DeleteScene(c)
  BY <1>1, <1>5, DeleteSceneStep
<1>6. CASE \E q \in Sequence, list \in Seq(Scene) : ReorderScenes(q, list)
  BY <1>1, <1>6, ReorderScenesStep
<1>7. CASE \E c \in Scene, list \in Seq(Shot) : AssignSceneShots(c, list)
  BY <1>1, <1>7, AssignSceneShotsStep
<1>8. CASE \E s \in Shot : CreateShot(s) \/ DeleteShot(s)
  BY <1>1, <1>8, ShotSteps
<1> QED
  BY <1>2, <1>3, <1>4, <1>5, <1>6, <1>7, <1>8 DEF NarrativeStep

-----------------------------------------------------------------------------
(* The inductive invariant: the story.                                     *)

EntityRow == [live : BOOLEAN]
FeatureRow == [entity : Entity, key : FeatureKeys, supersedes : Feature \cup {None}, live : BOOLEAN]
RelationRow == [subject : Entity, predicate : Predicate, object : Entity, live : BOOLEAN]

StoryTyped ==
    /\ DOMAIN entities \subseteq Entity /\ entities \in [DOMAIN entities -> EntityRow]
    /\ DOMAIN features \subseteq Feature /\ features \in [DOMAIN features -> FeatureRow]
    /\ DOMAIN predicates \subseteq Predicate /\ predicates \in [DOMAIN predicates -> EntityRow]
    /\ DOMAIN relations \subseteq Relation /\ relations \in [DOMAIN relations -> RelationRow]
    /\ deps \in [Shot -> SUBSET [entity : Entity, role : Roles]]

\* What a row names exists, deleted or not.
NamesExist ==
    /\ \A r \in entityRevs : r.entity \in DOMAIN entities /\ r.spec \in Specs
    /\ \A e \in DOMAIN approved : \E r \in entityRevs : r.entity = e /\ r.number = approved[e]
    /\ \A f \in DOMAIN features : /\ features[f].entity \in DOMAIN entities
                                  /\ features[f].supersedes \in DOMAIN features \cup {None}
    /\ \A r \in DOMAIN relations : /\ relations[r].subject \in DOMAIN entities
                                   /\ relations[r].object \in DOMAIN entities
                                   /\ relations[r].predicate \in DOMAIN predicates

RowTyped(t) ==
    /\ t = [id |-> t.id, family |-> t.family, owner |-> t.owner, anchor |-> t.anchor,
            value |-> t.value, live |-> t.live]
    /\ t.anchor \in Anchors /\ t.live \in BOOLEAN
    /\ t.id \in 1..MaxTransitions /\ t.value \in Values \cup {Clear, "active"}

RowsTyped == IsFiniteSet(transitions) /\ \A t \in transitions : RowTyped(t)

AnchorsHold == \A t \in Active : t.family \in GuardedFamilies => t.anchor \in BoundarySet

\* A shot has no dependencies before it is created.
NoEarlyNeeds == \A s \in Shot : s \notin DOMAIN shots => deps[s] = {}

RelationsGuarded ==
    \A r \in Live(relations) :
        RelationInputs(relations[r].subject, relations[r].predicate, relations[r].object)

FeaturesGuarded == \A f \in Live(features) : features[f].entity \in Live(entities)

RowsGuarded ==
    \A t \in Active : /\ t.family = "feature" => t.owner \in Live(features)
                      /\ t.family = "relation" => t.owner \in Live(relations)

StoryInv ==
    /\ StoryTyped /\ NamesExist
    /\ RelationsGuarded /\ FeaturesGuarded /\ DependenciesResolve /\ NoEarlyNeeds

TransitionsInv == RowsTyped /\ RowsGuarded /\ AnchorsHold /\ WinnerUnique

ContinuityInv == TopologyInv /\ StoryInv /\ TransitionsInv

\* A table with one more row, an active one.
LEMMA LiveWith ==
    ASSUME NEW table, NEW x, x \notin DOMAIN table, NEW row, NEW T, T = With(table, x, row), x \in Live(T)
    PROVE  Live(T) = Live(table) \cup {x}
<1>1. DOMAIN T = DOMAIN table \cup {x} /\ \A y \in DOMAIN table : T[y] = table[y]
  BY DEF With
<1>2. \A y \in DOMAIN table : T[y].live = table[y].live
  BY <1>1
<1> QED
  BY <1>1, <1>2 DEF Live

\* A row that is deleted.
LEMMA TombstoneTyped ==
    ASSUME NEW R, NEW table, table \in [DOMAIN table -> R], NEW x \in DOMAIN table,
           [table[x] EXCEPT !.live = FALSE] \in R
    PROVE  Tombstone(table, x) \in [DOMAIN table -> R]
BY DEF Tombstone

\* A deleted row is the one that is active no more.
LEMMA LiveTombstone ==
    ASSUME NEW table, NEW x, NEW T, T = Tombstone(table, x), x \notin Live(T)
    PROVE  Live(T) = Live(table) \ {x}
<1>1. /\ DOMAIN T = DOMAIN table
      /\ \A y \in DOMAIN table : y # x => T[y] = table[y]
  BY DEF Tombstone
<1> QED
  BY <1>1 DEF Live

\* A deleted row keeps its type and all that it says but its life.
LEMMA RowsDie ==
    /\ \A r \in EntityRow : [r EXCEPT !.live = FALSE] \in EntityRow /\ [r EXCEPT !.live = FALSE].live = FALSE
    /\ \A r \in FeatureRow : /\ [r EXCEPT !.live = FALSE] \in FeatureRow
                             /\ [r EXCEPT !.live = FALSE].live = FALSE
                             /\ [r EXCEPT !.live = FALSE].entity = r.entity
                             /\ [r EXCEPT !.live = FALSE].supersedes = r.supersedes
    /\ \A r \in RelationRow : /\ [r EXCEPT !.live = FALSE] \in RelationRow
                              /\ [r EXCEPT !.live = FALSE].live = FALSE
                              /\ [r EXCEPT !.live = FALSE].subject = r.subject
                              /\ [r EXCEPT !.live = FALSE].predicate = r.predicate
                              /\ [r EXCEPT !.live = FALSE].object = r.object
BY DEF EntityRow, FeatureRow, RelationRow

-----------------------------------------------------------------------------
(* Every operation on the story keeps the invariant.                       *)

\* A new entity hangs on nothing, and nothing hung on it.
LEMMA CreateEntityStep ==
    ASSUME StoryInv, NEW e \in Entity, CreateEntity(e)
    PROVE  StoryInv'
<1>1. /\ shots' = shots /\ entityRevs' = entityRevs /\ approved' = approved /\ deps' = deps
      /\ features' = features /\ predicates' = predicates /\ relations' = relations
  BY DEF CreateEntity, narrativeVars
<1>2. PICK T : T = entities'
  OBVIOUS
<1>3. e \notin DOMAIN entities /\ T = With(entities, e, [live |-> TRUE])
  BY <1>2 DEF CreateEntity
<1>4. /\ DOMAIN T = DOMAIN entities \cup {e} /\ T \in [DOMAIN T -> EntityRow]
      /\ Live(T) = Live(entities) \cup {e}
  <2>1. PICK row : row = [live |-> TRUE]
    OBVIOUS
  <2>2. row \in EntityRow /\ row.live /\ T = With(entities, e, row)
    BY <1>3, <2>1 DEF EntityRow
  <2>3. entities \in [DOMAIN entities -> EntityRow]
    BY DEF StoryInv, StoryTyped
  <2>4. T \in [DOMAIN entities \cup {e} -> EntityRow]
    <3>1. With(entities, e, row) \in [DOMAIN entities \cup {e} -> EntityRow]
      BY <1>3, <2>2, <2>3, WithTyped
    <3> QED
      BY <2>2, <3>1
  <2>5. T[e] = row
    BY <2>2 DEF With
  <2>6. e \in Live(T)
    BY <2>2, <2>4, <2>5 DEF Live
  <2>7. Live(T) = Live(entities) \cup {e}
    BY <1>3, <2>2, <2>6, LiveWith
  <2> QED
    BY <2>4, <2>7
<1>5. StoryTyped'
  BY <1>1, <1>2, <1>4 DEF StoryInv, StoryTyped
<1>6. NamesExist'
  BY <1>1, <1>2, <1>4 DEF StoryInv, NamesExist
<1>7. RelationsGuarded'
  <2>1. Live(entities') = Live(entities) \cup {e}
    BY <1>2, <1>4
  <2>2. /\ Live(relations)' = Live(relations) /\ Live(predicates)' = Live(predicates)
    BY <1>1 DEF Live
  <2> QED
    BY <1>1, <2>1, <2>2 DEF StoryInv, RelationsGuarded, RelationInputs
<1>8. FeaturesGuarded' /\ DependenciesResolve'
  BY <1>1, <1>2, <1>4 DEF StoryInv, FeaturesGuarded, DependenciesResolve
<1>9. NoEarlyNeeds'
  BY <1>1 DEF StoryInv, NoEarlyNeeds
<1> QED
  BY <1>5, <1>6, <1>7, <1>8, <1>9 DEF StoryInv

\* An entity is deleted when no dependency, feature or relation is left on it.
LEMMA DeleteEntityStep ==
    ASSUME StoryInv, NEW e \in Entity, DeleteEntity(e)
    PROVE  StoryInv'
<1>1. /\ shots' = shots /\ entityRevs' = entityRevs /\ approved' = approved /\ deps' = deps
      /\ features' = features /\ predicates' = predicates /\ relations' = relations
  BY DEF DeleteEntity, narrativeVars
<1>2. PICK T : T = entities'
  OBVIOUS
<1>3. e \in DOMAIN entities /\ ~EntityInUse(e) /\ T = Tombstone(entities, e)
  BY <1>2 DEF DeleteEntity, Live
<1>4. /\ DOMAIN T = DOMAIN entities /\ T \in [DOMAIN T -> EntityRow]
      /\ Live(T) = Live(entities) \ {e}
  <2>1. entities \in [DOMAIN entities -> EntityRow]
    BY DEF StoryInv, StoryTyped
  <2>2. PICK row : row = [entities[e] EXCEPT !.live = FALSE]
    OBVIOUS
  <2>3. row \in EntityRow /\ ~row.live
    BY <1>3, <2>1, <2>2, RowsDie
  <2>4. T \in [DOMAIN entities -> EntityRow]
    BY <1>3, <2>1, <2>2, <2>3, TombstoneTyped
  <2>5. T[e] = row
    BY <1>3, <2>2 DEF Tombstone
  <2>6. e \notin Live(T)
    BY <2>3, <2>5 DEF Live
  <2>7. Live(T) = Live(entities) \ {e}
    BY <1>3, <2>6, LiveTombstone
  <2> QED
    BY <2>4, <2>7
<1>5. StoryTyped'
  BY <1>1, <1>2, <1>4 DEF StoryInv, StoryTyped
<1>6. NamesExist'
  BY <1>1, <1>2, <1>4 DEF StoryInv, NamesExist
<1>7. RelationsGuarded'
  <2>1. Live(entities') = Live(entities) \ {e}
    BY <1>2, <1>4
  <2>2. Live(relations)' = Live(relations) /\ Live(predicates)' = Live(predicates)
    BY <1>1 DEF Live
  <2>3. \A r \in Live(relations) : e # relations[r].subject /\ e # relations[r].object
    BY <1>3 DEF EntityInUse
  <2> QED
    BY <1>1, <2>1, <2>2, <2>3 DEF StoryInv, RelationsGuarded, RelationInputs
<1>8. FeaturesGuarded'
  BY <1>1, <1>2, <1>3, <1>4 DEF StoryInv, FeaturesGuarded, EntityInUse
<1>9. DependenciesResolve'
  BY <1>1, <1>2, <1>3, <1>4 DEF StoryInv, DependenciesResolve, EntityInUse, DepEntities
<1>10. NoEarlyNeeds'
  BY <1>1 DEF StoryInv, NoEarlyNeeds
<1> QED
  BY <1>5, <1>6, <1>7, <1>8, <1>9, <1>10 DEF StoryInv

\* Revisions are added and approved; what is approved exists.
LEMMA RevisionSteps ==
    ASSUME StoryInv, NEW e \in Entity,
           (\E spec \in Specs : CreateRevision(e, spec))
           \/ (\E n \in Nat, x \in Nat \cup {None} : ApproveRevision(e, n, x))
    PROVE  StoryInv'
<1>1. /\ shots' = shots /\ entities' = entities /\ deps' = deps
      /\ features' = features /\ predicates' = predicates /\ relations' = relations
  BY Zenon DEF CreateRevision, ApproveRevision, narrativeVars
<1>2. StoryTyped' /\ RelationsGuarded' /\ FeaturesGuarded' /\ NoEarlyNeeds'
  BY <1>1 DEF StoryInv, StoryTyped, RelationsGuarded, FeaturesGuarded, NoEarlyNeeds, RelationInputs
<1>3. CASE \E spec \in Specs : CreateRevision(e, spec)
  <2>1. PICK spec \in Specs : CreateRevision(e, spec)
    BY <1>3
  <2>2. PICK n : n = 1 + Max({0} \cup {r.number : r \in RevsOf(e)})
    OBVIOUS
  <2>3. /\ approved' = approved /\ e \in DOMAIN entities
        /\ entityRevs' = entityRevs \cup {[entity |-> e, spec |-> spec, number |-> n]}
    BY <2>1, <2>2 DEF CreateRevision, Live
  <2>4. NamesExist'
    BY <1>1, <2>3 DEF StoryInv, NamesExist
  <2>5. DependenciesResolve'
    BY <1>1, <2>3 DEF StoryInv, DependenciesResolve
  <2> QED
    BY <1>2, <2>4, <2>5 DEF StoryInv
<1>4. CASE \E n \in Nat, x \in Nat \cup {None} : ApproveRevision(e, n, x)
  <2>1. PICK n \in Nat, x \in Nat \cup {None} : ApproveRevision(e, n, x)
    BY <1>4
  <2>2. /\ entityRevs' = entityRevs /\ approved' = With(approved, e, n)
        /\ \E r \in entityRevs : r.entity = e /\ r.number = n
    BY <2>1 DEF ApproveRevision, RevsOf
  <2>3. /\ DOMAIN approved' = DOMAIN approved \cup {e}
        /\ \A y \in DOMAIN approved' : approved'[y] = IF y = e THEN n ELSE approved[y]
    BY <2>2 DEF With
  <2>4. NamesExist'
    BY <1>1, <2>2, <2>3 DEF StoryInv, NamesExist
  <2>5. DependenciesResolve'
    BY <1>1, <2>3 DEF StoryInv, DependenciesResolve
  <2> QED
    BY <1>2, <2>4, <2>5 DEF StoryInv
<1> QED
  BY <1>3, <1>4

\* A shot's dependencies are replaced by ones that resolve.
LEMMA ReplaceDependenciesStep ==
    ASSUME StoryInv, NEW s \in Shot, NEW set \in SUBSET [entity : Entity, role : Roles],
           ReplaceSemanticDependencies(s, set)
    PROVE  StoryInv'
<1>1. /\ shots' = shots /\ entities' = entities /\ entityRevs' = entityRevs /\ approved' = approved
      /\ features' = features /\ predicates' = predicates /\ relations' = relations
  BY DEF ReplaceSemanticDependencies, narrativeVars
<1>2. /\ s \in DOMAIN shots /\ deps' = [deps EXCEPT ![s] = set]
      /\ \A d \in set : d.entity \in Live(entities) /\ d.entity \in DOMAIN approved
  BY DEF ReplaceSemanticDependencies, Live
<1>3. deps \in [Shot -> SUBSET [entity : Entity, role : Roles]]
  BY DEF StoryInv, StoryTyped
<1>4. deps' \in [Shot -> SUBSET [entity : Entity, role : Roles]]
  BY <1>2, <1>3
<1>5. StoryTyped'
  BY <1>1, <1>4 DEF StoryInv, StoryTyped
<1>6. NamesExist' /\ RelationsGuarded' /\ FeaturesGuarded'
  BY <1>1 DEF StoryInv, NamesExist, RelationsGuarded, FeaturesGuarded, RelationInputs
<1>7. DependenciesResolve'
  <2>1. SUFFICES ASSUME NEW x \in Live(shots), NEW d \in deps'[x]
                 PROVE  d.entity \in Live(entities) /\ d.entity \in DOMAIN approved
    BY <1>1 DEF DependenciesResolve
  <2>2. CASE x = s
    BY <1>2, <1>3, <2>2
  <2>3. CASE x # s
    <3>1. d \in deps[x]
      BY <1>2, <1>3, <2>3
    <3> QED
      BY <3>1 DEF StoryInv, DependenciesResolve
  <2> QED
    BY <2>2, <2>3
<1>8. NoEarlyNeeds'
  BY <1>1, <1>2, <1>3 DEF StoryInv, NoEarlyNeeds
<1> QED
  BY <1>5, <1>6, <1>7, <1>8 DEF StoryInv

\* A new feature hangs on an active entity.
LEMMA CreateFeatureStep ==
    ASSUME StoryInv, RowsGuarded, NEW f \in Feature, NEW e \in Entity, NEW key \in FeatureKeys,
           NEW pred \in Feature \cup {None}, CreateFeature(f, e, key, pred)
    PROVE  StoryInv' /\ RowsGuarded'
<1>1. /\ shots' = shots /\ entities' = entities /\ entityRevs' = entityRevs /\ approved' = approved
      /\ deps' = deps /\ predicates' = predicates /\ relations' = relations /\ transitions' = transitions
  BY DEF CreateFeature, narrativeVars
<1>2. PICK T, row : T = features' /\ row = [entity |-> e, key |-> key, supersedes |-> pred, live |-> TRUE]
  OBVIOUS
<1>3. /\ e \in Live(entities) /\ f \notin DOMAIN features /\ T = With(features, f, row)
      /\ pred \in DOMAIN features \cup {None}
  BY <1>2 DEF CreateFeature, FeaturesOf
<1>4. /\ DOMAIN T = DOMAIN features \cup {f} /\ T \in [DOMAIN T -> FeatureRow]
      /\ T[f] = row /\ \A y \in DOMAIN features : T[y] = features[y]
      /\ Live(T) = Live(features) \cup {f}
  <2>1. row \in FeatureRow /\ row.live = TRUE
    BY <1>2 DEF FeatureRow
  <2>2. features \in [DOMAIN features -> FeatureRow]
    BY DEF StoryInv, StoryTyped
  <2>4. T \in [DOMAIN features \cup {f} -> FeatureRow]
    BY <1>3, <2>1, <2>2, WithTyped
  <2>5. T[f] = row /\ \A y \in DOMAIN features : T[y] = features[y]
    BY <1>3 DEF With
  <2>6. f \in Live(T)
    BY <2>1, <2>4, <2>5 DEF Live
  <2>7. Live(T) = Live(features) \cup {f}
    BY <1>3, <2>6, LiveWith
  <2> QED
    BY <2>4, <2>5, <2>7
<1>5. row.entity = e /\ row.supersedes = pred
  BY <1>2
<1>6. StoryTyped'
  BY <1>1, <1>2, <1>4 DEF StoryInv, StoryTyped
<1>7. NamesExist'
  <2>1. \A x \in DOMAIN T : T[x].entity \in DOMAIN entities /\ T[x].supersedes \in DOMAIN T \cup {None}
    BY <1>3, <1>4, <1>5 DEF StoryInv, NamesExist, Live
  <2> QED
    BY <1>1, <1>2, <2>1 DEF StoryInv, NamesExist
<1>8. RelationsGuarded' /\ DependenciesResolve' /\ NoEarlyNeeds'
  BY <1>1 DEF StoryInv, RelationsGuarded, DependenciesResolve, NoEarlyNeeds, RelationInputs
<1>9. FeaturesGuarded'
  <2>1. \A x \in Live(T) : T[x].entity \in Live(entities)
    BY <1>3, <1>4, <1>5 DEF StoryInv, FeaturesGuarded, Live
  <2> QED
    BY <1>1, <1>2, <2>1 DEF FeaturesGuarded
<1>10. RowsGuarded'
  BY <1>1, <1>2, <1>4 DEF RowsGuarded, Active
<1> QED
  BY <1>6, <1>7, <1>8, <1>9, <1>10 DEF StoryInv

\* A feature is deleted when no active transition is left on it.
LEMMA DeleteFeatureStep ==
    ASSUME StoryInv, RowsGuarded, NEW f \in Feature, DeleteFeature(f)
    PROVE  StoryInv' /\ RowsGuarded'
<1>1. /\ shots' = shots /\ entities' = entities /\ entityRevs' = entityRevs /\ approved' = approved
      /\ deps' = deps /\ predicates' = predicates /\ relations' = relations /\ transitions' = transitions
  BY DEF DeleteFeature, narrativeVars
<1>2. PICK T : T = features'
  OBVIOUS
<1>3. f \in DOMAIN features /\ ~Carries("feature", f) /\ T = Tombstone(features, f)
  BY <1>2 DEF DeleteFeature, Live
<1>t. features \in [DOMAIN features -> FeatureRow]
  BY DEF StoryInv, StoryTyped
<1>4. /\ DOMAIN T = DOMAIN features /\ T \in [DOMAIN T -> FeatureRow]
      /\ T[f] = [features[f] EXCEPT !.live = FALSE]
      /\ \A y \in DOMAIN features : y # f => T[y] = features[y]
      /\ Live(T) = Live(features) \ {f}
  <2>1. PICK row : row = [features[f] EXCEPT !.live = FALSE]
    OBVIOUS
  <2>2. row \in FeatureRow /\ ~row.live
    BY <1>3, <1>t, <2>1, RowsDie
  <2>3. T \in [DOMAIN features -> FeatureRow]
    BY <1>3, <1>t, <2>1, <2>2, TombstoneTyped
  <2>4. T[f] = row /\ \A y \in DOMAIN features : y # f => T[y] = features[y]
    BY <1>3, <2>1 DEF Tombstone
  <2>5. f \notin Live(T)
    BY <2>2, <2>4 DEF Live
  <2>6. Live(T) = Live(features) \ {f}
    BY <1>3, <2>5, LiveTombstone
  <2> QED
    BY <2>1, <2>3, <2>4, <2>6
<1>5. T[f].entity = features[f].entity /\ T[f].supersedes = features[f].supersedes
  BY <1>3, <1>4, <1>t, RowsDie
<1>6. StoryTyped'
  BY <1>1, <1>2, <1>4 DEF StoryInv, StoryTyped
<1>7. NamesExist'
  <2>1. \A x \in DOMAIN T : T[x].entity \in DOMAIN entities /\ T[x].supersedes \in DOMAIN T \cup {None}
    BY <1>3, <1>4, <1>5 DEF StoryInv, NamesExist
  <2> QED
    BY <1>1, <1>2, <2>1 DEF StoryInv, NamesExist
<1>8. RelationsGuarded' /\ DependenciesResolve' /\ NoEarlyNeeds'
  BY <1>1 DEF StoryInv, RelationsGuarded, DependenciesResolve, NoEarlyNeeds, RelationInputs
<1>9. FeaturesGuarded'
  <2>1. \A x \in Live(T) : T[x].entity \in Live(entities)
    BY <1>4 DEF StoryInv, FeaturesGuarded, Live
  <2> QED
    BY <1>1, <1>2, <2>1 DEF FeaturesGuarded
<1>10. RowsGuarded'
  BY <1>1, <1>2, <1>3, <1>4 DEF RowsGuarded, Active, Carries
<1> QED
  BY <1>6, <1>7, <1>8, <1>9, <1>10 DEF StoryInv

\* Predicates come, and go when no relation is left on them.
LEMMA PredicateSteps ==
    ASSUME StoryInv, RowsGuarded, NEW p \in Predicate, CreatePredicate(p) \/ DeletePredicate(p)
    PROVE  StoryInv' /\ RowsGuarded'
<1>1. /\ shots' = shots /\ entities' = entities /\ entityRevs' = entityRevs /\ approved' = approved
      /\ deps' = deps /\ features' = features /\ relations' = relations /\ transitions' = transitions
  BY DEF CreatePredicate, DeletePredicate, narrativeVars
<1>2. PICK T : T = predicates'
  OBVIOUS
<1>t. predicates \in [DOMAIN predicates -> EntityRow]
  BY DEF StoryInv, StoryTyped
<1>3. /\ DOMAIN predicates \subseteq DOMAIN T /\ T \in [DOMAIN T -> EntityRow] /\ DOMAIN T \subseteq Predicate
      /\ \A r \in Live(relations) : relations[r].predicate \in Live(T)
  <2>g. \A r \in Live(relations) : relations[r].predicate \in Live(predicates)
    BY DEF StoryInv, RelationsGuarded, RelationInputs
  <2>p. DOMAIN predicates \subseteq Predicate
    BY DEF StoryInv, StoryTyped
  <2>1. CASE CreatePredicate(p)
    <3>1. PICK row : row = [live |-> TRUE]
      OBVIOUS
    <3>2. row \in EntityRow /\ row.live = TRUE /\ p \notin DOMAIN predicates /\ T = With(predicates, p, row)
      BY <1>2, <2>1, <3>1 DEF EntityRow, CreatePredicate
    <3>3. /\ DOMAIN T = DOMAIN predicates \cup {p} /\ T \in [DOMAIN T -> EntityRow]
          /\ Live(T) = Live(predicates) \cup {p}
      <4>1. T \in [DOMAIN predicates \cup {p} -> EntityRow]
        BY <1>t, <3>2, WithTyped
      <4>2. T[p] = row
        BY <3>2 DEF With
      <4>3. p \in Live(T)
        BY <3>2, <4>1, <4>2 DEF Live
      <4>4. Live(T) = Live(predicates) \cup {p}
        BY <3>2, <4>3, LiveWith
      <4> QED
        BY <4>1, <4>4
    <3> QED
      BY <2>g, <2>p, <3>3
  <2>2. CASE DeletePredicate(p)
    <3>1. /\ p \in DOMAIN predicates /\ T = Tombstone(predicates, p)
          /\ \A r \in Live(relations) : relations[r].predicate # p
      BY <1>2, <2>2 DEF DeletePredicate, Live
    <3>2. /\ DOMAIN T = DOMAIN predicates /\ T \in [DOMAIN T -> EntityRow]
          /\ Live(T) = Live(predicates) \ {p}
      <4>1. PICK row : row = [predicates[p] EXCEPT !.live = FALSE]
        OBVIOUS
      <4>2. row \in EntityRow /\ ~row.live
        BY <1>t, <3>1, <4>1, RowsDie
      <4>3. T \in [DOMAIN predicates -> EntityRow]
        BY <1>t, <3>1, <4>1, <4>2, TombstoneTyped
      <4>4. T[p] = row
        BY <3>1, <4>1 DEF Tombstone
      <4>5. p \notin Live(T)
        BY <4>2, <4>4 DEF Live
      <4>6. Live(T) = Live(predicates) \ {p}
        BY <3>1, <4>5, LiveTombstone
      <4> QED
        BY <4>3, <4>6
    <3> QED
      BY <2>g, <2>p, <3>1, <3>2
  <2> QED
    BY <2>1, <2>2
<1>4. StoryTyped'
  BY <1>1, <1>2, <1>3 DEF StoryInv, StoryTyped
<1>5. NamesExist'
  BY <1>1, <1>2, <1>3 DEF StoryInv, NamesExist
<1>6. RelationsGuarded'
  <2>1. Live(relations)' = Live(relations) /\ Live(entities)' = Live(entities)
    BY <1>1 DEF Live
  <2> QED
    BY <1>1, <1>2, <1>3, <2>1 DEF StoryInv, RelationsGuarded, RelationInputs
<1>7. FeaturesGuarded' /\ DependenciesResolve' /\ NoEarlyNeeds' /\ RowsGuarded'
  BY <1>1 DEF StoryInv, FeaturesGuarded, DependenciesResolve, NoEarlyNeeds, RowsGuarded, Active
<1> QED
  BY <1>4, <1>5, <1>6, <1>7 DEF StoryInv

\* A new relation hangs on active entities and an active predicate.
LEMMA CreateRelationStep ==
    ASSUME StoryInv, RowsGuarded, NEW r \in Relation, NEW e \in Entity, NEW o \in Entity,
           NEW p \in Predicate, CreateRelation(r, e, p, o)
    PROVE  StoryInv' /\ RowsGuarded'
<1>1. /\ shots' = shots /\ entities' = entities /\ entityRevs' = entityRevs /\ approved' = approved
      /\ deps' = deps /\ predicates' = predicates /\ features' = features /\ transitions' = transitions
  BY DEF CreateRelation, narrativeVars
<1>2. PICK T, row : T = relations' /\ row = [subject |-> e, predicate |-> p, object |-> o, live |-> TRUE]
  OBVIOUS
<1>3. r \notin DOMAIN relations /\ RelationInputs(e, p, o) /\ T = With(relations, r, row)
  BY <1>2 DEF CreateRelation
<1>4. /\ DOMAIN T = DOMAIN relations \cup {r} /\ T \in [DOMAIN T -> RelationRow]
      /\ T[r] = row /\ \A y \in DOMAIN relations : T[y] = relations[y]
      /\ Live(T) = Live(relations) \cup {r}
  <2>1. row \in RelationRow /\ row.live = TRUE
    BY <1>2 DEF RelationRow
  <2>2. relations \in [DOMAIN relations -> RelationRow]
    BY DEF StoryInv, StoryTyped
  <2>4. T \in [DOMAIN relations \cup {r} -> RelationRow]
    BY <1>3, <2>1, <2>2, WithTyped
  <2>5. T[r] = row /\ \A y \in DOMAIN relations : T[y] = relations[y]
    BY <1>3 DEF With
  <2>6. r \in Live(T)
    BY <2>1, <2>4, <2>5 DEF Live
  <2>7. Live(T) = Live(relations) \cup {r}
    BY <1>3, <2>6, LiveWith
  <2> QED
    BY <2>4, <2>5, <2>7
<1>5. row.subject = e /\ row.predicate = p /\ row.object = o
  BY <1>2
<1>6. StoryTyped'
  BY <1>1, <1>2, <1>4 DEF StoryInv, StoryTyped
<1>7. NamesExist'
  <2>1. \A x \in DOMAIN T : /\ T[x].subject \in DOMAIN entities /\ T[x].object \in DOMAIN entities
                            /\ T[x].predicate \in DOMAIN predicates
    BY <1>3, <1>4, <1>5 DEF StoryInv, NamesExist, RelationInputs, Live
  <2> QED
    BY <1>1, <1>2, <2>1 DEF StoryInv, NamesExist
<1>8. FeaturesGuarded' /\ DependenciesResolve' /\ NoEarlyNeeds'
  BY <1>1 DEF StoryInv, FeaturesGuarded, DependenciesResolve, NoEarlyNeeds
<1>9. RelationsGuarded'
  <2>1. \A x \in Live(T) : RelationInputs(T[x].subject, T[x].predicate, T[x].object)
    BY <1>3, <1>4, <1>5 DEF StoryInv, RelationsGuarded, Live
  <2>2. Live(predicates)' = Live(predicates) /\ Live(entities)' = Live(entities)
    BY <1>1 DEF Live
  <2> QED
    BY <1>1, <1>2, <2>1, <2>2 DEF RelationsGuarded, RelationInputs
<1>10. RowsGuarded'
  BY <1>1, <1>2, <1>4 DEF RowsGuarded, Active
<1> QED
  BY <1>6, <1>7, <1>8, <1>9, <1>10 DEF StoryInv

\* A relation is deleted when no active transition is left on it.
LEMMA DeleteRelationStep ==
    ASSUME StoryInv, RowsGuarded, NEW r \in Relation, DeleteRelation(r)
    PROVE  StoryInv' /\ RowsGuarded'
<1>1. /\ shots' = shots /\ entities' = entities /\ entityRevs' = entityRevs /\ approved' = approved
      /\ deps' = deps /\ predicates' = predicates /\ features' = features /\ transitions' = transitions
  BY DEF DeleteRelation, narrativeVars
<1>2. PICK T : T = relations'
  OBVIOUS
<1>3. r \in DOMAIN relations /\ ~Carries("relation", r) /\ T = Tombstone(relations, r)
  BY <1>2 DEF DeleteRelation, Live
<1>t. relations \in [DOMAIN relations -> RelationRow]
  BY DEF StoryInv, StoryTyped
<1>4. /\ DOMAIN T = DOMAIN relations /\ T \in [DOMAIN T -> RelationRow]
      /\ T[r] = [relations[r] EXCEPT !.live = FALSE]
      /\ \A y \in DOMAIN relations : y # r => T[y] = relations[y]
      /\ Live(T) = Live(relations) \ {r}
  <2>1. PICK row : row = [relations[r] EXCEPT !.live = FALSE]
    OBVIOUS
  <2>2. row \in RelationRow /\ ~row.live
    BY <1>3, <1>t, <2>1, RowsDie
  <2>3. T \in [DOMAIN relations -> RelationRow]
    BY <1>3, <1>t, <2>1, <2>2, TombstoneTyped
  <2>4. T[r] = row /\ \A y \in DOMAIN relations : y # r => T[y] = relations[y]
    BY <1>3, <2>1 DEF Tombstone
  <2>5. r \notin Live(T)
    BY <2>2, <2>4 DEF Live
  <2>6. Live(T) = Live(relations) \ {r}
    BY <1>3, <2>5, LiveTombstone
  <2> QED
    BY <2>1, <2>3, <2>4, <2>6
<1>5. /\ T[r].subject = relations[r].subject /\ T[r].object = relations[r].object
      /\ T[r].predicate = relations[r].predicate
  BY <1>3, <1>4, <1>t, RowsDie
<1>6. StoryTyped'
  BY <1>1, <1>2, <1>4 DEF StoryInv, StoryTyped
<1>7. NamesExist'
  <2>1. \A x \in DOMAIN T : /\ T[x].subject \in DOMAIN entities /\ T[x].object \in DOMAIN entities
                            /\ T[x].predicate \in DOMAIN predicates
    BY <1>3, <1>4, <1>5 DEF StoryInv, NamesExist
  <2> QED
    BY <1>1, <1>2, <2>1 DEF StoryInv, NamesExist
<1>8. FeaturesGuarded' /\ DependenciesResolve' /\ NoEarlyNeeds'
  BY <1>1 DEF StoryInv, FeaturesGuarded, DependenciesResolve, NoEarlyNeeds
<1>9. RelationsGuarded'
  <2>1. \A x \in Live(T) : RelationInputs(T[x].subject, T[x].predicate, T[x].object)
    BY <1>4 DEF StoryInv, RelationsGuarded, Live
  <2>2. Live(predicates)' = Live(predicates) /\ Live(entities)' = Live(entities)
    BY <1>1 DEF Live
  <2> QED
    BY <1>1, <1>2, <2>1, <2>2 DEF RelationsGuarded, RelationInputs
<1>10. RowsGuarded'
  BY <1>1, <1>2, <1>3, <1>4 DEF RowsGuarded, Active, Carries
<1> QED
  BY <1>6, <1>7, <1>8, <1>9, <1>10 DEF StoryInv

\* Every operation on entities, features, predicates and relations keeps the invariant.
LEMMA WorldFactKeeps ==
    ASSUME ContinuityInv, WorldFactStep
    PROVE  ContinuityInv'
<1>1. StoryInv /\ RowsGuarded /\ TopologyInv /\ TransitionsInv
  BY DEF ContinuityInv, TransitionsInv
<1>2. UNCHANGED <<project, sequences, scenes, shots, transitions>>
  BY Zenon DEF WorldFactStep, CreateEntity, DeleteEntity, CreateRevision, ApproveRevision,
     ReplaceSemanticDependencies, CreateFeature, DeleteFeature, CreatePredicate, DeletePredicate,
     CreateRelation, DeleteRelation, narrativeVars
<1>3. RowsGuarded' \/ (features' = features /\ relations' = relations)
  BY <1>1, CreateFeatureStep, DeleteFeatureStep, PredicateSteps, CreateRelationStep, DeleteRelationStep, Zenon
     DEF WorldFactStep, CreateEntity, DeleteEntity, CreateRevision, ApproveRevision,
     ReplaceSemanticDependencies
<1>4. StoryInv'
  <2>1. CASE \E e \in Entity : CreateEntity(e) \/ DeleteEntity(e)
    BY <1>1, <2>1, CreateEntityStep, DeleteEntityStep
  <2>2. CASE \E e \in Entity, spec \in Specs : CreateRevision(e, spec)
    BY <1>1, <2>2, RevisionSteps
  <2>3. CASE \E e \in Entity, n \in Nat, x \in Nat \cup {None} : ApproveRevision(e, n, x)
    BY <1>1, <2>3, RevisionSteps
  <2>4. CASE \E s \in Shot, set \in SUBSET [entity : Entity, role : Roles] : ReplaceSemanticDependencies(s, set)
    BY <1>1, <2>4, ReplaceDependenciesStep
  <2>5. CASE \E f \in Feature, e \in Entity, key \in FeatureKeys, pred \in Feature \cup {None} :
                CreateFeature(f, e, key, pred)
    BY <1>1, <2>5, CreateFeatureStep
  <2>6. CASE \E f \in Feature : DeleteFeature(f)
    BY <1>1, <2>6, DeleteFeatureStep
  <2>7. CASE \E p \in Predicate : CreatePredicate(p) \/ DeletePredicate(p)
    BY <1>1, <2>7, PredicateSteps
  <2>8. CASE \E r \in Relation, e, o \in Entity, p \in Predicate : CreateRelation(r, e, p, o)
    BY <1>1, <2>8, CreateRelationStep
  <2>9. CASE \E r \in Relation : DeleteRelation(r)
    BY <1>1, <2>9, DeleteRelationStep
  <2> QED
    BY <2>1, <2>2, <2>3, <2>4, <2>5, <2>6, <2>7, <2>8, <2>9 DEF WorldFactStep
<1>5. RowsGuarded'
  <2>1. Active' = Active
    BY <1>2 DEF Active
  <2> QED
    BY <1>1, <1>3, <2>1 DEF RowsGuarded
<1>6. TopologyInv'
  BY <1>1, <1>2 DEF TopologyInv
<1>7. (RowsTyped /\ AnchorsHold /\ WinnerUnique)'
  BY <1>1, <1>2 DEF TransitionsInv, RowsTyped, AnchorsHold, WinnerUnique, Active, BoundarySet, Placed
<1> QED
  BY <1>4, <1>5, <1>6, <1>7 DEF ContinuityInv, TransitionsInv

\* A shot is active after an edit of the topology when it was before, or is new.
LEMMA ShotsComeAndGo ==
    ASSUME TopologyInv, NarrativeStep
    PROVE  /\ DOMAIN shots \subseteq DOMAIN shots'
           /\ \A s \in Live(shots') : s \in Live(shots) \/ s \notin DOMAIN shots
<1>1. CASE \E c \in Scene, list \in Seq(Shot) : AssignSceneShots(c, list)
  <2>1. PICK c \in Scene, list \in Seq(Shot) : AssignSceneShots(c, list)
    BY <1>1
  <2>2. Live(shots') = Live(shots)
    BY <2>1, AssignSceneShotsOK
  <2>3. DOMAIN shots' = DOMAIN shots
    BY <2>1 DEF AssignSceneShots
  <2> QED
    BY <2>2, <2>3
<1>2. CASE \E s \in Shot : CreateShot(s)
  <2>1. PICK s \in Shot : CreateShot(s)
    BY <1>2
  <2>2. PICK row : shots' = With(shots, s, row) /\ s \notin DOMAIN shots
    BY <2>1 DEF CreateShot
  <2>3. DOMAIN shots' = DOMAIN shots \cup {s} /\ \A y \in DOMAIN shots : shots'[y] = shots[y]
    BY <2>2 DEF With
  <2> QED
    BY <2>2, <2>3 DEF Live
<1>3. CASE \E s \in Shot : DeleteShot(s)
  <2>1. PICK s \in Shot : DeleteShot(s)
    BY <1>3
  <2>2. ShotsOK(scenes, shots) /\ s \in Live(shots) /\ shots' = Tombstone(shots, s)
    BY <2>1 DEF DeleteShot, TopologyInv
  <2>3. Live(shots') = Live(shots) \ {s}
    BY <2>2, DeleteShotOK
  <2>4. DOMAIN shots' = DOMAIN shots
    BY <2>2 DEF Tombstone
  <2> QED
    BY <2>3, <2>4
<1>4. CASE shots' = shots
  BY <1>4
<1> QED
  BY <1>1, <1>2, <1>3, <1>4, Zenon DEF NarrativeStep, CreateSequence, DeleteSequence, ReorderSequences,
     CreateScene, DeleteScene, ReorderScenes

\* Every edit of the topology keeps the invariant of the whole.
LEMMA TopologyKeeps ==
    ASSUME ContinuityInv, NarrativeStep, UNCHANGED storyVars
    PROVE  ContinuityInv'
<1>1. StoryInv /\ TopologyInv /\ TransitionsInv
  BY DEF ContinuityInv
<1>2. TopologyInv' /\ KeepsAnchored /\ transitions' = transitions
  BY <1>1, NarrativeKeeps
<1>3. UNCHANGED <<entities, entityRevs, approved, deps, features, predicates, relations>>
  BY DEF storyVars
<1>4. (StoryTyped /\ NamesExist /\ RelationsGuarded /\ FeaturesGuarded)'
  BY <1>1, <1>3 DEF StoryInv, StoryTyped, NamesExist, RelationsGuarded, FeaturesGuarded, RelationInputs
<1>5. /\ DOMAIN shots \subseteq DOMAIN shots'
      /\ \A s \in Live(shots') : s \in Live(shots) \/ s \notin DOMAIN shots
  BY <1>1, ShotsComeAndGo
<1>6. DependenciesResolve'
  <2>1. \A s \in Live(shots') : s \in Shot
    BY <1>2 DEF TopologyInv, ShotsOK, Live
  <2>2. \A s \in Live(shots') : s \in Live(shots) \/ deps[s] = {}
    BY <1>1, <1>5, <2>1 DEF StoryInv, NoEarlyNeeds
  <2> QED
    BY <1>1, <1>3, <2>2 DEF StoryInv, DependenciesResolve
<1>7. NoEarlyNeeds'
  BY <1>1, <1>3, <1>5 DEF StoryInv, NoEarlyNeeds
<1>8. RowsTyped' /\ RowsGuarded' /\ WinnerUnique'
  BY <1>1, <1>2, <1>3 DEF TransitionsInv, RowsTyped, RowsGuarded, WinnerUnique, Active
<1>9. AnchorsHold'
  <2> SUFFICES ASSUME NEW t \in Active, t.family \in GuardedFamilies PROVE t.anchor \in BoundarySet'
    BY <1>2 DEF AnchorsHold, Active
  <2>1. t.anchor \in BoundarySet
    BY <1>1 DEF TransitionsInv, AnchorsHold
  <2>2. Anchored(t.anchor.kind, t.anchor.id)
    BY DEF Anchored
  <2> QED
    BY <1>2, <2>1, <2>2 DEF KeepsAnchored
<1> QED
  BY <1>2, <1>4, <1>6, <1>7, <1>8, <1>9 DEF ContinuityInv, StoryInv, TransitionsInv

\* What the anchor check admits is in the stream.
LEMMA ValidAnchorHolds ==
    ASSUME NEW a \in Anchors, AnchorValid(a)
    PROVE  a \in BoundarySet
<1>1. CASE \E q \in Sequence, x \in {"start", "end"} : a = [kind |-> "sequence", id |-> q, side |-> x]
  <2>1. PICK q \in Sequence, x \in {"start", "end"} : a = [kind |-> "sequence", id |-> q, side |-> x]
    BY <1>1
  <2>2. a.kind = "sequence" /\ a.id = q /\ a \in Ends("sequence", q)
    BY <2>1 DEF Ends
  <2>3. q \in Live(sequences)
    BY <2>2 DEF AnchorValid
  <2> QED
    BY <2>2, <2>3, BoundaryIs
<1>2. CASE \E c \in Scene, x \in {"start", "end"} : a = [kind |-> "scene", id |-> c, side |-> x]
  <2>1. PICK c \in Scene, x \in {"start", "end"} : a = [kind |-> "scene", id |-> c, side |-> x]
    BY <1>2
  <2>2. a.kind = "scene" /\ a.id = c /\ a \in Ends("scene", c)
    BY <2>1 DEF Ends
  <2>3. c \in Live(scenes)
    BY <2>2 DEF AnchorValid
  <2> QED
    BY <2>2, <2>3, BoundaryIs
<1>3. CASE \E s \in Shot, x \in {"start", "end"} : a = [kind |-> "shot", id |-> s, side |-> x]
  <2>1. PICK s \in Shot, x \in {"start", "end"} : a = [kind |-> "shot", id |-> s, side |-> x]
    BY <1>3
  <2>2. a.kind = "shot" /\ a.id = s /\ a \in Ends("shot", s)
    BY <2>1 DEF Ends
  <2>3. s \in Placed
    BY <2>2 DEF AnchorValid, Placed
  <2> QED
    BY <2>2, <2>3, BoundaryIs
<1> QED
  BY <1>1, <1>2, <1>3 DEF Anchors

SameCoordinate(t, u) == t.family = u.family /\ t.owner = u.owner /\ t.anchor = u.anchor

\* A row is added, or put in the place of an active one, with a boundary and
\* a coordinate of its own.
LEMMA RowPut ==
    ASSUME TransitionsInv, NEW old \in SUBSET Active, NEW r, RowTyped(r),
           transitions' = (transitions \ old) \cup {r},
           UNCHANGED <<sequences, scenes, shots, features, relations>>,
           r.live => /\ r.family \in GuardedFamilies => r.anchor \in BoundarySet
                     /\ \A u \in Active \ old : ~SameCoordinate(u, r)
                     /\ r.family = "feature" => r.owner \in Live(features)
                     /\ r.family = "relation" => r.owner \in Live(relations)
    PROVE  TransitionsInv'
<1>1. Active' \subseteq (Active \ old) \cup {r} /\ (r \in Active' => r.live)
  BY DEF Active
<1>2. RowsTyped'
  <2>1. IsFiniteSet(transitions \ old)
    BY FS_Subset DEF TransitionsInv, RowsTyped
  <2>2. IsFiniteSet(transitions')
    BY <2>1, FS_AddElement
  <2> QED
    BY <2>2 DEF TransitionsInv, RowsTyped, RowTyped
<1>3. BoundarySet' = BoundarySet
  BY DEF BoundarySet, Placed
<1>4. AnchorsHold'
  BY <1>1, <1>3 DEF TransitionsInv, AnchorsHold
<1>5. RowsGuarded'
  BY <1>1 DEF TransitionsInv, RowsGuarded
<1>6. WinnerUnique'
  BY <1>1 DEF TransitionsInv, WinnerUnique, SameCoordinate
<1> QED
  BY <1>2, <1>4, <1>5, <1>6 DEF TransitionsInv

\* A transition is inserted at a free coordinate in the stream.
LEMMA InsertKeeps ==
    ASSUME TransitionsInv, NEW family, NEW owner, NEW a \in Anchors, NEW value \in Values \cup {Clear, "active"},
           Insert(family, owner, a, value), UNCHANGED <<sequences, scenes, shots, features, relations>>,
           family = "feature" => owner \in Live(features),
           family = "relation" => owner \in Live(relations)
    PROVE  TransitionsInv'
<1>1. PICK n : n = Cardinality(transitions)
  OBVIOUS
<1>2. PICK r : r = [id |-> n + 1, family |-> family, owner |-> owner, anchor |-> a, value |-> value,
                    live |-> TRUE]
  OBVIOUS
<1>3. /\ r.id = n + 1 /\ r.family = family /\ r.owner = owner /\ r.anchor = a /\ r.value = value
      /\ r.live = TRUE
  BY <1>2
<1>4. n \in Nat /\ n < MaxTransitions
  BY <1>1, FS_CardinalityType DEF Insert, TransitionsInv, RowsTyped
<1>5. RowTyped(r)
  <2>1. n + 1 \in 1..MaxTransitions
    BY <1>4
  <2>2. r = [id |-> r.id, family |-> r.family, owner |-> r.owner, anchor |-> r.anchor, value |-> r.value,
             live |-> r.live]
    BY <1>2
  <2> QED
    BY <1>3, <2>1, <2>2 DEF RowTyped
<1>6. transitions' = transitions \cup {r}
  BY <1>1, <1>2 DEF Insert
<1>7. a \in BoundarySet
  BY ValidAnchorHolds DEF Insert
<1>8. \A u \in Active : ~SameCoordinate(u, r)
  BY <1>3 DEF Insert, CoordinateTaken, SameCoordinate
<1>9. PICK old : old = {}
  OBVIOUS
<1>10. old \in SUBSET Active /\ transitions' = (transitions \ old) \cup {r} /\ Active \ old = Active
  BY <1>6, <1>9
<1> QED
  BY <1>3, <1>5, <1>7, <1>8, <1>10, RowPut

\* A transition that is patched stays at, or moves to, a coordinate of its own.
LEMMA MoveKeeps ==
    ASSUME TransitionsInv, NEW t \in Active, NEW a \in Anchors, NEW value \in Values \cup {Clear, "active"},
           Move(t, a, value), UNCHANGED <<sequences, scenes, shots, features, relations>>
    PROVE  TransitionsInv'
<1>1. PICK r : r = [t EXCEPT !.anchor = a, !.value = value]
  OBVIOUS
<1>2. RowTyped(t) /\ t.live
  BY DEF Active, TransitionsInv, RowsTyped
<1>3. /\ r.id = t.id /\ r.family = t.family /\ r.owner = t.owner /\ r.anchor = a /\ r.value = value
      /\ r.live = t.live
      /\ r = [id |-> r.id, family |-> r.family, owner |-> r.owner, anchor |-> r.anchor, value |-> r.value,
              live |-> r.live]
  BY <1>1, <1>2 DEF RowTyped
<1>4. RowTyped(r)
  BY <1>2, <1>3 DEF RowTyped
<1>5. transitions' = (transitions \ {t}) \cup {r}
  BY <1>1 DEF Move
<1>6. /\ r.family \in GuardedFamilies => r.anchor \in BoundarySet
      /\ \A u \in Active \ {t} : ~SameCoordinate(u, r)
  <2>1. CASE a # t.anchor
    <3>1. AnchorValid(a) /\ ~CoordinateTaken(t.family, t.owner, a, {t})
      BY <2>1 DEF Move
    <3>2. a \in BoundarySet
      BY <3>1, ValidAnchorHolds
    <3> QED
      BY <1>3, <3>1, <3>2 DEF CoordinateTaken, SameCoordinate
  <2>2. CASE a = t.anchor
    BY <1>3, <2>2 DEF TransitionsInv, AnchorsHold, WinnerUnique, SameCoordinate
  <2> QED
    BY <2>1, <2>2
<1>7. /\ r.family = "feature" => r.owner \in Live(features)
      /\ r.family = "relation" => r.owner \in Live(relations)
  BY <1>3 DEF TransitionsInv, RowsGuarded
<1>8. PICK old : old = {t}
  OBVIOUS
<1>9. old \in SUBSET Active /\ transitions' = (transitions \ old) \cup {r} /\ Active \ old = Active \ {t}
  BY <1>5, <1>8
<1> QED
  BY <1>4, <1>6, <1>7, <1>9, RowPut

\* A transition that is deleted leaves the others as they were.
LEMMA DropKeeps ==
    ASSUME TransitionsInv, NEW t \in Active, Drop(t),
           UNCHANGED <<sequences, scenes, shots, features, relations>>
    PROVE  TransitionsInv'
<1>1. PICK r : r = [t EXCEPT !.live = FALSE]
  OBVIOUS
<1>2. RowTyped(t)
  BY DEF Active, TransitionsInv, RowsTyped
<1>3. /\ r.id = t.id /\ r.anchor = t.anchor /\ r.value = t.value /\ ~r.live /\ r.live \in BOOLEAN
      /\ r = [id |-> r.id, family |-> r.family, owner |-> r.owner, anchor |-> r.anchor, value |-> r.value,
              live |-> r.live]
  BY <1>1, <1>2 DEF RowTyped
<1>4. RowTyped(r)
  BY <1>2, <1>3 DEF RowTyped
<1>5. PICK old : old = {t}
  OBVIOUS
<1>6. old \in SUBSET Active /\ transitions' = (transitions \ old) \cup {r}
  BY <1>1, <1>5 DEF Drop
<1> QED
  BY <1>3, <1>4, <1>6, RowPut

\* Every operation on transitions keeps the invariant.
LEMMA TransitionKeeps ==
    ASSUME ContinuityInv, TransitionStep
    PROVE  ContinuityInv'
<1>1. TransitionsInv /\ TopologyInv /\ StoryInv
  BY DEF ContinuityInv
<1>2. KeepStory
  BY Zenon DEF TransitionStep, CreateFeatureTransition, CreateRelationTransition, DeleteFeatureTransition,
     DeleteRelationTransition, PatchFeatureTransition, PatchRelationTransition
<1>3. /\ UNCHANGED <<project, sequences, scenes, shots>>
      /\ UNCHANGED <<entities, entityRevs, approved, deps, features, predicates, relations>>
  BY <1>2 DEF KeepStory, narrativeVars, storyVars
<1>4. TopologyInv' /\ StoryInv'
  BY <1>1, <1>3 DEF TopologyInv, StoryInv, StoryTyped, NamesExist, RelationsGuarded, FeaturesGuarded,
     DependenciesResolve, NoEarlyNeeds, RelationInputs
<1>5. StoryValues \cup {"active", Clear} \subseteq Values \cup {Clear, "active"}
  BY DEF StoryValues
<1>6. CASE \E f \in Feature, a \in Anchors, v \in StoryValues : CreateFeatureTransition(f, a, v)
  <2>1. PICK f \in Feature, a \in Anchors, v \in StoryValues : CreateFeatureTransition(f, a, v)
    BY <1>6
  <2>2. Insert("feature", f, a, v) /\ f \in Live(features) /\ v \in Values \cup {Clear, "active"}
    BY <1>5, <2>1 DEF CreateFeatureTransition, ActiveFeature
  <2> QED
    BY <1>1, <1>3, <1>4, <2>2, InsertKeeps DEF ContinuityInv
<1>7. CASE \E r \in Relation, a \in Anchors, v \in {"active", Clear} : CreateRelationTransition(r, a, v)
  <2>1. PICK r \in Relation, a \in Anchors, v \in {"active", Clear} : CreateRelationTransition(r, a, v)
    BY <1>7
  <2>2. Insert("relation", r, a, v) /\ r \in Live(relations) /\ v \in Values \cup {Clear, "active"}
    BY <1>5, <2>1 DEF CreateRelationTransition, ActiveRelation
  <2> QED
    BY <1>1, <1>3, <1>4, <2>2, InsertKeeps DEF ContinuityInv
<1>8. CASE \E t \in Active : DeleteFeatureTransition(t) \/ DeleteRelationTransition(t)
  <2>1. PICK t \in Active : DeleteFeatureTransition(t) \/ DeleteRelationTransition(t)
    BY <1>8
  <2>2. Drop(t)
    BY <2>1 DEF DeleteFeatureTransition, DeleteRelationTransition
  <2> QED
    BY <1>1, <1>3, <1>4, <2>2, DropKeeps DEF ContinuityInv
<1>9. CASE \E t \in Active, a \in Anchors : \/ \E v \in StoryValues : PatchFeatureTransition(t, a, v)
                                            \/ \E v \in {"active", Clear} : PatchRelationTransition(t, a, v)
  <2>1. PICK t \in Active, a \in Anchors : \/ \E v \in StoryValues : PatchFeatureTransition(t, a, v)
                                           \/ \E v \in {"active", Clear} : PatchRelationTransition(t, a, v)
    BY <1>9
  <2>2. PICK v : v \in Values \cup {Clear, "active"} /\ Move(t, a, v)
    BY <1>5, <2>1 DEF PatchFeatureTransition, PatchRelationTransition
  <2> QED
    BY <1>1, <1>3, <1>4, <2>2, MoveKeeps DEF ContinuityInv
<1> QED
  BY <1>6, <1>7, <1>8, <1>9, Zenon DEF TransitionStep

\* Deleting the project leaves nothing active.
LEMMA DropTopology ==
    ASSUME TopologyInv, DropNarrative
    PROVE  /\ TopologyInv'
           /\ DOMAIN sequences' = DOMAIN sequences /\ DOMAIN scenes' = DOMAIN scenes
           /\ DOMAIN shots' = DOMAIN shots /\ Live(shots') = {}
<1>1. PICK Q, C, S : Q = sequences' /\ C = scenes' /\ S = shots'
  OBVIOUS
<1>2. /\ Q = [q \in DOMAIN sequences |-> [sequences[q] EXCEPT !.live = FALSE]]
      /\ C = [c \in DOMAIN scenes |-> [scenes[c] EXCEPT !.live = FALSE]]
      /\ S = [s \in DOMAIN shots |-> [shots[s] EXCEPT !.live = FALSE]]
      /\ project' = FALSE
  BY <1>1 DEF DropNarrative
<1>3. SequencesOK(sequences) /\ ScenesOK(sequences, scenes) /\ ShotsOK(scenes, shots)
  BY DEF TopologyInv
<1>4. DOMAIN Q = DOMAIN sequences /\ DOMAIN C = DOMAIN scenes /\ DOMAIN S = DOMAIN shots
  BY <1>2
<1>5. /\ \A q \in DOMAIN Q : Q[q] \in [position : Nat, live : BOOLEAN] /\ ~Q[q].live
      /\ \A c \in DOMAIN C : C[c] \in [sequence : DOMAIN sequences, position : Nat, live : BOOLEAN] /\ ~C[c].live
      /\ \A s \in DOMAIN S : /\ S[s] \in [scene : DOMAIN scenes \cup {None}, position : Nat, live : BOOLEAN,
                                          number : Nat \ {0}]
                             /\ ~S[s].live
  <2>1. \A q \in DOMAIN sequences : sequences[q] \in [position : Nat, live : BOOLEAN]
    BY <1>3 DEF SequencesOK
  <2>2. \A q \in DOMAIN Q : Q[q] \in [position : Nat, live : BOOLEAN] /\ ~Q[q].live
    BY <1>2, <1>4, <2>1
  <2>3. \A c \in DOMAIN scenes : scenes[c] \in [sequence : DOMAIN sequences, position : Nat, live : BOOLEAN]
    BY <1>3 DEF ScenesOK
  <2>4. \A c \in DOMAIN C : C[c] \in [sequence : DOMAIN sequences, position : Nat, live : BOOLEAN] /\ ~C[c].live
    BY <1>2, <1>4, <2>3
  <2>5. \A s \in DOMAIN shots : shots[s] \in [scene : DOMAIN scenes \cup {None}, position : Nat,
                                              live : BOOLEAN, number : Nat \ {0}]
    BY <1>3 DEF ShotsOK
  <2>6. \A s \in DOMAIN S : /\ S[s] \in [scene : DOMAIN scenes \cup {None}, position : Nat, live : BOOLEAN,
                                         number : Nat \ {0}]
                            /\ ~S[s].live
    BY <1>2, <1>4, <2>5
  <2> QED
    BY <2>2, <2>4, <2>6
<1>6. /\ Q \in [DOMAIN Q -> [position : Nat, live : BOOLEAN]]
      /\ C \in [DOMAIN C -> [sequence : DOMAIN Q, position : Nat, live : BOOLEAN]]
      /\ S \in [DOMAIN S -> [scene : DOMAIN C \cup {None}, position : Nat, live : BOOLEAN,
                             number : Nat \ {0}]]
  <2>1. /\ Q = [q \in DOMAIN Q |-> Q[q]] /\ C = [c \in DOMAIN C |-> C[c]] /\ S = [s \in DOMAIN S |-> S[s]]
    BY <1>2
  <2> QED
    BY <1>4, <1>5, <2>1
<1>7. Live(Q) = {} /\ Live(C) = {} /\ Live(S) = {}
  BY <1>5 DEF Live
<1>8. SequencesOK(Q)
  BY <1>3, <1>4, <1>6, <1>7, NoneInOrder DEF SequencesOK
<1>9. ScenesOK(Q, C)
  BY <1>3, <1>4, <1>6, <1>7 DEF ScenesOK
<1>10. ShotsOK(C, S)
  BY <1>3, <1>4, <1>6, <1>7 DEF ShotsOK
<1>11. TopologyInv'
  BY <1>1, <1>2, <1>8, <1>9, <1>10, TopologyInvNext
<1> QED
  BY <1>1, <1>4, <1>7, <1>11

\* Deleting the project leaves nothing active that hangs on what is gone.
LEMMA DeleteProjectKeeps ==
    ASSUME ContinuityInv, DeleteProject
    PROVE  ContinuityInv'
<1>1. StoryInv /\ TopologyInv /\ TransitionsInv
  BY DEF ContinuityInv
<1>2. TopologyInv' /\ DOMAIN shots' = DOMAIN shots /\ Live(shots') = {}
  BY <1>1, DropTopology DEF DeleteProject
<1>3. PICK E, F, P, R : E = entities' /\ F = features' /\ P = predicates' /\ R = relations'
  OBVIOUS
<1>4. /\ E = [e \in DOMAIN entities |-> [live |-> FALSE]]
      /\ F = [f \in DOMAIN features |-> [features[f] EXCEPT !.live = FALSE]]
      /\ P = [p \in DOMAIN predicates |-> [live |-> FALSE]]
      /\ R = [r \in DOMAIN relations |-> [relations[r] EXCEPT !.live = FALSE]]
      /\ entityRevs' = entityRevs /\ approved' = approved /\ deps' = deps
      /\ transitions' = {IF t.family \in GuardedFamilies THEN [t EXCEPT !.live = FALSE] ELSE t :
                            t \in transitions}
  BY <1>3 DEF DeleteProject
<1>5. /\ DOMAIN E = DOMAIN entities /\ DOMAIN F = DOMAIN features /\ DOMAIN P = DOMAIN predicates
      /\ DOMAIN R = DOMAIN relations
  BY <1>4
<1>6. \A f \in DOMAIN F : /\ F[f] \in FeatureRow /\ ~F[f].live /\ F[f].entity = features[f].entity
                          /\ F[f].supersedes = features[f].supersedes
  <2>1. \A f \in DOMAIN features : features[f] \in FeatureRow
    BY <1>1 DEF StoryInv, StoryTyped
  <2> SUFFICES ASSUME NEW f \in DOMAIN F
               PROVE  /\ F[f] \in FeatureRow /\ ~F[f].live /\ F[f].entity = features[f].entity
                      /\ F[f].supersedes = features[f].supersedes
    OBVIOUS
  <2>2. PICK row \in FeatureRow : row = features[f]
    BY <1>5, <2>1
  <2>3. F[f] = [row EXCEPT !.live = FALSE]
    BY <1>4, <1>5, <2>2
  <2> QED
    BY <2>2, <2>3, RowsDie
<1>7. \A r \in DOMAIN R : /\ R[r] \in RelationRow /\ ~R[r].live /\ R[r].subject = relations[r].subject
                          /\ R[r].object = relations[r].object /\ R[r].predicate = relations[r].predicate
  <2>1. \A r \in DOMAIN relations : relations[r] \in RelationRow
    BY <1>1 DEF StoryInv, StoryTyped
  <2> SUFFICES ASSUME NEW r \in DOMAIN R
               PROVE  /\ R[r] \in RelationRow /\ ~R[r].live /\ R[r].subject = relations[r].subject
                      /\ R[r].object = relations[r].object /\ R[r].predicate = relations[r].predicate
    OBVIOUS
  <2>2. PICK row \in RelationRow : row = relations[r]
    BY <1>5, <2>1
  <2>3. R[r] = [row EXCEPT !.live = FALSE]
    BY <1>4, <1>5, <2>2
  <2> QED
    BY <2>2, <2>3, RowsDie
<1>8. E \in [DOMAIN E -> EntityRow] /\ P \in [DOMAIN P -> EntityRow]
  BY <1>4, <1>5 DEF EntityRow
<1>9. F \in [DOMAIN F -> FeatureRow] /\ R \in [DOMAIN R -> RelationRow]
  <2>1. F = [f \in DOMAIN F |-> F[f]] /\ R = [r \in DOMAIN R |-> R[r]]
    BY <1>4
  <2> QED
    BY <1>6, <1>7, <2>1
<1>10. StoryTyped'
  BY <1>1, <1>3, <1>4, <1>5, <1>8, <1>9 DEF StoryInv, StoryTyped
<1>11. NamesExist'
  <2>1. /\ \A f \in DOMAIN F : F[f].entity \in DOMAIN E /\ F[f].supersedes \in DOMAIN F \cup {None}
        /\ \A r \in DOMAIN R : /\ R[r].subject \in DOMAIN E /\ R[r].object \in DOMAIN E
                               /\ R[r].predicate \in DOMAIN P
        /\ \A r \in entityRevs : r.entity \in DOMAIN E /\ r.spec \in Specs
        /\ \A e \in DOMAIN approved : \E r \in entityRevs : r.entity = e /\ r.number = approved[e]
    BY <1>1, <1>5, <1>6, <1>7 DEF StoryInv, NamesExist
  <2> QED
    BY <1>3, <1>4, <2>1 DEF NamesExist
<1>12. Live(F) = {} /\ Live(R) = {}
  BY <1>6, <1>7 DEF Live
<1>13. (RelationsGuarded /\ FeaturesGuarded /\ DependenciesResolve)'
  BY <1>2, <1>3, <1>12 DEF RelationsGuarded, FeaturesGuarded, DependenciesResolve
<1>14. NoEarlyNeeds'
  BY <1>1, <1>2, <1>4 DEF StoryInv, NoEarlyNeeds
<1>15. PICK down : down = [t \in transitions |-> IF t.family \in GuardedFamilies
                                                 THEN [t EXCEPT !.live = FALSE] ELSE t]
  OBVIOUS
<1>16. /\ DOMAIN down = transitions
       /\ \A t \in transitions : /\ RowTyped(down[t])
                                 /\ down[t].family \in GuardedFamilies => ~down[t].live
                                 /\ down[t].live => down[t] = t
  <2> SUFFICES ASSUME NEW t \in transitions
               PROVE  /\ RowTyped(down[t])
                      /\ down[t].family \in GuardedFamilies => ~down[t].live
                      /\ down[t].live => down[t] = t
    BY <1>15
  <2>1. RowTyped(t)
    BY <1>1 DEF TransitionsInv, RowsTyped
  <2>2. CASE t.family \in GuardedFamilies
    <3>1. PICK r : r = [t EXCEPT !.live = FALSE]
      OBVIOUS
    <3>2. down[t] = r
      BY <1>15, <2>2, <3>1
    <3>3. /\ r.id = t.id /\ r.anchor = t.anchor /\ r.value = t.value /\ ~r.live /\ r.live \in BOOLEAN
          /\ r = [id |-> r.id, family |-> r.family, owner |-> r.owner, anchor |-> r.anchor,
                  value |-> r.value, live |-> r.live]
      BY <2>1, <3>1 DEF RowTyped
    <3>4. RowTyped(r)
      BY <2>1, <3>3 DEF RowTyped
    <3> QED
      BY <3>2, <3>3, <3>4
  <2>3. CASE t.family \notin GuardedFamilies
    BY <1>15, <2>1, <2>3
  <2> QED
    BY <2>2, <2>3
<1>17. transitions' = {down[t] : t \in transitions}
  <2>1. \A t \in transitions : down[t] = IF t.family \in GuardedFamilies THEN [t EXCEPT !.live = FALSE] ELSE t
    BY <1>15
  <2> QED
    BY <1>4, <2>1
<1>18. RowsTyped'
  <2>1. IsFiniteSet(transitions) /\ down \in Surjection(transitions, transitions')
    BY <1>1, <1>16, <1>17, <1>15 DEF Surjection, TransitionsInv, RowsTyped
  <2>2. IsFiniteSet(transitions')
    BY <2>1, FS_Surjection
  <2>3. \A t \in transitions' : RowTyped(t)
    BY <1>16, <1>17
  <2> QED
    BY <2>2, <2>3 DEF RowsTyped, RowTyped
<1>19. \A t \in Active' : t.family \notin GuardedFamilies /\ t \in Active
  <2> SUFFICES ASSUME NEW t \in transitions', t.live PROVE t.family \notin GuardedFamilies /\ t \in Active
    BY DEF Active
  <2>1. PICK u \in transitions : t = down[u]
    BY <1>17
  <2> QED
    BY <1>16, <2>1 DEF Active
<1>20. AnchorsHold' /\ RowsGuarded'
  BY <1>19 DEF AnchorsHold, RowsGuarded, GuardedFamilies
<1>21. WinnerUnique'
  BY <1>1, <1>19 DEF TransitionsInv, WinnerUnique
<1> QED
  BY <1>2, <1>10, <1>11, <1>13, <1>14, <1>18, <1>20, <1>21 DEF ContinuityInv, StoryInv, TransitionsInv

\* A table without rows.
LEMMA NoRows ==
    /\ DOMAIN << >> = {} /\ Live(<< >>) = {}
    /\ \A R : << >> \in [DOMAIN << >> -> R]
<1>1. DOMAIN << >> = {}
  OBVIOUS
<1>2. \A R : << >> \in [DOMAIN << >> -> R]
  <2> SUFFICES ASSUME NEW R PROVE << >> \in [DOMAIN << >> -> R]
    OBVIOUS
  <2>1. << >> \in Seq(R) /\ Len(<< >>) = 0
    BY EmptySeq
  <2> QED
    BY <2>1, LenProperties
<1> QED
  BY <1>1, <1>2 DEF Live

\* The empty story.
LEMMA InitHolds == ContinuityInit => ContinuityInv
<1> SUFFICES ASSUME ContinuityInit PROVE ContinuityInv
  OBVIOUS
<1>1. /\ project = TRUE /\ sequences = << >> /\ scenes = << >> /\ shots = << >> /\ transitions = {}
      /\ entities = << >> /\ entityRevs = {} /\ approved = << >> /\ deps = [s \in Shot |-> {}]
      /\ features = << >> /\ predicates = << >> /\ relations = << >>
  BY DEF ContinuityInit, NarrativeInit
<1>2. IsFiniteSet({})
  BY FS_EmptySet
<1>3. TopologyInv
  BY <1>1, <1>2, NoRows, NoneInOrder DEF TopologyInv, SequencesOK, ScenesOK, ShotsOK
<1>4. StoryInv
  BY <1>1, NoRows DEF StoryInv, StoryTyped, NamesExist, RelationsGuarded, FeaturesGuarded,
     DependenciesResolve, NoEarlyNeeds
<1>5. TransitionsInv
  BY <1>1, <1>2 DEF TransitionsInv, RowsTyped, RowsGuarded, AnchorsHold, WinnerUnique, Active
<1> QED
  BY <1>3, <1>4, <1>5 DEF ContinuityInv

\* Every operation on the story, and every step that leaves it alone, keeps it.
LEMMA ContinuityKeeps == ContinuityInv /\ [ContinuityStep]_continuityVars => ContinuityInv'
<1> SUFFICES ASSUME ContinuityInv, [ContinuityStep]_continuityVars PROVE ContinuityInv'
  OBVIOUS
<1>1. CASE NarrativeStep /\ UNCHANGED storyVars
  BY <1>1, TopologyKeeps
<1>2. CASE WorldFactStep
  BY <1>2, WorldFactKeeps
<1>3. CASE TransitionStep
  BY <1>3, TransitionKeeps
<1>4. CASE DeleteProject
  BY <1>4, DeleteProjectKeeps
<1>5. CASE UNCHANGED continuityVars
  BY <1>5 DEF continuityVars, narrativeVars, storyVars, ContinuityInv, TopologyInv, StoryInv,
     TransitionsInv, StoryTyped, NamesExist, RelationsGuarded, FeaturesGuarded, DependenciesResolve,
     NoEarlyNeeds, RelationInputs, RowsTyped, RowsGuarded, AnchorsHold, WinnerUnique, Active,
     BoundarySet, Placed
<1> QED
  BY <1>1, <1>2, <1>3, <1>4, <1>5 DEF ContinuityStep

\* The invariant: the topology of the story is sound, every row of the story
\* is what its table says and hangs on active rows, and no active transition
\* of a feature or relation loses its boundary or shares it with another.
THEOREM ContinuityInvariant == ContinuitySpec => []ContinuityInv
BY InitHolds, ContinuityKeeps, PTL DEF ContinuitySpec

\* The order of the story follows from its topology.
LEMMA OrderFollows == ContinuityInv => NarrativeSound
<1> SUFFICES ASSUME ContinuityInv PROVE NarrativeSound
  OBVIOUS
<1>1. TopologyType /\ OrderingSound /\ PositionsContiguous
  BY TopologyHolds DEF ContinuityInv
<1>2. ToSet(Boundaries) = BoundarySet
  BY <1>1, StreamHolds DEF OrderingSound
<1>3. AnchorsStay
  BY <1>2 DEF ContinuityInv, TransitionsInv, AnchorsHold, AnchorsStay
<1> QED
  BY <1>1, <1>3 DEF NarrativeSound

\* The order of the story survives every edit of it, and so do the boundaries
\* that continuity hangs on: load_narrative_ordering never meets a topology it
\* refuses, positions have no gaps, and no deletion or unassignment takes a
\* boundary an active feature or relation transition is anchored at.
THEOREM StoryKeepsItsOrder == ContinuitySpec => []NarrativeSound
BY ContinuityInvariant, OrderFollows, PTL

\* Every row is of its table's type, and what it names exists.
LEMMA TypesFollow == ContinuityInv => ContinuityTypeOK
<1> SUFFICES ASSUME ContinuityInv PROVE ContinuityTypeOK
  OBVIOUS
<1>1. NarrativeTypeOK
  BY TopologyHolds DEF ContinuityInv
<1>2. \A f \in DOMAIN features : features[f].key \in FeatureKeys
  BY DEF ContinuityInv, StoryInv, StoryTyped, FeatureRow
<1>3. \A t \in transitions : t.id \in 1..MaxTransitions /\ t.value \in Values \cup {Clear, "active"}
  BY DEF ContinuityInv, TransitionsInv, RowsTyped, RowTyped
<1> QED
  BY <1>1, <1>2, <1>3 DEF ContinuityInv, StoryInv, StoryTyped, NamesExist, ContinuityTypeOK

\* So it is in every reachable state.
THEOREM StoryTypeCorrect == ContinuitySpec => []ContinuityTypeOK
BY ContinuityInvariant, TypesFollow, PTL

-----------------------------------------------------------------------------
(* Resolution is replay.                                                   *)

\* The rows that hold after the first k boundaries of a stream: the latest of
\* each owner among those that do not come later.
Held(rows, stream, k) ==
    {t \in rows : /\ RankIn(stream, t.anchor) <= k
                  /\ \A u \in rows : u.owner = t.owner /\ RankIn(stream, u.anchor) <= k
                                        => RankIn(stream, u.anchor) <= RankIn(stream, t.anchor)}

\* One boundary of the walk along a stream.
Passed(rows, stream, held, i) ==
    {t \in held : t.owner \notin {u.owner : u \in {v \in rows : v.anchor = stream[i]}}}
    \cup {t \in rows : t.anchor = stream[i]}

\* What stands in a stream has its rank.
LEMMA RankHolds ==
    ASSUME NEW X, NEW stream \in Seq(X), IsInjective(stream)
    PROVE  /\ \A a \in ToSet(stream) : /\ RankIn(stream, a) \in 1..Len(stream)
                                       /\ stream[RankIn(stream, a)] = a
           /\ \A i \in 1..Len(stream) : RankIn(stream, stream[i]) = i
<1>1. DOMAIN stream = 1..Len(stream)
  BY LenProperties
<1>2. ASSUME NEW a \in ToSet(stream)
      PROVE  RankIn(stream, a) \in 1..Len(stream) /\ stream[RankIn(stream, a)] = a
  <2>1. \E i \in DOMAIN stream : stream[i] = a
    BY DEF ToSet
  <2>2. RankIn(stream, a) \in DOMAIN stream /\ stream[RankIn(stream, a)] = a
    BY <2>1, Zenon DEF RankIn
  <2> QED
    BY <1>1, <2>2
<1>3. ASSUME NEW i \in 1..Len(stream) PROVE RankIn(stream, stream[i]) = i
  <2>1. stream[i] \in ToSet(stream)
    BY <1>1 DEF ToSet
  <2>2. PICK j : j = RankIn(stream, stream[i])
    OBVIOUS
  <2>3. j \in 1..Len(stream) /\ stream[j] = stream[i]
    BY <1>2, <2>1, <2>2
  <2> QED
    BY <1>1, <2>2, <2>3 DEF IsInjective
<1> QED
  BY <1>2, <1>3

\* Each boundary adds its own rows, and takes the ones of the same owners away.
LEMMA HeldPasses ==
    ASSUME NEW X, NEW stream \in Seq(X), IsInjective(stream),
           NEW rows, \A t \in rows : t.anchor \in ToSet(stream)
    PROVE  /\ Held(rows, stream, 0) = {}
           /\ \A i \in 1..Len(stream) :
                 Held(rows, stream, i) = Passed(rows, stream, Held(rows, stream, i - 1), i)
<1>1. PICK r : r = [t \in rows |-> RankIn(stream, t.anchor)]
  OBVIOUS
<1>2. \A t \in rows : r[t] \in 1..Len(stream) /\ r[t] = RankIn(stream, t.anchor)
  BY <1>1, RankHolds
<1>3. \A t \in rows : \A i \in 1..Len(stream) : t.anchor = stream[i] <=> r[t] = i
  <2> SUFFICES ASSUME NEW t \in rows, NEW i \in 1..Len(stream)
               PROVE  t.anchor = stream[i] <=> r[t] = i
    OBVIOUS
  <2>1. t.anchor = stream[i] => r[t] = i
    BY <1>2, RankHolds
  <2>2. stream[r[t]] = t.anchor
    BY <1>2, RankHolds
  <2> QED
    BY <2>1, <2>2
<1>4. \A k : Held(rows, stream, k) =
                {t \in rows : r[t] <= k /\ \A u \in rows : u.owner = t.owner /\ r[u] <= k => r[u] <= r[t]}
  BY <1>2 DEF Held
<1>5. Len(stream) \in Nat
  BY LenProperties
<1>6. Held(rows, stream, 0) = {}
  BY <1>2, <1>4, <1>5
<1>7. ASSUME NEW i \in 1..Len(stream)
      PROVE  Held(rows, stream, i) = Passed(rows, stream, Held(rows, stream, i - 1), i)
  <2>1. PICK here : here = {t \in rows : r[t] = i}
    OBVIOUS
  <2>2. PICK H : H = Held(rows, stream, i - 1)
    OBVIOUS
  <2>3. Passed(rows, stream, H, i) = {t \in H : t.owner \notin {u.owner : u \in here}} \cup here
    <3>1. here = {t \in rows : t.anchor = stream[i]}
      BY <1>3, <2>1
    <3> QED
      BY <3>1 DEF Passed
  <2>4. \A t : t \in H <=> t \in rows /\ r[t] <= i - 1
                              /\ \A u \in rows : u.owner = t.owner /\ r[u] <= i - 1 => r[u] <= r[t]
    BY <1>4, <2>2
  <2>5. \A t : t \in Held(rows, stream, i) <=> t \in rows /\ r[t] <= i
                              /\ \A u \in rows : u.owner = t.owner /\ r[u] <= i => r[u] <= r[t]
    BY <1>4
  <2>6. ASSUME NEW t \in Held(rows, stream, i)
        PROVE  t \in {x \in H : x.owner \notin {u.owner : u \in here}} \cup here
    <3>1. CASE r[t] = i
      BY <2>1, <2>5, <3>1
    <3>2. CASE r[t] # i
      <4>1. r[t] <= i - 1 /\ t \in rows
        BY <1>2, <1>5, <2>5, <3>2
      <4>2. \A u \in rows : u.owner = t.owner => r[u] # i
        BY <1>2, <1>5, <2>5, <4>1
      <4>3. t \in H
        BY <1>2, <1>5, <2>4, <2>5, <4>1
      <4> QED
        BY <2>1, <4>2, <4>3
    <3> QED
      BY <3>1, <3>2
  <2>7. ASSUME NEW t \in here PROVE t \in Held(rows, stream, i)
    BY <1>2, <1>5, <2>1, <2>5
  <2>8. ASSUME NEW t \in H, t.owner \notin {u.owner : u \in here} PROVE t \in Held(rows, stream, i)
    <3>1. \A u \in rows : u.owner = t.owner /\ r[u] <= i => r[u] <= i - 1
      BY <1>2, <1>5, <2>1, <2>8
    <3> QED
      BY <1>2, <1>5, <2>4, <2>5, <3>1
  <2> QED
    BY <2>2, <2>3, <2>6, <2>7, <2>8
<1> QED
  BY <1>6, <1>7

\* The walk along the stream ends with the latest row of each owner.
LEMMA ReplayIsWinners ==
    ASSUME TopologyInv, NEW s \in Placed, NEW rows, \A t \in rows : t.anchor \in BoundarySet
    PROVE  Replay(rows, s) = {t \in Winners(rows, s) : t.value # Clear}
<1> DEFINE Walk(f) ==
             [i \in 0..Len(Boundaries) |->
                 IF i = 0 THEN {} ELSE Passed(rows, Boundaries, f[i - 1], i)]
<1>1. Replay(rows, s) = {t \in (CHOOSE f : f = Walk(f))[RankIn(Boundaries, StartOfShot(s))] : t.value # Clear}
  BY Zenon DEF Replay, Passed
<1>2. /\ Boundaries \in Seq(StreamItems) /\ IsInjective(Boundaries)
      /\ ToSet(Boundaries) = BoundarySet
  BY TopologyHolds, StreamHolds DEF OrderingSound
<1>3. PICK n : n = Len(Boundaries)
  OBVIOUS
<1>4. n \in Nat
  BY <1>2, <1>3, LenProperties
<1>5. PICK F : F = [i \in 0..Len(Boundaries) |-> Held(rows, Boundaries, i)]
  OBVIOUS
<1>6. /\ Held(rows, Boundaries, 0) = {}
      /\ \A i \in 1..Len(Boundaries) :
            Held(rows, Boundaries, i) = Passed(rows, Boundaries, Held(rows, Boundaries, i - 1), i)
  BY <1>2, HeldPasses
<1>7. F = Walk(F)
  <2>1. ASSUME NEW i \in 0..Len(Boundaries)
        PROVE  F[i] = IF i = 0 THEN {} ELSE Passed(rows, Boundaries, F[i - 1], i)
    <3>1. CASE i = 0
      BY <1>5, <1>6, <3>1
    <3>2. CASE i # 0
      <4>1. i \in 1..Len(Boundaries) /\ i - 1 \in 0..Len(Boundaries)
        BY <1>3, <1>4, <3>2
      <4>2. F[i - 1] = Held(rows, Boundaries, i - 1) /\ F[i] = Held(rows, Boundaries, i)
        BY <1>5, <4>1
      <4> QED
        BY <1>6, <3>2, <4>1, <4>2
    <3> QED
      BY <3>1, <3>2
  <2> QED
    BY <1>5, <2>1
<1>8. PICK G : G = CHOOSE f : f = Walk(f)
  OBVIOUS
<1>9. G = Walk(G)
  <2>1. \E f : f = Walk(f)
    BY <1>7
  <2> HIDE DEF Walk
  <2> QED
    BY <1>8, <2>1, Zenon
<1>10. \A i \in 0..n : G[i] = F[i]
  <2>1. PICK T : T = {i \in 0..n : G[i] # F[i]}
    OBVIOUS
  <2> SUFFICES ASSUME T # {} PROVE FALSE
    BY <2>1
  <2>2. T \in SUBSET Nat
    BY <1>4, <2>1
  <2>3. PICK m \in T : \A i \in T : m <= i
    BY <2>2, LeastNumber
  <2>4. m \in 0..n /\ G[m] # F[m]
    BY <2>1, <2>3
  <2>5. G[m] = IF m = 0 THEN {} ELSE Passed(rows, Boundaries, G[m - 1], m)
    BY <1>3, <1>9, <2>4
  <2>6. F[m] = IF m = 0 THEN {} ELSE Passed(rows, Boundaries, F[m - 1], m)
    BY <1>3, <1>7, <2>4
  <2>7. CASE m = 0
    BY <2>4, <2>5, <2>6, <2>7
  <2>8. CASE m # 0
    <3>1. m - 1 \in 0..n /\ m - 1 \notin T
      BY <1>4, <2>3, <2>4, <2>8
    <3>2. G[m - 1] = F[m - 1]
      BY <2>1, <3>1
    <3> QED
      BY <2>4, <2>5, <2>6, <2>8, <3>2
  <2> QED
    BY <2>7, <2>8
<1>11. PICK k : k = RankIn(Boundaries, StartOfShot(s))
  OBVIOUS
<1>12. k \in 0..n
  <2>1. StartOfShot(s) \in Ends("shot", s)
    BY DEF StartOfShot, Ends
  <2>2. StartOfShot(s) \in ToSet(Boundaries)
    BY <1>2, <2>1, BoundaryIs
  <2> QED
    BY <1>2, <1>3, <1>4, <1>11, <2>2, RankHolds
<1>13. G[k] = Held(rows, Boundaries, k)
  BY <1>3, <1>5, <1>10, <1>12
<1>14. Winners(rows, s) = Held(rows, Boundaries, k)
  <2>1. PICK E : E = Eligible(rows, s, Boundaries)
    OBVIOUS
  <2>2. \A t : t \in E <=> t \in rows /\ RankIn(Boundaries, t.anchor) <= k
    BY <1>11, <2>1 DEF Eligible
  <2>3. Winners(rows, s) = {t \in E : \A u \in E : u.owner = t.owner =>
                               RankIn(Boundaries, u.anchor) <= RankIn(Boundaries, t.anchor)}
    BY <2>1 DEF Winners, WinnersIn, LatestOfOwner
  <2> QED
    BY <2>2, <2>3 DEF Held
<1> HIDE DEF Walk
<1> QED
  BY <1>1, <1>8, <1>11, <1>13, <1>14

\* The guarded rows of a story are anchored in its stream.
LEMMA GuardedRowsAnchored ==
    ASSUME ContinuityInv, NEW rows \in SUBSET Active, \A t \in rows : t.family \in GuardedFamilies
    PROVE  \A t \in rows : t.anchor \in BoundarySet
BY DEF ContinuityInv, TransitionsInv, AnchorsHold

\* Resolution by rank is replay.
LEMMA ResolutionFollows == ContinuityInv => ContinuitySound
<1> SUFFICES ASSUME ContinuityInv PROVE ContinuitySound
  OBVIOUS
<1>1. GuardChain
  BY DEF ContinuityInv, StoryInv, TransitionsInv, RelationsGuarded, FeaturesGuarded, RowsGuarded,
     GuardChain
<1>2. ASSUME NEW s \in Live(shots), Assigned(s)
      PROVE  /\ EffectiveFeatures(s) = Replay(FeatureRows(s), s)
             /\ EffectiveRelations(s) \subseteq Replay(RelationRows(s), s)
  <2>1. s \in Placed /\ TopologyInv
    BY <1>2 DEF Assigned, Placed, ContinuityInv
  <2>2. \A t \in FeatureRows(s) : t.anchor \in BoundarySet
    <3>1. FeatureRows(s) \in SUBSET Active /\ \A t \in FeatureRows(s) : t.family \in GuardedFamilies
      BY DEF FeatureRows, GuardedFamilies
    <3> QED
      BY <3>1, GuardedRowsAnchored
  <2>3. \A t \in RelationRows(s) : t.anchor \in BoundarySet
    <3>1. RelationRows(s) \in SUBSET Active /\ \A t \in RelationRows(s) : t.family \in GuardedFamilies
      BY DEF RelationRows, GuardedFamilies
    <3> QED
      BY <3>1, GuardedRowsAnchored
  <2>4. Replay(FeatureRows(s), s) = {t \in Winners(FeatureRows(s), s) : t.value # Clear}
    BY <2>1, <2>2, ReplayIsWinners
  <2>5. Replay(RelationRows(s), s) = {t \in Winners(RelationRows(s), s) : t.value # Clear}
    BY <2>1, <2>3, ReplayIsWinners
  <2>6. EffectiveFeatures(s) = {t \in Winners(FeatureRows(s), s) : t.value # Clear}
    BY <1>2 DEF EffectiveFeatures
  <2>7. EffectiveRelations(s) \subseteq {t \in Winners(RelationRows(s), s) : t.value # Clear}
    BY <1>2 DEF EffectiveRelations, ActiveWinners
  <2> QED
    BY <2>4, <2>5, <2>6, <2>7
<1>3. ResolutionIsReplay
  BY <1>2 DEF ResolutionIsReplay
<1> QED
  BY <1>1, <1>3 DEF ContinuityInv, StoryInv, TransitionsInv, ContinuitySound

\* Continuity can be resolved for every shot, to one answer, the story's own:
\* the row a resolver finds by rank for each owner is the one that holds when
\* the stream is walked from its start, what is active hangs on active rows,
\* and every dependency of an active shot has an approved revision.
THEOREM ContinuityResolves == ContinuitySpec => []ContinuitySound
BY ContinuityInvariant, ResolutionFollows, PTL

USE VisualAssumption DEF VisualAssumption

-----------------------------------------------------------------------------
(* What the story never takes back.                                        *)

\* A feature, once created, stays its entity's, whatever the story does.
FeaturesStay ==
    /\ DOMAIN features \subseteq DOMAIN features'
    /\ \A f \in DOMAIN features : features'[f].entity = features[f].entity

\* Continuity leaves every feature with its entity: deletion is a tombstone.
LEMMA FeaturesAreKept ==
    ASSUME ContinuityInv, [ContinuityStep]_continuityVars
    PROVE  FeaturesStay
<1>1. features \in [DOMAIN features -> FeatureRow]
  BY DEF ContinuityInv, StoryInv, StoryTyped
<1>2. CASE UNCHANGED features
  BY <1>2 DEF FeaturesStay
<1>3. ASSUME NEW f \in Feature, NEW e \in Entity, NEW key, NEW pred, CreateFeature(f, e, key, pred)
      PROVE  FeaturesStay
  BY <1>3 DEF CreateFeature, With, FeaturesStay
<1>4. ASSUME NEW f \in Feature, DeleteFeature(f) PROVE FeaturesStay
  <2>1. features' = Tombstone(features, f) /\ f \in DOMAIN features
    BY <1>4 DEF DeleteFeature, Live
  <2>2. \A x \in DOMAIN features : x # f => features'[x] = features[x]
    BY <2>1 DEF Tombstone
  <2>3. DOMAIN features' = DOMAIN features
    BY <2>1 DEF Tombstone
  <2>4. features'[f] = [features[f] EXCEPT !.live = FALSE]
    BY <2>1 DEF Tombstone
  <2>5. features[f] \in FeatureRow
    BY <1>1, <2>1
  <2>6. features'[f].entity = features[f].entity
    BY <2>4, <2>5, RowsDie
  <2> QED
    BY <2>2, <2>3, <2>6 DEF FeaturesStay
<1>5. CASE DeleteProject
  <2>1. features' = [f \in DOMAIN features |-> [features[f] EXCEPT !.live = FALSE]]
    BY <1>5 DEF DeleteProject
  <2>2. \A f \in DOMAIN features : features'[f].entity = features[f].entity
    BY <1>1, <2>1, RowsDie
  <2> QED
    BY <2>1, <2>2 DEF FeaturesStay
<1>6. CASE WorldFactStep
  <2>1. ASSUME ~ (\E f \in Feature, e \in Entity, key \in FeatureKeys, pred \in Feature \cup {None} :
                    CreateFeature(f, e, key, pred)),
               ~ (\E f \in Feature : DeleteFeature(f))
        PROVE  UNCHANGED features
    BY <1>6, <2>1 DEF WorldFactStep, CreateEntity, DeleteEntity, CreateRevision, ApproveRevision,
       ReplaceSemanticDependencies, CreatePredicate, DeletePredicate, CreateRelation, DeleteRelation
  <2> QED
    BY <1>2, <1>3, <1>4, <2>1
<1>7. CASE TransitionStep
  <2>1. KeepStory
    BY <1>7 DEF TransitionStep, CreateFeatureTransition, PatchFeatureTransition,
       DeleteFeatureTransition, CreateRelationTransition, PatchRelationTransition,
       DeleteRelationTransition
  <2> QED
    BY <1>2, <2>1 DEF KeepStory, storyVars
<1> QED
  BY <1>2, <1>5, <1>6, <1>7 DEF ContinuityStep, continuityVars, storyVars

-----------------------------------------------------------------------------
(* The inductive invariant: facets and anchors.                            *)

FacetRow == [target : Targets, key : {"v"}, requirement : {"required", "optional"}, live : BOOLEAN]

AnchorRow == [facet : DOMAIN facets, binding : [revision : Nat, value : Values \cup {None}],
              approved : Nat \cup {None}, live : BOOLEAN]

VisualTyped ==
    /\ DOMAIN facets \subseteq Facet /\ facets \in [DOMAIN facets -> FacetRow]
    /\ DOMAIN policies = DOMAIN facets /\ \A f \in DOMAIN policies : DOMAIN policies[f] \subseteq Values
    /\ DOMAIN anchors \subseteq Anchor /\ anchors \in [DOMAIN anchors -> AnchorRow]
    /\ DOMAIN working = DOMAIN anchors /\ working \in [DOMAIN working -> Items]
    /\ DOMAIN looks = Editors

\* A facet of a feature is of a feature that exists.
FacetsNamed ==
    \A f \in DOMAIN facets : facets[f].target.kind = "feature" => facets[f].target.id \in DOMAIN features

\* The revisions of an anchor are numbered in a row, and none has a twin.
RevisionsNumbered(a) ==
    /\ {r.number : r \in RevsOfAnchor(a)} = 1..Cardinality(RevsOfAnchor(a))
    /\ \A r, u \in RevsOfAnchor(a) : r.number = u.number \/ r.items = u.items => r = u

RevisionsInv ==
    /\ IsFiniteSet(anchorRevs)
    /\ \A r \in anchorRevs : /\ r.anchor \in DOMAIN anchors /\ RevisionSound(r)
                             /\ r.number \in 1..MaxAnchorRevs
    /\ \A a \in DOMAIN anchors : RevisionsNumbered(a)

\* What a client has read of a working set can be captured, and will be approvable.
LooksInv ==
    \A k \in Editors : looks[k].step = "anchor" =>
        looks[k].anchor \in DOMAIN anchors /\ Cardinality(Primaries(looks[k].items)) = 1

\* A facet is shown in a state by one active anchor.
OneAnchor ==
    \A a, b \in Live(anchors) :
        anchors[a].facet = anchors[b].facet /\ anchors[a].binding = anchors[b].binding => a = b

ApprovedExists ==
    \A a \in Live(anchors) : anchors[a].approved # None =>
        \E r \in RevsOfAnchor(a) : r.number = anchors[a].approved

AnchorsInv == VisualTyped /\ FacetsNamed /\ RevisionsInv /\ LooksInv /\ OneAnchor /\ ApprovedExists

\* The anchors a step may add to, and whose states it may not change.
AnchorsStand ==
    /\ DOMAIN anchors \subseteq DOMAIN anchors'
    /\ \A a \in DOMAIN anchors : anchors'[a].binding = anchors[a].binding

\* Revisions stay sound as long as the anchors keep their states.
LEMMA RevisionsKept ==
    ASSUME AnchorsInv, AnchorsStand, anchorRevs' = anchorRevs
    PROVE  RevisionsInv'
<1>1. IsFiniteSet(anchorRevs')
  BY DEF AnchorsInv, RevisionsInv
<1>2. \A r \in anchorRevs' : /\ r.anchor \in DOMAIN anchors' /\ RevisionSound(r)'
                             /\ r.number \in 1..MaxAnchorRevs
  BY DEF AnchorsInv, RevisionsInv, RevisionSound, AnchorsStand
<1>3. ASSUME NEW a \in DOMAIN anchors' PROVE RevisionsNumbered(a)'
  <2>1. RevsOfAnchor(a)' = RevsOfAnchor(a)
    BY DEF RevsOfAnchor
  <2>2. CASE a \in DOMAIN anchors
    BY <2>1, <2>2 DEF AnchorsInv, RevisionsInv, RevisionsNumbered
  <2>3. CASE a \notin DOMAIN anchors
    <3>1. RevsOfAnchor(a) = {}
      BY <2>3 DEF RevsOfAnchor, AnchorsInv, RevisionsInv
    <3>2. Cardinality({}) = 0 /\ 1..0 = {}
      BY FS_EmptySet
    <3> QED
      BY <2>1, <3>1, <3>2 DEF RevisionsNumbered
  <2> QED
    BY <2>2, <2>3
<1> QED
  BY <1>1, <1>2, <1>3 DEF RevisionsInv

\* And so does what the clients have read.
LEMMA LooksKept ==
    ASSUME AnchorsInv, AnchorsStand, looks' = looks
    PROVE  LooksInv'
BY DEF AnchorsInv, LooksInv, AnchorsStand

\* Steps that touch neither anchors nor what hangs on them.
LEMMA AnchorsLeftAlone ==
    ASSUME AnchorsInv, VisualTyped', FacetsNamed', UNCHANGED <<anchors, anchorRevs, looks>>
    PROVE  AnchorsInv'
<1>1. AnchorsStand
  BY DEF AnchorsStand
<1>2. OneAnchor' /\ ApprovedExists'
  BY DEF AnchorsInv, OneAnchor, ApprovedExists, RevsOfAnchor, Live
<1> QED
  BY <1>1, <1>2, RevisionsKept, LooksKept DEF AnchorsInv

-----------------------------------------------------------------------------
(* Facets.                                                                 *)

\* The story's own steps leave a facet's feature where it is.
LEMMA StoryKeepsAnchors ==
    ASSUME AnchorsInv, FeaturesStay, UNCHANGED visualOnly
    PROVE  AnchorsInv'
<1>1. VisualTyped'
  BY DEF AnchorsInv, VisualTyped, visualOnly, AnchorRow
<1>2. FacetsNamed'
  BY DEF AnchorsInv, FacetsNamed, visualOnly, FeaturesStay
<1> QED
  BY <1>1, <1>2, AnchorsLeftAlone DEF visualOnly

\* A new facet of what is active.
LEMMA CreateFacetKeeps ==
    ASSUME AnchorsInv, NEW f \in Facet, NEW t \in Targets, NEW key \in {"v"},
           NEW x \in {"required", "optional"}, CreateFacet(f, t, key, x)
    PROVE  AnchorsInv'
<1>1. PICK row : row = [target |-> t, key |-> key, requirement |-> x, live |-> TRUE]
  OBVIOUS
<1>2. /\ f \notin DOMAIN facets /\ facets' = With(facets, f, row) /\ policies' = With(policies, f, << >>)
      /\ TargetActive(t) /\ features' = features
      /\ anchors' = anchors /\ working' = working /\ anchorRevs' = anchorRevs /\ looks' = looks
  BY <1>1 DEF CreateFacet, continuityVars, storyVars
<1>3. row \in FacetRow /\ row.target = t
  BY <1>1 DEF FacetRow
<1>4. facets \in [DOMAIN facets -> FacetRow]
  BY DEF AnchorsInv, VisualTyped
<1>5. facets' \in [DOMAIN facets \cup {f} -> FacetRow]
  BY <1>2, <1>3, <1>4, WithTyped
<1>6. DOMAIN facets' = DOMAIN facets \cup {f}
  BY <1>2 DEF With
<1>7. /\ DOMAIN policies' = DOMAIN facets' /\ \A g \in DOMAIN policies' : DOMAIN policies'[g] \subseteq Values
  <2>1. DOMAIN policies' = DOMAIN policies \cup {f}
    BY <1>2 DEF With
  <2>2. \A g \in DOMAIN policies' : policies'[g] = IF g = f THEN << >> ELSE policies[g]
    BY <1>2, <2>1 DEF With
  <2>3. DOMAIN << >> = {}
    OBVIOUS
  <2> QED
    BY <1>6, <2>1, <2>2, <2>3 DEF AnchorsInv, VisualTyped
<1>8. anchors' \in [DOMAIN anchors' -> AnchorRow']
  BY <1>2, <1>6 DEF AnchorsInv, VisualTyped, AnchorRow
<1>9. VisualTyped'
  BY <1>2, <1>5, <1>6, <1>7, <1>8 DEF AnchorsInv, VisualTyped
<1>10. FacetsNamed'
  <2>1. \A g \in DOMAIN facets : facets'[g] = facets[g]
    BY <1>2 DEF With
  <2>2. facets'[f] = row
    BY <1>2 DEF With
  <2>3. t.kind = "feature" => t.id \in DOMAIN features
    BY <1>2 DEF TargetActive, ActiveFeature, Live
  <2> QED
    BY <1>2, <1>3, <1>6, <2>1, <2>2, <2>3 DEF AnchorsInv, FacetsNamed
<1> QED
  BY <1>2, <1>9, <1>10, AnchorsLeftAlone

\* A facet that stays a facet of the same target.
LEMMA FacetChanges ==
    ASSUME AnchorsInv, NEW f \in DOMAIN facets, NEW row \in FacetRow,
           row.target = facets[f].target, facets' = [facets EXCEPT ![f] = row],
           features' = features, UNCHANGED <<policies, anchors, working, anchorRevs, looks>>
    PROVE  AnchorsInv'
<1>1. facets \in [DOMAIN facets -> FacetRow]
  BY DEF AnchorsInv, VisualTyped
<1>2. facets' \in [DOMAIN facets -> FacetRow] /\ DOMAIN facets' = DOMAIN facets
  BY <1>1
<1>3. \A g \in DOMAIN facets : facets'[g].target = facets[g].target
  BY <1>1
<1>4. VisualTyped'
  BY <1>2 DEF AnchorsInv, VisualTyped, AnchorRow
<1>5. FacetsNamed'
  BY <1>2, <1>3 DEF AnchorsInv, FacetsNamed
<1> QED
  BY <1>4, <1>5, AnchorsLeftAlone

\* Creating, patching and deleting a facet and its value policies keep the
\* anchors as they are.
LEMMA FacetKeeps ==
    ASSUME AnchorsInv, FacetStep
    PROVE  AnchorsInv'
<1>1. facets \in [DOMAIN facets -> FacetRow]
  BY DEF AnchorsInv, VisualTyped
<1>2. ASSUME NEW f \in Facet, NEW x \in {"required", "optional"}, PatchFacet(f, x) PROVE AnchorsInv'
  <2>1. /\ f \in DOMAIN facets /\ facets' = [facets EXCEPT ![f].requirement = x]
        /\ features' = features /\ UNCHANGED <<policies, anchors, working, anchorRevs, looks>>
    BY <1>2 DEF PatchFacet, Live, continuityVars, storyVars
  <2>2. PICK row : row = [facets[f] EXCEPT !.requirement = x]
    OBVIOUS
  <2>3. row \in FacetRow /\ row.target = facets[f].target
    BY <1>1, <2>1, <2>2 DEF FacetRow
  <2> QED
    BY <2>1, <2>2, <2>3, FacetChanges
<1>3. ASSUME NEW f \in Facet, DeleteFacet(f) PROVE AnchorsInv'
  <2>1. /\ f \in DOMAIN facets /\ facets' = [facets EXCEPT ![f].live = FALSE]
        /\ features' = features /\ UNCHANGED <<policies, anchors, working, anchorRevs, looks>>
    BY <1>3 DEF DeleteFacet, Tombstone, Live, continuityVars, storyVars
  <2>2. PICK row : row = [facets[f] EXCEPT !.live = FALSE]
    OBVIOUS
  <2>3. row \in FacetRow /\ row.target = facets[f].target
    BY <1>1, <2>1, <2>2 DEF FacetRow
  <2> QED
    BY <2>1, <2>2, <2>3, FacetChanges
<1>4. ASSUME NEW f \in Facet, NEW policy \in Policies, PutValuePolicies(f, policy) PROVE AnchorsInv'
  <2>1. /\ f \in DOMAIN facets /\ policies' = [policies EXCEPT ![f] = policy]
        /\ features' = features /\ UNCHANGED <<facets, anchors, working, anchorRevs, looks>>
    BY <1>4 DEF PutValuePolicies, Live, continuityVars, storyVars
  <2>2. DOMAIN policy \subseteq Values
    BY DEF Policies
  <2>3. DOMAIN policies' = DOMAIN facets' /\ \A g \in DOMAIN policies' : DOMAIN policies'[g] \subseteq Values
    BY <2>1, <2>2 DEF AnchorsInv, VisualTyped
  <2>4. VisualTyped'
    BY <2>1, <2>3 DEF AnchorsInv, VisualTyped, AnchorRow
  <2>5. FacetsNamed'
    BY <2>1 DEF AnchorsInv, FacetsNamed
  <2> QED
    BY <2>1, <2>4, <2>5, AnchorsLeftAlone
<1> QED
  BY <1>2, <1>3, <1>4, CreateFacetKeeps DEF FacetStep

-----------------------------------------------------------------------------
(* Anchors.                                                                *)

\* A row of an anchor that changes in its approval or its life only.
LEMMA AnchorRowChanges ==
    ASSUME AnchorsInv, NEW a \in Live(anchors), NEW row \in AnchorRow,
           row.facet = anchors[a].facet, row.binding = anchors[a].binding,
           row.live /\ row.approved # None => \E r \in RevsOfAnchor(a) : r.number = row.approved,
           anchors' = [anchors EXCEPT ![a] = row],
           features' = features, UNCHANGED <<facets, policies, working, anchorRevs, looks>>
    PROVE  AnchorsInv'
<1>1. anchors \in [DOMAIN anchors -> AnchorRow] /\ a \in DOMAIN anchors
  BY DEF AnchorsInv, VisualTyped, Live
<1>2. anchors' \in [DOMAIN anchors -> AnchorRow] /\ DOMAIN anchors' = DOMAIN anchors
  BY <1>1
<1>3. /\ anchors'[a] = row /\ \A b \in DOMAIN anchors : b # a => anchors'[b] = anchors[b]
  BY <1>1
<1>4. AnchorsStand
  BY <1>2, <1>3 DEF AnchorsStand
<1>5. VisualTyped' /\ FacetsNamed'
  BY <1>2 DEF AnchorsInv, VisualTyped, AnchorRow, FacetsNamed
<1>6. Live(anchors') \subseteq Live(anchors)
  BY <1>2, <1>3 DEF Live
<1>7. OneAnchor'
  <2>1. \A b \in Live(anchors) : anchors'[b].facet = anchors[b].facet /\ anchors'[b].binding = anchors[b].binding
    BY <1>3 DEF Live
  <2> QED
    BY <1>6, <2>1 DEF AnchorsInv, OneAnchor
<1>8. ApprovedExists'
  <2> SUFFICES ASSUME NEW b \in Live(anchors'), anchors'[b].approved # None
               PROVE  \E r \in RevsOfAnchor(b) : r.number = anchors'[b].approved
    BY DEF ApprovedExists, RevsOfAnchor
  <2>1. CASE b = a
    BY <1>3, <2>1 DEF Live
  <2>2. CASE b # a
    BY <1>3, <1>6, <2>2 DEF Live, AnchorsInv, ApprovedExists
  <2> QED
    BY <2>1, <2>2
<1> QED
  BY <1>4, <1>5, <1>7, <1>8, RevisionsKept, LooksKept DEF AnchorsInv

\* A facet gets its anchor for a state that has none.
LEMMA CreateAnchorKeeps ==
    ASSUME AnchorsInv, NEW a \in Anchor, NEW f \in Facet, NEW n \in Nat, NEW v \in Values \cup {None},
           CreateAnchor(a, f, [revision |-> n, value |-> v])
    PROVE  AnchorsInv'
<1>1. PICK binding : binding = [revision |-> n, value |-> v]
  OBVIOUS
<1>2. PICK row : row = [facet |-> f, binding |-> binding, approved |-> None, live |-> TRUE]
  OBVIOUS
<1>3. /\ a \notin DOMAIN anchors /\ f \in DOMAIN facets /\ AnchorsFor(f, binding) = {}
      /\ anchors' = With(anchors, a, row) /\ working' = With(working, a, << >>)
      /\ features' = features /\ UNCHANGED <<facets, policies, anchorRevs, looks>>
  BY <1>1, <1>2 DEF CreateAnchor, Live, continuityVars, storyVars
<1>4. row \in AnchorRow /\ row.facet = f /\ row.binding = binding /\ row.approved = None
  BY <1>1, <1>2, <1>3 DEF AnchorRow
<1>5. anchors \in [DOMAIN anchors -> AnchorRow]
  BY DEF AnchorsInv, VisualTyped
<1>6. anchors' \in [DOMAIN anchors \cup {a} -> AnchorRow]
  BY <1>3, <1>4, <1>5, WithTyped
<1>7. /\ DOMAIN anchors' = DOMAIN anchors \cup {a} /\ anchors'[a] = row
      /\ \A b \in DOMAIN anchors : anchors'[b] = anchors[b]
  BY <1>3 DEF With
<1>8. AnchorsStand
  BY <1>7 DEF AnchorsStand
<1>9. working' \in [DOMAIN working \cup {a} -> Items]
  <2>1. << >> \in Items
    BY DEF Items
  <2>2. working \in [DOMAIN working -> Items] /\ a \notin DOMAIN working
    BY <1>3 DEF AnchorsInv, VisualTyped
  <2> QED
    BY <1>3, <2>1, <2>2, WithTyped
<1>10. VisualTyped' /\ FacetsNamed'
  BY <1>3, <1>6, <1>7, <1>9 DEF AnchorsInv, VisualTyped, AnchorRow, FacetsNamed
<1>11. OneAnchor'
  <2>1. \A b \in Live(anchors') : b = a \/ b \in Live(anchors)
    BY <1>7 DEF Live
  <2>2. \A b \in Live(anchors) : ~(anchors[b].facet = f /\ anchors[b].binding = binding)
    BY <1>3 DEF AnchorsFor
  <2>3. \A b \in Live(anchors) : anchors'[b] = anchors[b]
    BY <1>7 DEF Live
  <2> QED
    BY <1>4, <1>7, <2>1, <2>2, <2>3 DEF AnchorsInv, OneAnchor
<1>12. ApprovedExists'
  BY <1>3, <1>4, <1>7 DEF AnchorsInv, ApprovedExists, RevsOfAnchor, Live
<1> QED
  BY <1>3, <1>8, <1>10, <1>11, <1>12, RevisionsKept, LooksKept DEF AnchorsInv

\* The working set of an anchor is replaced.
LEMMA PutWorkingSetKeeps ==
    ASSUME AnchorsInv, NEW a, NEW items \in Items, PutWorkingSet(a, items)
    PROVE  AnchorsInv'
<1>1. /\ working' = [working EXCEPT ![a] = items]
      /\ features' = features /\ UNCHANGED <<facets, policies, anchors, anchorRevs, looks>>
  BY DEF PutWorkingSet, continuityVars, storyVars
<1>2. working' \in [DOMAIN working -> Items] /\ DOMAIN working' = DOMAIN working
  BY <1>1 DEF AnchorsInv, VisualTyped
<1>3. VisualTyped' /\ FacetsNamed'
  BY <1>1, <1>2 DEF AnchorsInv, VisualTyped, AnchorRow, FacetsNamed
<1> QED
  BY <1>1, <1>3, AnchorsLeftAlone

-----------------------------------------------------------------------------
(* The capture of a working set.                                           *)

\* What is read has one primary item, and its anchor exists.
LEMMA LookKeeps ==
    ASSUME AnchorsInv, NEW k \in Editors, NEW seen, looks' = [looks EXCEPT ![k] = seen],
           seen.step = "anchor" =>
               seen.anchor \in DOMAIN anchors /\ Cardinality(Primaries(seen.items)) = 1,
           features' = features, UNCHANGED <<facets, policies, anchors, working, anchorRevs>>
    PROVE  AnchorsInv'
<1>1. DOMAIN looks' = Editors /\ looks'[k] = seen /\ \A j \in Editors : j # k => looks'[j] = looks[j]
  BY DEF AnchorsInv, VisualTyped
<1>2. LooksInv'
  BY <1>1 DEF AnchorsInv, LooksInv
<1>3. VisualTyped' /\ FacetsNamed'
  BY <1>1 DEF AnchorsInv, VisualTyped, AnchorRow, FacetsNamed
<1>4. AnchorsStand /\ OneAnchor' /\ ApprovedExists'
  BY DEF AnchorsStand, AnchorsInv, OneAnchor, ApprovedExists, RevsOfAnchor
<1> QED
  BY <1>2, <1>3, <1>4, RevisionsKept DEF AnchorsInv

\* A client that reads a working set keeps what it will capture: one primary item.
LEMMA ReadWorkingSetKeeps ==
    ASSUME AnchorsInv, NEW k \in Editors, NEW a, ReadWorkingSet(k, a)
    PROVE  AnchorsInv'
<1>1. PICK seen : seen = [step |-> "anchor", anchor |-> a, items |-> working[a]]
  OBVIOUS
<1>2. /\ a \in DOMAIN anchors /\ Cardinality(Primaries(working[a])) = 1
      /\ looks' = [looks EXCEPT ![k] = seen]
      /\ features' = features /\ UNCHANGED <<facets, policies, anchors, working, anchorRevs>>
  BY <1>1 DEF ReadWorkingSet, Live, continuityVars, storyVars
<1>3. seen.anchor = a /\ seen.items = working[a]
  BY <1>1
<1> QED
  BY <1>2, <1>3, LookKeeps

\* The number of a new revision is the next one.
LEMMA NextRevisionNumber ==
    ASSUME AnchorsInv, NEW a \in DOMAIN anchors, NEW items
    PROVE  /\ Cardinality(RevsOfAnchor(a)) \in Nat /\ IsFiniteSet(RevsOfAnchor(a))
           /\ NewAnchorRevision(a, items) =
                 [anchor |-> a, binding |-> anchors[a].binding, items |-> items,
                  number |-> 1 + Cardinality(RevsOfAnchor(a))]
<1>1. PICK R : R = RevsOfAnchor(a)
  OBVIOUS
<1>2. IsFiniteSet(R)
  <2>1. R \subseteq anchorRevs
    BY <1>1 DEF RevsOfAnchor
  <2> QED
    BY <2>1, FS_Subset DEF AnchorsInv, RevisionsInv
<1>3. PICK n \in Nat : n = Cardinality(R)
  BY <1>2, FS_CardinalityType
<1>4. {r.number : r \in R} = 1..n
  BY <1>1, <1>3 DEF AnchorsInv, RevisionsInv, RevisionsNumbered
<1>5. {0} \cup {r.number : r \in R} = 0..n
  <2>1. {0} \cup (1..n) = 0..n
    BY <1>3
  <2> QED
    BY <1>4, <2>1
<1>6. Max(0..n) = n
  <2>1. 0..n \in SUBSET Nat /\ 0..n # {} /\ n \in 0..n
    BY <1>3
  <2>2. IsFiniteSet(0..n)
    BY <1>3, FS_Interval
  <2>3. Max(0..n) \in 0..n /\ \A m \in 0..n : m <= Max(0..n)
    BY <2>1, <2>2, MaxIsGreatest
  <2> QED
    BY <1>3, <2>1, <2>3
<1> QED
  BY <1>1, <1>2, <1>3, <1>5, <1>6 DEF NewAnchorRevision

\* An anchor gets a revision of a value it has none of.
LEMMA RevisionAdded ==
    ASSUME AnchorsInv, NEW a \in DOMAIN anchors, NEW items, Cardinality(Primaries(items)) = 1,
           items \notin {r.items : r \in RevsOfAnchor(a)},
           Cardinality(RevsOfAnchor(a)) < MaxAnchorRevs,
           anchorRevs' = anchorRevs \cup {NewAnchorRevision(a, items)}, anchors' = anchors
    PROVE  RevisionsInv'
<1>1. PICK R : R = RevsOfAnchor(a)
  OBVIOUS
<1>2. PICK n \in Nat : n = Cardinality(R)
  BY <1>1, NextRevisionNumber
<1>3. PICK new : new = NewAnchorRevision(a, items)
  OBVIOUS
<1>4. new.anchor = a /\ new.binding = anchors[a].binding /\ new.items = items /\ new.number = n + 1
  BY <1>1, <1>2, <1>3, NextRevisionNumber
<1>5. anchorRevs' = anchorRevs \cup {new} /\ IsFiniteSet(anchorRevs')
  BY <1>3, FS_AddElement DEF AnchorsInv, RevisionsInv
<1>6. /\ {r.number : r \in R} = 1..n
      /\ \A r, u \in R : r.number = u.number \/ r.items = u.items => r = u
  BY <1>1, <1>2 DEF AnchorsInv, RevisionsInv, RevisionsNumbered
<1>7. ASSUME NEW r \in anchorRevs'
      PROVE  r.anchor \in DOMAIN anchors' /\ RevisionSound(r)' /\ r.number \in 1..MaxAnchorRevs
  <2>1. CASE r \in anchorRevs
    BY <2>1 DEF AnchorsInv, RevisionsInv, RevisionSound
  <2>2. CASE r = new
    BY <1>1, <1>2, <1>4, <2>2 DEF RevisionSound
  <2> QED
    BY <1>5, <2>1, <2>2
<1>8. ASSUME NEW b \in DOMAIN anchors' PROVE RevisionsNumbered(b)'
  <2>1. CASE b # a
    <3>1. RevsOfAnchor(b)' = RevsOfAnchor(b)
      BY <1>4, <1>5, <2>1 DEF RevsOfAnchor
    <3> QED
      BY <3>1 DEF AnchorsInv, RevisionsInv, RevisionsNumbered
  <2>2. CASE b = a
    <3>1. RevsOfAnchor(b)' = R \cup {new}
      BY <1>1, <1>4, <1>5, <2>2 DEF RevsOfAnchor
    <3>2. new \notin R
      BY <1>2, <1>4, <1>6
    <3>3. Cardinality(R \cup {new}) = n + 1
      BY <1>1, <1>2, <3>2, NextRevisionNumber, FS_AddElement
    <3>4. {r.number : r \in R \cup {new}} = 1..(n + 1)
      BY <1>2, <1>4, <1>6
    <3>5. ASSUME NEW r \in R \cup {new}, NEW u \in R \cup {new}, r.number = u.number \/ r.items = u.items
          PROVE  r = u
      <4>1. \A x \in R : x.number # n + 1 /\ x.items # items
        BY <1>1, <1>2, <1>6
      <4> QED
        BY <1>4, <1>6, <3>5, <4>1
    <3> QED
      BY <3>1, <3>3, <3>4, <3>5 DEF RevisionsNumbered
  <2> QED
    BY <2>1, <2>2
<1> QED
  BY <1>5, <1>7, <1>8 DEF RevisionsInv

\* The capture of a working set writes one revision, numbered next, without a twin.
LEMMA WriteRevisionKeeps ==
    ASSUME AnchorsInv, NEW k \in Editors, WriteRevision(k)
    PROVE  AnchorsInv'
<1>1. PICK a, items : a = looks[k].anchor /\ items = looks[k].items
  OBVIOUS
<1>2. /\ Cardinality(RevsOfAnchor(a)) < MaxAnchorRevs
      /\ anchorRevs' = IF items \in {r.items : r \in RevsOfAnchor(a)} THEN anchorRevs
                       ELSE anchorRevs \cup {NewAnchorRevision(a, items)}
      /\ looks' = [looks EXCEPT ![k] = Idle]
      /\ features' = features /\ UNCHANGED <<facets, policies, anchors, working>>
  BY <1>1 DEF WriteRevision, continuityVars, storyVars
<1>3. a \in DOMAIN anchors /\ Cardinality(Primaries(items)) = 1
  BY <1>1 DEF WriteRevision, AnchorsInv, LooksInv
<1>4. AnchorsStand
  BY <1>2 DEF AnchorsStand
<1>5. RevisionsInv'
  BY <1>2, <1>3, <1>4, RevisionAdded, RevisionsKept
<1>6. DOMAIN looks' = Editors /\ looks'[k] = Idle /\ \A j \in Editors : j # k => looks'[j] = looks[j]
  BY <1>2 DEF AnchorsInv, VisualTyped
<1>7. LooksInv'
  BY <1>2, <1>6 DEF AnchorsInv, LooksInv, Idle
<1>8. VisualTyped' /\ FacetsNamed'
  BY <1>2, <1>6 DEF AnchorsInv, VisualTyped, AnchorRow, FacetsNamed
<1>9. OneAnchor'
  BY <1>2 DEF AnchorsInv, OneAnchor
<1>10. ApprovedExists'
  <2>1. anchorRevs \subseteq anchorRevs'
    BY <1>2
  <2> QED
    BY <1>2, <2>1 DEF AnchorsInv, ApprovedExists, RevsOfAnchor
<1> QED
  BY <1>5, <1>7, <1>8, <1>9, <1>10 DEF AnchorsInv

\* Approval leads to a revision that exists; what is approved is not deleted.
LEMMA AnchorKeeps ==
    ASSUME AnchorsInv, AnchorStep
    PROVE  AnchorsInv'
<1>1. anchors \in [DOMAIN anchors -> AnchorRow]
  BY DEF AnchorsInv, VisualTyped
<1>2. ASSUME NEW a \in Anchor, DeleteAnchor(a) PROVE AnchorsInv'
  <2>1. /\ a \in Live(anchors) /\ anchors' = [anchors EXCEPT ![a].live = FALSE]
        /\ features' = features /\ UNCHANGED <<facets, policies, working, anchorRevs, looks>>
    BY <1>2 DEF DeleteAnchor, Tombstone, continuityVars, storyVars
  <2>2. PICK row : row = [anchors[a] EXCEPT !.live = FALSE]
    OBVIOUS
  <2>3. anchors[a] \in AnchorRow
    BY <1>1, <2>1 DEF Live
  <2>4. row \in AnchorRow /\ row.facet = anchors[a].facet /\ row.binding = anchors[a].binding /\ ~row.live
    BY <2>2, <2>3 DEF AnchorRow
  <2>5. anchors' = [anchors EXCEPT ![a] = row]
    BY <2>1, <2>2
  <2> QED
    BY <2>1, <2>4, <2>5, AnchorRowChanges
<1>3. ASSUME NEW a \in Anchor, NEW n \in Nat, NEW x, ApproveAnchor(a, n, x) PROVE AnchorsInv'
  <2>1. /\ a \in Live(anchors) /\ anchors' = [anchors EXCEPT ![a].approved = n]
        /\ \E r \in RevsOfAnchor(a) : r.number = n
        /\ features' = features /\ UNCHANGED <<facets, policies, working, anchorRevs, looks>>
    BY <1>3 DEF ApproveAnchor, continuityVars, storyVars
  <2>2. PICK row : row = [anchors[a] EXCEPT !.approved = n]
    OBVIOUS
  <2>3. anchors[a] \in AnchorRow
    BY <1>1, <2>1 DEF Live
  <2>4. /\ row \in AnchorRow /\ row.facet = anchors[a].facet /\ row.binding = anchors[a].binding
        /\ row.approved = n
    BY <2>2, <2>3 DEF AnchorRow
  <2>5. anchors' = [anchors EXCEPT ![a] = row]
    BY <2>1, <2>2
  <2> QED
    BY <2>1, <2>4, <2>5, AnchorRowChanges
<1>4. ASSUME NEW a \in Anchor, NEW x, UnapproveAnchor(a, x) PROVE AnchorsInv'
  <2>1. /\ a \in Live(anchors) /\ anchors' = [anchors EXCEPT ![a].approved = None]
        /\ features' = features /\ UNCHANGED <<facets, policies, working, anchorRevs, looks>>
    BY <1>4 DEF UnapproveAnchor, continuityVars, storyVars
  <2>2. PICK row : row = [anchors[a] EXCEPT !.approved = None]
    OBVIOUS
  <2>3. anchors[a] \in AnchorRow
    BY <1>1, <2>1 DEF Live
  <2>4. /\ row \in AnchorRow /\ row.facet = anchors[a].facet /\ row.binding = anchors[a].binding
        /\ row.approved = None
    BY <2>2, <2>3 DEF AnchorRow
  <2>5. anchors' = [anchors EXCEPT ![a] = row]
    BY <2>1, <2>2
  <2> QED
    BY <2>1, <2>4, <2>5, AnchorRowChanges
<1> QED
  BY <1>2, <1>3, <1>4, CreateAnchorKeeps, PutWorkingSetKeeps, ReadWorkingSetKeeps, WriteRevisionKeeps
     DEF AnchorStep

\* The invariant says that what is approved verifies.
LEMMA AnchorsVerify ==
    ASSUME ContinuityInv, AnchorsInv
    PROVE  ApprovedVerifies /\ RevisionsComplete /\ AnchorRevisionsConverge
<1>1. RevisionsComplete /\ AnchorRevisionsConverge
  BY DEF AnchorsInv, RevisionsInv, RevisionsNumbered, RevisionsComplete, AnchorRevisionsConverge
<1>2. ASSUME NEW a \in Live(anchors) PROVE AnchorsFor(anchors[a].facet, anchors[a].binding) = {a}
  BY DEF AnchorsFor, AnchorsInv, OneAnchor
<1>3. ASSUME NEW a \in Live(anchors), anchors[a].approved # None
      PROVE  \E r \in RevsOfAnchor(a) :
                /\ {u \in RevsOfAnchor(a) : u.number = anchors[a].approved} = {r}
                /\ RevisionSound(r)
  <2>1. PICK r \in RevsOfAnchor(a) : r.number = anchors[a].approved
    BY <1>3 DEF AnchorsInv, ApprovedExists
  <2>2. \A u \in RevsOfAnchor(a) : u.number = anchors[a].approved => u = r
    BY <2>1 DEF AnchorsInv, RevisionsInv, RevisionsNumbered, Live
  <2>3. RevisionSound(r)
    BY DEF AnchorsInv, RevisionsInv, RevsOfAnchor
  <2> QED
    BY <2>1, <2>2, <2>3
<1> QED
  BY <1>1, <1>2, <1>3 DEF ApprovedVerifies

-----------------------------------------------------------------------------
(* The inductive invariant: packs.                                         *)

\* A pack shows what its capture holds, of features that exist.
Fits(p) ==
    \A x \in p.pack :
        /\ \E d \in p.deps : d.revision = x.binding.revision /\
              d.entity = IF x.target.kind = "entity" THEN x.target.id ELSE features[x.target.id].entity
        /\ x.target.kind = "feature" => [feature |-> x.target.id, value |-> x.binding.value] \in p.states
        /\ x.target.kind = "entity" \/ x.target.id \in DOMAIN features

\* A pack's rows refer to revisions.
Stands(p) ==
    \A x \in p.pack : \E r \in anchorRevs :
        <<r.anchor, r.number, r.binding, r.items>> = <<x.anchor, x.number, x.binding, x.items>>

PackOK(p) == p.shot \in DOMAIN shots /\ Fits(p) /\ Stands(p)

PacksInv ==
    /\ \A p \in shotPacks : PackOK(p)
    /\ \A k \in Editors : looks[k].step = "shot" => PackOK(Frozen(k))

\* A capture stays what it is while features keep their entities, and
\* revisions and shots are kept.
LEMMA PackStays ==
    ASSUME NEW p, PackOK(p), FeaturesStay, anchorRevs \subseteq anchorRevs',
           DOMAIN shots \subseteq DOMAIN shots'
    PROVE  PackOK(p)'
<1>1. Stands(p)'
  BY DEF Stands, PackOK
<1>2. Fits(p)'
  <2> SUFFICES ASSUME NEW x \in p.pack
               PROVE  /\ \E d \in p.deps : d.revision = x.binding.revision /\
                            d.entity = IF x.target.kind = "entity" THEN x.target.id
                                       ELSE features'[x.target.id].entity
                      /\ x.target.kind = "feature" =>
                            [feature |-> x.target.id, value |-> x.binding.value] \in p.states
                      /\ x.target.kind = "entity" \/ x.target.id \in DOMAIN features'
    BY DEF Fits
  <2>1. Fits(p)
    BY DEF PackOK
  <2>2. x.target.kind # "entity" => features'[x.target.id].entity = features[x.target.id].entity
    BY <2>1 DEF Fits, FeaturesStay
  <2> QED
    BY <2>1, <2>2 DEF Fits, FeaturesStay
<1> QED
  BY <1>1, <1>2 DEF PackOK

\* What the resolver shows of a shot is of the shot's own story.
LEMMA PackIsRight ==
    ASSUME AnchorsInv, NEW s \in DOMAIN shots, NEW p,
           p.shot = s, p.deps = ResolvedDependencies(s), p.states = StatesOf(s),
           p.pack = Pack(ResolvedDependencies(s), StatesOf(s))
    PROVE  PackOK(p)
<1>1. PICK need, states : need = ResolvedDependencies(s) /\ states = StatesOf(s)
  OBVIOUS
<1>2. ASSUME NEW d \in deps[s] PROVE \E x \in need : x.entity = d.entity
  <2>1. PICK x : x = [entity |-> d.entity, role |-> d.role, revision |-> approved[d.entity]]
    OBVIOUS
  <2>2. x \in need /\ x.entity = d.entity
    BY <1>1, <2>1 DEF ResolvedDependencies
  <2> QED
    BY <2>2
<1>3. ASSUME NEW t \in states
      PROVE  /\ t = [feature |-> t.feature, value |-> t.value]
             /\ t.feature \in DOMAIN features /\ \E d \in need : d.entity = features[t.feature].entity
  <2>1. PICK u \in EffectiveFeatures(s) : t = [feature |-> u.owner, value |-> u.value]
    BY <1>1 DEF StatesOf
  <2>2. u \in FeatureRows(s)
    BY <2>1 DEF EffectiveFeatures, Winners, WinnersIn, LatestOfOwner, Eligible
  <2>3. u.owner \in DOMAIN features /\ features[u.owner].entity \in DepEntities(s)
    BY <2>2 DEF FeatureRows, Live
  <2> QED
    BY <1>2, <2>1, <2>3 DEF DepEntities
<1>4. ASSUME NEW x \in p.pack
      PROVE  /\ \E d \in need : d.revision = x.binding.revision /\
                   d.entity = IF x.target.kind = "entity" THEN x.target.id
                              ELSE features[x.target.id].entity
             /\ x.target.kind = "feature" =>
                   [feature |-> x.target.id, value |-> x.binding.value] \in states
             /\ x.target.kind = "entity" \/ x.target.id \in DOMAIN features
             /\ \E r \in anchorRevs :
                   <<r.anchor, r.number, r.binding, r.items>> = <<x.anchor, x.number, x.binding, x.items>>
  <2>1. PICK f \in FacetsFor(need, states) : x \in EntriesFor(f, BindingFor(f, need, states))
    BY <1>1 DEF Pack
  <2>2. PICK binding : binding = BindingFor(f, need, states)
    OBVIOUS
  <2>3. PICK a \in Realized(f, binding) : x = PackEntry(a)
    BY <2>1, <2>2 DEF EntriesFor
  <2>4. /\ a \in Live(anchors) /\ anchors[a].facet = f /\ anchors[a].binding = binding
        /\ anchors[a].approved # None
    BY <2>3 DEF Realized, AnchorsFor
  <2>5. /\ x.target = facets[f].target /\ x.binding = binding /\ x.anchor = a
        /\ x.number = anchors[a].approved /\ x.items = Approved(a).items
    BY <2>3, <2>4 DEF PackEntry
  <2>6. f \in DOMAIN facets /\ facets[f].target \in Targets
    BY DEF FacetsFor, Live, AnchorsInv, VisualTyped, FacetRow
  <2>7. facets[f].target.kind \in {"entity", "feature"}
    BY <2>6 DEF Targets
  <2>8. /\ facets[f].target.id \in IF facets[f].target.kind = "entity" THEN {d.entity : d \in need}
                                   ELSE {t.feature : t \in states}
    BY DEF FacetsFor
  <2>9. \E d \in need : d.entity = Owner(f)
    <3>1. CASE facets[f].target.kind = "entity"
      BY <2>8, <3>1 DEF Owner
    <3>2. CASE facets[f].target.kind # "entity"
      BY <1>3, <2>8, <3>2 DEF Owner
    <3> QED
      BY <3>1, <3>2
  <2>10. PICK d \in need : d.entity = Owner(f) /\ binding.revision = d.revision
    <3>1. PICK d : d = CHOOSE y \in need : y.entity = Owner(f)
      OBVIOUS
    <3>2. d \in need /\ d.entity = Owner(f)
      BY <2>9, <3>1, Zenon
    <3>3. binding.revision = d.revision
      BY <2>2, <3>1, Zenon DEF BindingFor
    <3> QED
      BY <3>2, <3>3
  <2>11. ASSUME facets[f].target.kind = "feature"
         PROVE  /\ [feature |-> facets[f].target.id, value |-> binding.value] \in states
                /\ facets[f].target.id \in DOMAIN features
    <3>1. \E t \in states : t.feature = facets[f].target.id
      BY <2>8, <2>11
    <3>2. PICK t : t = CHOOSE y \in states : y.feature = facets[f].target.id
      OBVIOUS
    <3>3. t \in states /\ t.feature = facets[f].target.id
      BY <3>1, <3>2, Zenon
    <3>4. facets[f].target.kind # "entity"
      BY <2>11
    <3>5. binding.value = t.value
      <4>1. binding = [revision |-> binding.revision,
                       value |-> IF facets[f].target.kind = "entity" THEN None
                                 ELSE (CHOOSE y \in states : y.feature = facets[f].target.id).value]
        BY <2>2, Zenon DEF BindingFor
      <4> QED
        BY <3>2, <3>4, <4>1
    <3> QED
      BY <1>3, <3>3, <3>4, <3>5
  <2>12. \E r \in anchorRevs :
            <<r.anchor, r.number, r.binding, r.items>> = <<x.anchor, x.number, x.binding, x.items>>
    <3>1. \E r \in RevsOfAnchor(a) : r.number = anchors[a].approved
      BY <2>4 DEF AnchorsInv, ApprovedExists
    <3>2. PICK r : r = Approved(a)
      OBVIOUS
    <3>3. r \in RevsOfAnchor(a) /\ r.number = anchors[a].approved
      BY <3>1, <3>2, Zenon DEF Approved
    <3>4. r \in anchorRevs /\ r.anchor = a /\ r.binding = anchors[a].binding
      BY <3>3 DEF RevsOfAnchor, AnchorsInv, RevisionsInv, RevisionSound
    <3> QED
      BY <2>4, <2>5, <3>2, <3>3, <3>4
  <2> QED
    BY <2>5, <2>7, <2>10, <2>11, <2>12 DEF Owner
<1> QED
  BY <1>1, <1>4 DEF PackOK, Fits, Stands

-----------------------------------------------------------------------------
(* The captures of shots.                                                  *)

\* A client that reads a shot has the pack of the shot as the story is.
LEMMA ReadShotKeeps ==
    ASSUME AnchorsInv, PacksInv, NEW k \in Editors, NEW s, ReadShot(k, s)
    PROVE  AnchorsInv' /\ PacksInv'
<1>1. PICK seen : seen = [step |-> "shot", shot |-> s, deps |-> ResolvedDependencies(s),
                          states |-> StatesOf(s),
                          pack |-> Pack(ResolvedDependencies(s), StatesOf(s))]
  OBVIOUS
<1>2. /\ s \in DOMAIN shots /\ looks' = [looks EXCEPT ![k] = seen]
      /\ features' = features /\ shots' = shots /\ shotPacks' = shotPacks
      /\ UNCHANGED <<facets, policies, anchors, working, anchorRevs>>
  BY <1>1 DEF ReadShot, SemanticsReady, Live, continuityVars, storyVars, narrativeVars
<1>3. seen.step = "shot"
  BY <1>1
<1>4. AnchorsInv'
  BY <1>2, <1>3, LookKeeps
<1>5. DOMAIN looks = Editors /\ looks'[k] = seen /\ \A j \in Editors : j # k => looks'[j] = looks[j]
  BY <1>2 DEF AnchorsInv, VisualTyped
<1>6. FeaturesStay
  BY <1>2 DEF FeaturesStay
<1>7. \A p \in shotPacks' : PackOK(p)'
  <2> SUFFICES ASSUME NEW p \in shotPacks PROVE PackOK(p)'
    BY <1>2
  <2> QED
    BY <1>2, <1>6, PackStays DEF PacksInv
<1>8. ASSUME NEW j \in Editors, looks'[j].step = "shot" PROVE PackOK(Frozen(j))'
  <2>1. PICK p : p = [x \in {"shot", "deps", "states", "pack"} |-> looks'[j][x]]
    OBVIOUS
  <2>2. PackOK(p)
    <3>1. CASE j = k
      <4>1. PackOK(p)
        <5>1. /\ p.shot = s /\ p.deps = ResolvedDependencies(s) /\ p.states = StatesOf(s)
              /\ p.pack = Pack(ResolvedDependencies(s), StatesOf(s))
          BY <1>1, <1>5, <2>1, <3>1
        <5> QED
          BY <1>2, <5>1, PackIsRight
      <4> QED
        BY <4>1
    <3>2. CASE j # k
      <4>1. p = Frozen(j) /\ looks[j].step = "shot"
        BY <1>5, <1>8, <2>1, <3>2 DEF Frozen
      <4> QED
        BY <4>1 DEF PacksInv
    <3> QED
      BY <3>1, <3>2
  <2>3. PackOK(p)'
    BY <1>2, <1>6, <2>2, PackStays
  <2>4. p = Frozen(j)'
    BY <2>1 DEF Frozen
  <2> QED
    BY <2>3, <2>4 DEF PackOK, Fits, Stands
<1> QED
  BY <1>4, <1>7, <1>8 DEF PacksInv

\* The capture of a shot freezes the pack that was read.
LEMMA WriteShotKeeps ==
    ASSUME AnchorsInv, PacksInv, NEW k \in Editors, WriteShot(k)
    PROVE  AnchorsInv' /\ PacksInv'
<1>1. /\ looks[k].step = "shot" /\ shotPacks' = shotPacks \cup {Frozen(k)}
      /\ looks' = [looks EXCEPT ![k] = Idle]
      /\ features' = features /\ shots' = shots
      /\ UNCHANGED <<facets, policies, anchors, working, anchorRevs>>
  BY DEF WriteShot, continuityVars, storyVars, narrativeVars
<1>2. AnchorsInv'
  BY <1>1, LookKeeps DEF Idle
<1>3. FeaturesStay
  BY <1>1 DEF FeaturesStay
<1>4. \A p \in shotPacks' : PackOK(p)'
  <2> SUFFICES ASSUME NEW p \in shotPacks' PROVE PackOK(p)'
    OBVIOUS
  <2>1. PackOK(p)
    BY <1>1 DEF PacksInv
  <2> QED
    BY <1>1, <1>3, <2>1, PackStays
<1>5. ASSUME NEW j \in Editors, looks'[j].step = "shot" PROVE PackOK(Frozen(j))'
  <2>1. DOMAIN looks = Editors /\ looks'[k] = Idle /\ \A i \in Editors : i # k => looks'[i] = looks[i]
    BY <1>1 DEF AnchorsInv, VisualTyped
  <2>2. j # k /\ looks'[j] = looks[j]
    BY <1>5, <2>1 DEF Idle
  <2>3. PICK p : p = Frozen(j)
    OBVIOUS
  <2>4. PackOK(p)
    BY <1>5, <2>2, <2>3 DEF PacksInv
  <2>5. PackOK(p)'
    BY <1>1, <1>3, <2>4, PackStays
  <2>6. p = Frozen(j)'
    BY <2>2, <2>3 DEF Frozen
  <2> QED
    BY <2>5, <2>6 DEF PackOK, Fits, Stands
<1> QED
  BY <1>2, <1>4, <1>5 DEF PacksInv

\* Steps that capture no shot.
LEMMA PacksKept ==
    ASSUME PacksInv, FeaturesStay, anchorRevs \subseteq anchorRevs',
           DOMAIN shots \subseteq DOMAIN shots', shotPacks' = shotPacks,
           \A k \in Editors : looks'[k].step = "shot" => looks'[k] = looks[k]
    PROVE  PacksInv'
<1>1. \A p \in shotPacks' : PackOK(p)'
  <2> SUFFICES ASSUME NEW p \in shotPacks PROVE PackOK(p)'
    OBVIOUS
  <2> QED
    BY PackStays DEF PacksInv
<1>2. ASSUME NEW j \in Editors, looks'[j].step = "shot" PROVE PackOK(Frozen(j))'
  <2>1. PICK p : p = Frozen(j)
    OBVIOUS
  <2>2. PackOK(p)
    BY <1>2, <2>1 DEF PacksInv
  <2>3. PackOK(p)'
    BY <2>2, PackStays
  <2>4. p = Frozen(j)'
    BY <1>2, <2>1 DEF Frozen
  <2> QED
    BY <2>3, <2>4 DEF PackOK, Fits, Stands
<1> QED
  BY <1>1, <1>2 DEF PacksInv

\* Shots, once created, are kept.
LEMMA ShotsAreKept ==
    ASSUME ContinuityInv, [ContinuityStep]_continuityVars
    PROVE  DOMAIN shots \subseteq DOMAIN shots'
<1>1. CASE NarrativeStep
  BY <1>1, ShotsComeAndGo DEF ContinuityInv
<1>2. CASE DeleteProject
  BY <1>2 DEF DeleteProject, DropNarrative
<1>3. CASE WorldFactStep
  BY <1>3, Zenon DEF WorldFactStep, CreateEntity, DeleteEntity, CreateRevision, ApproveRevision,
     ReplaceSemanticDependencies, CreateFeature, DeleteFeature, CreatePredicate, DeletePredicate,
     CreateRelation, DeleteRelation, narrativeVars
<1>4. CASE TransitionStep
  <2>1. KeepStory
    BY <1>4 DEF TransitionStep, CreateFeatureTransition, PatchFeatureTransition,
       DeleteFeatureTransition, CreateRelationTransition, PatchRelationTransition,
       DeleteRelationTransition
  <2> QED
    BY <2>1 DEF KeepStory, narrativeVars
<1> QED
  BY <1>1, <1>2, <1>3, <1>4 DEF ContinuityStep, continuityVars, narrativeVars

-----------------------------------------------------------------------------
(* The theorems.                                                           *)

VisualInv == ContinuityInv /\ AnchorsInv /\ PacksInv

\* Every step of the story, the facets, the anchors and the packs keeps the
\* inductive invariant.
LEMMA VisualKeeps == VisualInv /\ [VisualStep]_visualVars => VisualInv'
<1> SUFFICES ASSUME VisualInv, [VisualStep]_visualVars PROVE VisualInv'
  OBVIOUS
<1> USE DEF VisualInv
<1>1. [ContinuityStep]_continuityVars => ContinuityInv' /\ FeaturesStay /\ DOMAIN shots \subseteq DOMAIN shots'
  BY ContinuityKeeps, FeaturesAreKept, ShotsAreKept
<1>2. CASE [ContinuityStep]_continuityVars /\ UNCHANGED visualOnly
  <2>1. AnchorsInv'
    BY <1>1, <1>2, StoryKeepsAnchors
  <2>2. PacksInv'
    BY <1>1, <1>2, PacksKept DEF visualOnly
  <2> QED
    BY <1>1, <1>2, <2>1, <2>2
<1>3. CASE FacetStep
  <2>1. UNCHANGED continuityVars /\ UNCHANGED <<anchorRevs, shotPacks, looks>>
    BY <1>3 DEF FacetStep, CreateFacet, PatchFacet, DeleteFacet, PutValuePolicies
  <2>2. PacksInv'
    BY <1>1, <2>1, PacksKept
  <2> QED
    BY <1>1, <1>3, <2>1, <2>2, FacetKeeps
<1>4. CASE AnchorStep
  <2>1. UNCHANGED continuityVars /\ shotPacks' = shotPacks
    BY <1>4 DEF AnchorStep, CreateAnchor, DeleteAnchor, PutWorkingSet, ApproveAnchor, UnapproveAnchor,
       ReadWorkingSet, WriteRevision
  <2>2. anchorRevs \subseteq anchorRevs'
    BY <1>4 DEF AnchorStep, CreateAnchor, DeleteAnchor, PutWorkingSet, ApproveAnchor, UnapproveAnchor,
       ReadWorkingSet, WriteRevision
  <2>3. ASSUME NEW k \in Editors, looks'[k].step = "shot" PROVE looks'[k] = looks[k]
    <3>1. DOMAIN looks = Editors
      BY DEF AnchorsInv, VisualTyped
    <3>2. \/ looks' = looks
          \/ \E j \in Editors, a \in Anchor : ReadWorkingSet(j, a)
          \/ \E j \in Editors : WriteRevision(j)
      BY <1>4 DEF AnchorStep, CreateAnchor, DeleteAnchor, PutWorkingSet, ApproveAnchor, UnapproveAnchor
    <3> QED
      BY <2>3, <3>1, <3>2 DEF ReadWorkingSet, WriteRevision, Idle
  <2>4. PacksInv'
    BY <1>1, <2>1, <2>2, <2>3, PacksKept
  <2> QED
    BY <1>1, <1>4, <2>1, <2>4, AnchorKeeps
<1>5. CASE PackStep
  <2>1. UNCHANGED continuityVars
    BY <1>5 DEF PackStep, ReadShot, WriteShot
  <2> QED
    BY <1>1, <1>5, <2>1, ReadShotKeeps, WriteShotKeeps DEF PackStep
<1> QED
  BY <1>2, <1>3, <1>4, <1>5 DEF VisualStep, visualVars

\* It holds of an empty project.
LEMMA VisualBegins == VisualInit => VisualInv
<1> SUFFICES ASSUME VisualInit PROVE VisualInv
  OBVIOUS
<1>1. ContinuityInv
  BY InitHolds DEF VisualInit
<1>2. /\ facets = << >> /\ policies = << >> /\ anchors = << >> /\ working = << >>
      /\ anchorRevs = {} /\ shotPacks = {} /\ looks = [k \in Editors |-> Idle]
  BY DEF VisualInit
<1>3. VisualTyped
  <2>1. \A R : << >> \in [DOMAIN << >> -> R]
    OBVIOUS
  <2> QED
    BY <1>2, <2>1 DEF VisualTyped
<1>4. FacetsNamed /\ LooksInv /\ OneAnchor /\ ApprovedExists
  BY <1>2 DEF FacetsNamed, LooksInv, OneAnchor, ApprovedExists, Live, Idle
<1>5. RevisionsInv
  BY <1>2, FS_EmptySet DEF RevisionsInv
<1>6. PacksInv
  BY <1>2 DEF PacksInv, Idle
<1> QED
  BY <1>1, <1>3, <1>4, <1>5, <1>6 DEF VisualInv, AnchorsInv

\* The inductive invariant holds in every reachable state (visual/repository.py,
\* visual/resolver.py).
THEOREM VisualInvariant == VisualSpec => []VisualInv
BY VisualBegins, VisualKeeps, PTL DEF VisualSpec

\* The facets, anchors and packs only look at the story: what is proved of the story
\* alone holds with them (visual/repository.py).
THEOREM VisualLeavesStory == VisualSpec => ContinuitySpec
<1>1. VisualInit => ContinuityInit
  BY DEF VisualInit
<1>2. [VisualStep]_visualVars => [ContinuityStep]_continuityVars
  <2>1. FacetStep => UNCHANGED continuityVars
    BY Zenon DEF FacetStep, CreateFacet, PatchFacet, DeleteFacet, PutValuePolicies
  <2>2. AnchorStep => UNCHANGED continuityVars
    BY Zenon DEF AnchorStep, CreateAnchor, DeleteAnchor, PutWorkingSet, ApproveAnchor, UnapproveAnchor,
       ReadWorkingSet, WriteRevision
  <2>3. PackStep => UNCHANGED continuityVars
    BY Zenon DEF PackStep, ReadShot, WriteShot
  <2> QED
    BY <2>1, <2>2, <2>3 DEF VisualStep, visualVars
<1> QED
  BY <1>1, <1>2, PTL DEF VisualSpec, ContinuitySpec

\* An approved anchor leads to exactly one complete revision of its own binding, and
\* the revisions of an anchor are numbered in a row without twins, whatever several
\* clients capture, approve and delete (visual/repository.py).
THEOREM AnchorsCanBeTrusted == VisualSpec => []AnchorsSound
<1>1. VisualInv => AnchorsSound
  <2> SUFFICES ASSUME VisualInv PROVE AnchorsSound
    OBVIOUS
  <2>1. ContinuityTypeOK
    BY TypesFollow DEF VisualInv
  <2>2. VisualTypeOK
    BY <2>1 DEF VisualInv, AnchorsInv, VisualTyped, RevisionsInv, PacksInv, PackOK, VisualTypeOK,
       AnchorRow, Items
  <2> QED
    BY <2>2, AnchorsVerify DEF VisualInv, AnchorsSound
<1> QED
  BY VisualInvariant, <1>1, PTL

\* The reference pack of a captured shot shows only what the shot's own
\* dependencies and states call for, and every entry leads to a revision that is
\* still there (visual/resolver.py).
THEOREM PacksAreOfTheirStory == VisualSpec => []PacksSound
<1>1. VisualInv => PacksSound
  BY DEF VisualInv, PacksInv, PackOK, Fits, Stands, PacksSound, PackFitsItsStory, PacksStand
<1> QED
  BY VisualInvariant, <1>1, PTL

-----------------------------------------------------------------------------
(* The inductive invariant: worlds and their geometry.                     *)

USE SpatialAssumption DEF SpatialAssumption

WorldRow == [location : Entity, required : BOOLEAN, live : BOOLEAN]
FrameRow == [world : World, parent : Frame \cup {None}, bound : Entity \cup {None}, live : BOOLEAN]
TrackRow == [world : World, entity : Entity, required : BOOLEAN, live : BOOLEAN]

StateRow(r) == r = [members |-> r.members, axes |-> r.axes, approved |-> r.approved]

GeometryTyped ==
    /\ worlds \in [DOMAIN worlds -> WorldRow]
    /\ DOMAIN frames \subseteq Frame /\ frames \in [DOMAIN frames -> FrameRow]
    /\ \A st \in DOMAIN worldStates : StateRow(worldStates[st])

\* Following parents, deleted ones included, ends.
FramesRooted ==
    /\ \A f \in DOMAIN frames : frames[f].parent \in DOMAIN frames \cup {None}
    /\ \A S \in SUBSET DOMAIN frames : S # {} => \E f \in S : frames[f].parent \notin S

\* What a state includes stands under what it includes, and in one place.
StateStands(st) ==
    LET members == worldStates[st].members
    IN /\ DOMAIN members \subseteq DOMAIN frames
       /\ \A f \in DOMAIN members : /\ frames[f].parent \in DOMAIN members \cup {None}
                                    /\ members[f].bound = frames[f].bound
       /\ \A f, g \in DOMAIN members : frames[f].bound # None /\ frames[f].bound = frames[g].bound => f = g
       /\ \A a \in DOMAIN worldStates[st].axes : ToSet(worldStates[st].axes[a]) \subseteq DOMAIN members

GeometryInv == GeometryTyped /\ FramesRooted /\ \A st \in DOMAIN worldStates : StateStands(st)

\* A member's frame, as the capture reads it.
LEMMA StatesAreCapturable == GeometryInv => StatesCapturable
<1> SUFFICES ASSUME GeometryInv, NEW st \in DOMAIN worldStates
             PROVE  /\ ParseWorldRevision(Candidate(st))
                    /\ \A f, g \in DOMAIN worldStates[st].members :
                          /\ worldStates[st].members[f].bound = frames[f].bound
                          /\ frames[f].bound # None /\ frames[f].bound = frames[g].bound => f = g
  BY DEF StatesCapturable
<1>1. StateStands(st)
  BY DEF GeometryInv
<1>2. PICK members : members = worldStates[st].members
  OBVIOUS
<1>3. PICK value : value = Candidate(st)
  OBVIOUS
<1>4. /\ DOMAIN value.members = DOMAIN members /\ value.axes = worldStates[st].axes
      /\ \A f \in DOMAIN members : value.members[f].parent = frames[f].parent
  BY <1>2, <1>3 DEF Candidate, CandidateFrames
<1>5. ~Cyclic([f \in DOMAIN value.members |-> value.members[f].parent])
  <2>1. PICK parents : parents = [f \in DOMAIN value.members |-> value.members[f].parent]
    OBVIOUS
  <2>2. DOMAIN parents = DOMAIN members /\ \A f \in DOMAIN members : parents[f] = frames[f].parent
    BY <1>4, <2>1
  <2>3. DOMAIN members \subseteq DOMAIN frames
    BY <1>1, <1>2 DEF StateStands
  <2>4. ~Cyclic(parents)
    <3> SUFFICES ASSUME NEW S \in SUBSET DOMAIN parents, S # {} PROVE \E f \in S : parents[f] \notin S
      BY DEF Cyclic
    <3>1. \E f \in S : frames[f].parent \notin S
      BY <2>2, <2>3 DEF GeometryInv, FramesRooted
    <3> QED
      BY <2>2, <3>1
  <2> QED
    BY <2>1, <2>4
<1>6. ParseWorldRevision(value)
  BY <1>1, <1>2, <1>4, <1>5 DEF ParseWorldRevision, StateStands
<1> QED
  BY <1>1, <1>3, <1>6 DEF StateStands

-----------------------------------------------------------------------------
(* Frames.                                                                 *)

\* A new frame is under an older one.
LEMMA CreateFrameKeeps ==
    ASSUME GeometryInv, NEW f \in Frame, NEW w \in World, NEW parent \in Frame \cup {None},
           NEW e \in Entity \cup {None}, CreateFrame(f, w, parent, e)
    PROVE  GeometryInv'
<1>1. PICK row : row = [world |-> w, parent |-> parent, bound |-> e, live |-> TRUE]
  OBVIOUS
<1>2. row \in FrameRow /\ row.parent = parent
  BY <1>1 DEF FrameRow
<1>3. /\ frames' = With(frames, f, row) /\ f \notin DOMAIN frames
      /\ parent \in DOMAIN frames \cup {None} /\ worlds' = worlds /\ worldStates' = worldStates
  BY <1>1 DEF CreateFrame
<1>4. /\ DOMAIN frames' = DOMAIN frames \cup {f} /\ frames'[f] = row
      /\ \A g \in DOMAIN frames : frames'[g] = frames[g]
  BY <1>3 DEF With
<1>5. frames' \in [DOMAIN frames' -> FrameRow]
  BY <1>2, <1>3, <1>4, WithTyped DEF GeometryInv, GeometryTyped
<1>6. GeometryTyped'
  BY <1>3, <1>4, <1>5 DEF GeometryInv, GeometryTyped, StateRow
<1>7. FramesRooted'
  <2>1. \A g \in DOMAIN frames' : frames'[g].parent \in DOMAIN frames' \cup {None}
    BY <1>2, <1>3, <1>4 DEF GeometryInv, FramesRooted
  <2>2. ASSUME NEW S \in SUBSET DOMAIN frames', S # {} PROVE \E g \in S : frames'[g].parent \notin S
    <3>1. CASE S = {f}
      <4>1. frames'[f].parent # f
        BY <1>2, <1>3, <1>4
      <4> QED
        BY <3>1, <4>1
    <3>2. CASE S # {f}
      <4>1. S \ {f} # {} /\ S \ {f} \in SUBSET DOMAIN frames
        BY <1>4, <2>2, <3>2
      <4>2. PICK g \in S \ {f} : frames[g].parent \notin S \ {f}
        BY <4>1 DEF GeometryInv, FramesRooted
      <4>3. frames[g].parent # f
        BY <1>3, <4>1 DEF GeometryInv, FramesRooted
      <4> QED
        BY <1>4, <4>1, <4>2, <4>3
    <3> QED
      BY <3>1, <3>2
  <2> QED
    BY <2>1, <2>2 DEF FramesRooted
<1>8. ASSUME NEW st \in DOMAIN worldStates PROVE StateStands(st)'
  BY <1>3, <1>4 DEF GeometryInv, StateStands
<1> QED
  BY <1>3, <1>6, <1>7, <1>8 DEF GeometryInv

\* A frame goes elsewhere within what is rooted, and stays under what is included.
LEMMA PatchFrameKeeps ==
    ASSUME GeometryInv, NEW f \in Frame, NEW parent \in Frame \cup {None}, NEW e \in Entity \cup {None},
           PatchFrame(f, parent, e)
    PROVE  GeometryInv'
<1>1. PICK row : row = [frames[f] EXCEPT !.parent = parent, !.bound = e]
  OBVIOUS
<1>2. f \in DOMAIN frames /\ frames[f] \in FrameRow
  BY DEF PatchFrame, Live, GeometryInv, GeometryTyped
<1>3. row \in FrameRow /\ row.parent = parent /\ row.bound = e
  BY <1>1, <1>2 DEF FrameRow
<1>4. frames' = [frames EXCEPT ![f] = row] /\ worlds' = worlds /\ worldStates' = worldStates
  BY <1>1 DEF PatchFrame
<1>5. /\ DOMAIN frames' = DOMAIN frames /\ frames'[f] = row
      /\ \A g \in DOMAIN frames : g # f => frames'[g] = frames[g]
  BY <1>2, <1>4
<1>6. GeometryTyped'
  BY <1>3, <1>4, <1>5 DEF GeometryInv, GeometryTyped, StateRow
<1>7. parent \in DOMAIN frames \cup {None}
  BY <1>2 DEF PatchFrame, Live, GeometryInv, FramesRooted
<1>8. FramesRooted'
  <2>1. \A g \in DOMAIN frames' : frames'[g].parent \in DOMAIN frames' \cup {None}
    BY <1>3, <1>5, <1>7 DEF GeometryInv, FramesRooted
  <2>2. PICK parents : parents = [x \in DOMAIN frames |-> frames'[x].parent]
    OBVIOUS
  <2>3. ~Cyclic(parents)
    BY <2>2 DEF PatchFrame
  <2>4. \A S \in SUBSET DOMAIN frames : S # {} => \E g \in S : parents[g] \notin S
    BY <2>2, <2>3 DEF Cyclic
  <2> QED
    BY <1>5, <2>1, <2>2, <2>4 DEF FramesRooted
<1>9. ASSUME NEW st \in DOMAIN worldStates PROVE StateStands(st)'
  <2>1. CASE f \notin DOMAIN worldStates[st].members
    BY <1>4, <1>5, <2>1 DEF GeometryInv, StateStands
  <2>2. CASE f \in DOMAIN worldStates[st].members
    <3>1. st \in Holding(f)
      BY <2>2 DEF Holding
    <3>2. e = frames[f].bound
      BY <3>1 DEF PatchFrame
    <3>3. parent \in DOMAIN worldStates[st].members \cup {None}
      <4>1. CASE parent = frames[f].parent \/ parent = None
        BY <2>2, <4>1 DEF GeometryInv, StateStands
      <4>2. CASE parent # frames[f].parent /\ parent # None
        BY <3>1, <4>2 DEF PatchFrame, Holding
      <4> QED
        BY <4>1, <4>2
    <3>4. \A g \in DOMAIN frames : frames'[g].bound = frames[g].bound
      BY <1>3, <1>5, <3>2
    <3>5. \A g \in DOMAIN worldStates[st].members :
             frames'[g].parent \in DOMAIN worldStates[st].members \cup {None}
      BY <1>3, <1>5, <3>3 DEF GeometryInv, StateStands
    <3>6. StateStands(st)
      BY DEF GeometryInv
    <3> QED
      BY <1>4, <1>5, <3>4, <3>5, <3>6 DEF StateStands
  <2> QED
    BY <2>1, <2>2
<1> QED
  BY <1>4, <1>6, <1>8, <1>9 DEF GeometryInv

\* A frame that is deleted stays where it is.
LEMMA DeleteFrameKeeps ==
    ASSUME GeometryInv, NEW f \in Frame, DeleteFrame(f)
    PROVE  GeometryInv'
<1>1. PICK row : row = [frames[f] EXCEPT !.live = FALSE]
  OBVIOUS
<1>2. f \in DOMAIN frames /\ frames[f] \in FrameRow
  BY DEF DeleteFrame, Live, GeometryInv, GeometryTyped
<1>3. row \in FrameRow /\ row.parent = frames[f].parent /\ row.bound = frames[f].bound
  BY <1>1, <1>2 DEF FrameRow
<1>4. frames' = [frames EXCEPT ![f] = row] /\ worlds' = worlds /\ worldStates' = worldStates
  BY <1>1 DEF DeleteFrame, Tombstone
<1>5. DOMAIN frames' = DOMAIN frames
  BY <1>4
<1>6. \A g \in DOMAIN frames : frames'[g].parent = frames[g].parent /\ frames'[g].bound = frames[g].bound
  BY <1>2, <1>3, <1>4
<1>7. GeometryTyped'
  BY <1>3, <1>4, <1>5 DEF GeometryInv, GeometryTyped, StateRow
<1>8. FramesRooted'
  BY <1>5, <1>6 DEF GeometryInv, FramesRooted
<1>9. ASSUME NEW st \in DOMAIN worldStates PROVE StateStands(st)'
  BY <1>4, <1>5, <1>6 DEF GeometryInv, StateStands
<1> QED
  BY <1>4, <1>7, <1>8, <1>9 DEF GeometryInv

-----------------------------------------------------------------------------
(* States.                                                                 *)

\* A state that changes in what it includes, its axes or its approval.
LEMMA StateChanges ==
    ASSUME GeometryInv, NEW st \in DOMAIN worldStates, NEW row, StateRow(row),
           worldStates' = [worldStates EXCEPT ![st] = row], UNCHANGED <<worlds, frames>>,
           DOMAIN row.members \subseteq DOMAIN frames,
           \A f \in DOMAIN row.members : /\ frames[f].parent \in DOMAIN row.members \cup {None}
                                         /\ row.members[f].bound = frames[f].bound,
           \A f, g \in DOMAIN row.members :
               frames[f].bound # None /\ frames[f].bound = frames[g].bound => f = g,
           \A a \in DOMAIN row.axes : ToSet(row.axes[a]) \subseteq DOMAIN row.members
    PROVE  GeometryInv'
<1>1. /\ DOMAIN worldStates' = DOMAIN worldStates /\ worldStates'[st] = row
      /\ \A x \in DOMAIN worldStates : x # st => worldStates'[x] = worldStates[x]
  OBVIOUS
<1>2. GeometryTyped'
  BY <1>1 DEF GeometryInv, GeometryTyped, StateRow
<1>3. FramesRooted'
  BY DEF GeometryInv, FramesRooted
<1>4. ASSUME NEW x \in DOMAIN worldStates' PROVE StateStands(x)'
  <2>1. CASE x = st
    BY <1>1, <2>1 DEF StateStands
  <2>2. CASE x # st
    BY <1>1, <2>2 DEF GeometryInv, StateStands
  <2> QED
    BY <2>1, <2>2
<1> QED
  BY <1>2, <1>3, <1>4 DEF GeometryInv

\* A state is created empty.
LEMMA CreateStateKeeps ==
    ASSUME GeometryInv, NEW w, NEW number, CreateState(w, number)
    PROVE  GeometryInv'
<1>1. PICK st, row : st = <<w, number>> /\ row = [members |-> << >>, axes |-> << >>, approved |-> 0]
  OBVIOUS
<1>2. /\ worldStates' = With(worldStates, st, row) /\ st \notin DOMAIN worldStates
      /\ worlds' = worlds /\ frames' = frames
  BY <1>1 DEF CreateState
<1>3. /\ DOMAIN worldStates' = DOMAIN worldStates \cup {st} /\ worldStates'[st] = row
      /\ \A x \in DOMAIN worldStates : worldStates'[x] = worldStates[x]
  BY <1>2 DEF With
<1>4. StateRow(row) /\ DOMAIN row.members = {} /\ DOMAIN row.axes = {}
  BY <1>1 DEF StateRow
<1>5. GeometryTyped'
  BY <1>2, <1>3, <1>4 DEF GeometryInv, GeometryTyped, StateRow
<1>6. FramesRooted'
  BY <1>2 DEF GeometryInv, FramesRooted
<1>7. ASSUME NEW x \in DOMAIN worldStates' PROVE StateStands(x)'
  <2>1. CASE x = st
    BY <1>2, <1>3, <1>4, <2>1 DEF StateStands
  <2>2. CASE x # st
    BY <1>2, <1>3, <2>2 DEF GeometryInv, StateStands
  <2> QED
    BY <2>1, <2>2
<1> QED
  BY <1>5, <1>6, <1>7 DEF GeometryInv

\* A frame is put under what the state includes, with an entity of its own.
LEMMA PutStateFrameKeeps ==
    ASSUME GeometryInv, NEW st \in DOMAIN worldStates, NEW f \in Frame, NEW rev, NEW at,
           PutStateFrame(st, f, rev, at)
    PROVE  GeometryInv'
<1>1. PICK members, value, all : /\ members = worldStates[st].members
                                 /\ value = [bound |-> frames[f].bound, rev |-> rev, at |-> at]
                                 /\ all = With(members, f, value)
  OBVIOUS
<1>2. PICK row : row = [worldStates[st] EXCEPT !.members = all]
  OBVIOUS
<1>3. StateRow(worldStates[st]) /\ StateStands(st)
  BY DEF GeometryInv, GeometryTyped
<1>4. StateRow(row) /\ row.members = all /\ row.axes = worldStates[st].axes
  BY <1>2, <1>3 DEF StateRow
<1>5. worldStates' = [worldStates EXCEPT ![st] = row] /\ UNCHANGED <<worlds, frames>>
  BY <1>1, <1>2 DEF PutStateFrame
<1>6. /\ DOMAIN all = DOMAIN members \cup {f} /\ all[f] = value
      /\ \A g \in DOMAIN members : g # f => all[g] = members[g]
  BY <1>1 DEF With
<1>7. f \in DOMAIN frames /\ frames[f].parent \in DOMAIN members \cup {None}
  BY <1>1 DEF PutStateFrame, Live
<1>8. value.bound = frames[f].bound
  BY <1>1
<1>9. \A g \in DOMAIN all : /\ frames[g].parent \in DOMAIN all \cup {None}
                            /\ all[g].bound = frames[g].bound
  BY <1>1, <1>3, <1>6, <1>7, <1>8 DEF StateStands
<1>10. ASSUME frames[f].bound # None
       PROVE  \A g \in DOMAIN members \ {f} : frames[g].bound # frames[f].bound
  BY <1>1, <1>3, <1>10 DEF PutStateFrame, StateStands
<1>11. \A g, h \in DOMAIN all : frames[g].bound # None /\ frames[g].bound = frames[h].bound => g = h
  BY <1>1, <1>3, <1>6, <1>10 DEF StateStands
<1>12. \A a \in DOMAIN row.axes : ToSet(row.axes[a]) \subseteq DOMAIN all
  BY <1>1, <1>3, <1>4, <1>6 DEF StateStands
<1>13. DOMAIN all \subseteq DOMAIN frames
  BY <1>1, <1>3, <1>6, <1>7 DEF StateStands
<1> QED
  BY <1>4, <1>5, <1>9, <1>11, <1>12, <1>13, StateChanges

\* A frame that nothing included is under, and no axis ends at, leaves a state.
LEMMA DeleteStateFrameKeeps ==
    ASSUME GeometryInv, NEW st \in DOMAIN worldStates, NEW f \in Frame, DeleteStateFrame(st, f)
    PROVE  GeometryInv'
<1>1. PICK members, rest : /\ members = worldStates[st].members
                           /\ rest = [g \in DOMAIN members \ {f} |-> members[g]]
  OBVIOUS
<1>2. PICK row : row = [worldStates[st] EXCEPT !.members = rest]
  OBVIOUS
<1>3. StateRow(worldStates[st]) /\ StateStands(st)
  BY DEF GeometryInv, GeometryTyped
<1>4. StateRow(row) /\ row.members = rest /\ row.axes = worldStates[st].axes
  BY <1>2, <1>3 DEF StateRow
<1>5. worldStates' = [worldStates EXCEPT ![st] = row] /\ UNCHANGED <<worlds, frames>>
  BY <1>1, <1>2 DEF DeleteStateFrame
<1>6. DOMAIN rest = DOMAIN members \ {f} /\ \A g \in DOMAIN rest : rest[g] = members[g]
  BY <1>1
<1>7. \A g \in DOMAIN members : frames[g].parent # f
  BY <1>1 DEF DeleteStateFrame
<1>8. \A a \in DOMAIN row.axes : ToSet(row.axes[a]) \subseteq DOMAIN rest
  <2>1. \A a \in DOMAIN worldStates[st].axes : f \notin ToSet(worldStates[st].axes[a])
    BY DEF DeleteStateFrame, EndOf
  <2> QED
    BY <1>1, <1>3, <1>4, <1>6, <2>1 DEF StateStands
<1>9. /\ DOMAIN rest \subseteq DOMAIN frames
      /\ \A g \in DOMAIN rest : frames[g].parent \in DOMAIN rest \cup {None} /\ rest[g].bound = frames[g].bound
      /\ \A g, h \in DOMAIN rest : frames[g].bound # None /\ frames[g].bound = frames[h].bound => g = h
  BY <1>1, <1>3, <1>6, <1>7 DEF StateStands
<1> QED
  BY <1>4, <1>5, <1>8, <1>9, StateChanges

\* A state whose axes end at included frames.
LEMMA AxesChange ==
    ASSUME GeometryInv, NEW st \in DOMAIN worldStates, NEW new,
           worldStates' = [worldStates EXCEPT ![st].axes = new], UNCHANGED <<worlds, frames>>,
           \A b \in DOMAIN new : ToSet(new[b]) \subseteq DOMAIN worldStates[st].members
    PROVE  GeometryInv'
<1>1. PICK row : row = [worldStates[st] EXCEPT !.axes = new]
  OBVIOUS
<1>2. StateRow(worldStates[st]) /\ StateStands(st)
  BY DEF GeometryInv, GeometryTyped
<1>3. StateRow(row) /\ row.axes = new /\ row.members = worldStates[st].members
  BY <1>1, <1>2 DEF StateRow
<1>4. worldStates' = [worldStates EXCEPT ![st] = row]
  BY <1>1
<1> QED
  BY <1>2, <1>3, <1>4, StateChanges DEF StateStands

\* Axes come and go between included frames.
LEMMA StateAxisKeeps ==
    ASSUME GeometryInv, NEW st \in DOMAIN worldStates, NEW a, NEW f, NEW g,
           PutStateAxis(st, a, f, g) \/ DeleteStateAxis(st, a)
    PROVE  GeometryInv'
<1>1. UNCHANGED <<worlds, frames>>
  BY DEF PutStateAxis, DeleteStateAxis
<1>2. PICK old : old = worldStates[st].axes
  OBVIOUS
<1>3. \A b \in DOMAIN old : ToSet(old[b]) \subseteq DOMAIN worldStates[st].members
  BY <1>2 DEF GeometryInv, StateStands
<1>4. CASE PutStateAxis(st, a, f, g)
  <2>1. PICK new : new = With(old, a, <<f, g>>)
    OBVIOUS
  <2>2. DOMAIN new = DOMAIN old \cup {a} /\ \A b \in DOMAIN new : new[b] = IF b = a THEN <<f, g>> ELSE old[b]
    BY <2>1 DEF With
  <2>3. ToSet(<<f, g>>) \subseteq DOMAIN worldStates[st].members
    BY <1>4 DEF PutStateAxis, ToSet
  <2>4. \A b \in DOMAIN new : ToSet(new[b]) \subseteq DOMAIN worldStates[st].members
    BY <1>3, <2>2, <2>3
  <2>5. worldStates' = [worldStates EXCEPT ![st].axes = new]
    BY <1>2, <1>4, <2>1 DEF PutStateAxis
  <2> QED
    BY <1>1, <2>4, <2>5, AxesChange
<1>5. CASE DeleteStateAxis(st, a)
  <2>1. PICK new : new = [b \in DOMAIN old \ {a} |-> old[b]]
    OBVIOUS
  <2>2. \A b \in DOMAIN new : ToSet(new[b]) \subseteq DOMAIN worldStates[st].members
    BY <1>3, <2>1
  <2>3. worldStates' = [worldStates EXCEPT ![st].axes = new]
    BY <1>2, <1>5, <2>1 DEF DeleteStateAxis
  <2> QED
    BY <1>1, <2>2, <2>3, AxesChange
<1> QED
  BY <1>4, <1>5

\* Approval changes nothing that is included.
LEMMA ApprovalKeeps ==
    ASSUME GeometryInv, NEW st \in DOMAIN worldStates, NEW n, NEW x,
           ApproveWorld(st, n, x) \/ Unapprove(st, x)
    PROVE  GeometryInv'
<1>1. PICK number : worldStates' = [worldStates EXCEPT ![st].approved = number]
  BY DEF ApproveWorld, Unapprove
<1>2. PICK row : row = [worldStates[st] EXCEPT !.approved = number]
  OBVIOUS
<1>3. StateRow(worldStates[st]) /\ StateStands(st)
  BY DEF GeometryInv, GeometryTyped
<1>4. StateRow(row) /\ row.axes = worldStates[st].axes /\ row.members = worldStates[st].members
  BY <1>2, <1>3 DEF StateRow
<1>5. worldStates' = [worldStates EXCEPT ![st] = row] /\ UNCHANGED <<worlds, frames>>
  BY <1>1, <1>2 DEF ApproveWorld, Unapprove, KeepGeometry
<1> QED
  BY <1>3, <1>4, <1>5, StateChanges DEF StateStands

-----------------------------------------------------------------------------
(* Worlds and what hangs on them.                                          *)

StagingTyped == tracks \in [DOMAIN tracks -> TrackRow] /\ DOMAIN plans = Shot

StagingInv == StagingTyped /\ AuthorityHangsTogether

\* What is staged hangs on tracks, worlds and plans that stand.
LEMMA AuthorityStays ==
    ASSUME StagingInv, UNCHANGED <<tracks, plans>>, Live(worlds) \subseteq Live(worlds'),
           \A t \in Active' : t.family = "staging" => t.owner \in Live(tracks)
    PROVE  StagingInv'
BY DEF StagingInv, StagingTyped, AuthorityHangsTogether

\* A world is created, patched, or deleted when nothing is staged in it.
LEMMA WorldSteps ==
    ASSUME GeometryInv, StagingInv, NEW w \in World, NEW e \in Entity, NEW b \in BOOLEAN,
           CreateWorld(w, e, b) \/ PatchWorld(w, b) \/ DeleteWorld(w)
    PROVE  GeometryInv' /\ StagingInv'
<1>1. UNCHANGED <<frames, worldStates, transitions, tracks, plans>>
  BY DEF CreateWorld, PatchWorld, DeleteWorld, continuityVars
<1>2. Active' = Active
  BY <1>1 DEF Active
<1>3. worlds \in [DOMAIN worlds -> WorldRow]
  BY DEF GeometryInv, GeometryTyped
<1>4. ASSUME worlds' \in [DOMAIN worlds' -> WorldRow] PROVE GeometryInv'
  BY <1>1, <1>4 DEF GeometryInv, GeometryTyped, StateRow, FramesRooted, StateStands
<1>5. CASE CreateWorld(w, e, b)
  <2>1. PICK row : row = [location |-> e, required |-> b, live |-> TRUE]
    OBVIOUS
  <2>2. w \notin DOMAIN worlds /\ worlds' = With(worlds, w, row) /\ row \in WorldRow
    BY <1>5, <2>1 DEF CreateWorld, WorldRow
  <2>3. DOMAIN worlds' = DOMAIN worlds \cup {w} /\ \A x \in DOMAIN worlds : worlds'[x] = worlds[x]
    BY <2>2 DEF With
  <2>4. worlds' \in [DOMAIN worlds' -> WorldRow]
    BY <1>3, <2>2, <2>3, WithTyped
  <2>5. Live(worlds) \subseteq Live(worlds')
    BY <2>3 DEF Live
  <2> QED
    BY <1>1, <1>2, <1>4, <2>4, <2>5, AuthorityStays DEF StagingInv, AuthorityHangsTogether
<1>6. CASE PatchWorld(w, b)
  <2>1. PICK row : row = [worlds[w] EXCEPT !.required = b]
    OBVIOUS
  <2>2. w \in DOMAIN worlds /\ worlds[w].live /\ worlds' = [worlds EXCEPT ![w] = row]
    BY <1>6, <2>1 DEF PatchWorld, Live
  <2>3. row \in WorldRow /\ row.live = worlds[w].live
    BY <1>3, <2>1, <2>2 DEF WorldRow
  <2>4. worlds' \in [DOMAIN worlds' -> WorldRow]
    BY <1>3, <2>2, <2>3
  <2>5. Live(worlds) \subseteq Live(worlds')
    BY <2>2, <2>3 DEF Live
  <2> QED
    BY <1>1, <1>2, <1>4, <2>4, <2>5, AuthorityStays DEF StagingInv, AuthorityHangsTogether
<1>7. CASE DeleteWorld(w)
  <2>1. PICK row : row = [worlds[w] EXCEPT !.live = FALSE]
    OBVIOUS
  <2>2. w \in DOMAIN worlds /\ worlds' = [worlds EXCEPT ![w] = row]
    BY <1>7, <2>1 DEF DeleteWorld, Live, Tombstone
  <2>3. row \in WorldRow
    BY <1>3, <2>1, <2>2 DEF WorldRow
  <2>4. worlds' \in [DOMAIN worlds' -> WorldRow]
    BY <1>3, <2>2, <2>3
  <2>5. Live(worlds) \ {w} \subseteq Live(worlds')
    BY <2>2 DEF Live
  <2>6. (\A t \in Live(tracks) : tracks[t].world # w) /\ (\A s \in Shot : plans[s].world # w)
    BY <1>7 DEF DeleteWorld
  <2>7. StagingInv'
    BY <1>1, <1>2, <2>5, <2>6 DEF StagingInv, StagingTyped, AuthorityHangsTogether
  <2> QED
    BY <1>4, <2>4, <2>7
<1> QED
  BY <1>5, <1>6, <1>7

\* The geometry of worlds is apart from the story.
LEMMA GeometryTouchesNoStory ==
    ASSUME GeometryStep
    PROVE  UNCHANGED continuityVars
<1>1. ASSUME NEW w, NEW e, NEW b, NEW n, CreateWorld(w, e, b) \/ PatchWorld(w, b) \/ DeleteWorld(w) \/ CreateState(w, n)
      PROVE  UNCHANGED continuityVars
  BY <1>1 DEF CreateWorld, PatchWorld, DeleteWorld, CreateState
<1>2. ASSUME NEW f, NEW w, NEW p, NEW e, CreateFrame(f, w, p, e) \/ PatchFrame(f, p, e) \/ DeleteFrame(f)
      PROVE  UNCHANGED continuityVars
  BY <1>2 DEF CreateFrame, PatchFrame, DeleteFrame
<1>3. ASSUME NEW st, NEW f, NEW rev, NEW at, PutStateFrame(st, f, rev, at) \/ DeleteStateFrame(st, f)
      PROVE  UNCHANGED continuityVars
  BY <1>3 DEF PutStateFrame, DeleteStateFrame
<1>4. ASSUME NEW st, NEW a, NEW f, NEW g, PutStateAxis(st, a, f, g) \/ DeleteStateAxis(st, a)
      PROVE  UNCHANGED continuityVars
  BY <1>4 DEF PutStateAxis, DeleteStateAxis
<1>5. ASSUME NEW st, NEW n, NEW x, ApproveWorld(st, n, x) \/ Unapprove(st, x)
      PROVE  UNCHANGED continuityVars
  BY <1>5 DEF ApproveWorld, Unapprove, KeepGeometry
<1>6. ASSUME NEW k, NEW st, FreezeFrames(k, st) \/ FreezeAxes(k) \/ CaptureWorld(k)
      PROVE  UNCHANGED continuityVars
  BY <1>6 DEF FreezeFrames, FreezeAxes, CaptureWorld, KeepGeometry
<1>7. ASSUME NEW a, NEW w, CreateAxis(a, w) \/ DeleteAxis(a)
      PROVE  UNCHANGED continuityVars
  BY <1>7 DEF CreateAxis, DeleteAxis
<1> QED
  BY <1>1, <1>2, <1>3, <1>4, <1>5, <1>6, <1>7 DEF GeometryStep

\* Every step of the geometry of worlds.
LEMMA GeometryKeeps ==
    ASSUME GeometryInv, StagingInv, GeometryStep
    PROVE  GeometryInv' /\ StagingInv'
<1>1. CASE \E w \in World, e \in Entity, b \in BOOLEAN :
              CreateWorld(w, e, b) \/ PatchWorld(w, b) \/ DeleteWorld(w)
  BY <1>1, WorldSteps
<1>2. ASSUME UNCHANGED <<worlds, tracks, plans, transitions>> PROVE StagingInv'
  BY <1>2 DEF StagingInv, StagingTyped, AuthorityHangsTogether, Active, Live
<1>3. ASSUME UNCHANGED <<worlds, frames, worldStates>> PROVE GeometryInv'
  BY <1>3 DEF GeometryInv, GeometryTyped, StateRow, FramesRooted, StateStands
<1>4. CASE \E w \in World, n \in Nat : CreateState(w, n)
  BY <1>2, <1>4, CreateStateKeeps DEF CreateState, continuityVars
<1>5. CASE \E f \in Frame, w \in World, parent \in Frame \cup {None}, e \in Entity \cup {None} :
              CreateFrame(f, w, parent, e) \/ PatchFrame(f, parent, e)
  <2>1. PICK f \in Frame, w \in World, parent \in Frame \cup {None}, e \in Entity \cup {None} :
                CreateFrame(f, w, parent, e) \/ PatchFrame(f, parent, e)
    BY <1>5
  <2>2. GeometryInv'
    BY <2>1, CreateFrameKeeps, PatchFrameKeeps
  <2>3. StagingInv'
    BY <1>2, <2>1 DEF CreateFrame, PatchFrame, continuityVars
  <2> QED
    BY <2>2, <2>3
<1>6. CASE \E f \in Frame : DeleteFrame(f)
  BY <1>2, <1>6, DeleteFrameKeeps DEF DeleteFrame, continuityVars
<1>7. CASE \E st \in DOMAIN worldStates, f \in Frame :
              \/ \E rev \in Nat \cup {None}, at \in Points : PutStateFrame(st, f, rev, at)
              \/ DeleteStateFrame(st, f)
  <2>1. PICK st \in DOMAIN worldStates, f \in Frame :
              \/ \E rev \in Nat \cup {None}, at \in Points : PutStateFrame(st, f, rev, at)
              \/ DeleteStateFrame(st, f)
    BY <1>7
  <2>2. GeometryInv'
    BY <2>1, PutStateFrameKeeps, DeleteStateFrameKeeps
  <2>3. UNCHANGED <<worlds, tracks, plans, transitions>>
    BY <2>1 DEF PutStateFrame, DeleteStateFrame, continuityVars
  <2> QED
    BY <1>2, <2>2, <2>3
<1>8. CASE \E st \in DOMAIN worldStates, a \in Axis :
              (\E f, g \in Frame : PutStateAxis(st, a, f, g)) \/ DeleteStateAxis(st, a)
  <2>1. PICK st \in DOMAIN worldStates, a \in Axis :
              (\E f, g \in Frame : PutStateAxis(st, a, f, g)) \/ DeleteStateAxis(st, a)
    BY <1>8
  <2>2. PICK f, g : PutStateAxis(st, a, f, g) \/ DeleteStateAxis(st, a)
    BY <2>1
  <2>3. UNCHANGED <<worlds, tracks, plans, transitions>>
    BY <2>2 DEF PutStateAxis, DeleteStateAxis, continuityVars
  <2> QED
    BY <1>2, <2>2, <2>3, StateAxisKeeps
<1>9. CASE \E st \in DOMAIN worldStates, n, x \in Nat : ApproveWorld(st, n, x) \/ Unapprove(st, x)
  BY <1>2, <1>9, ApprovalKeeps DEF ApproveWorld, Unapprove, KeepGeometry, continuityVars
<1>10. CASE \E k \in Clients : (\E st \in DOMAIN worldStates : FreezeFrames(k, st)) \/ FreezeAxes(k) \/ CaptureWorld(k)
  BY <1>2, <1>3, <1>10 DEF FreezeFrames, FreezeAxes, CaptureWorld, KeepGeometry, continuityVars
<1>11. CASE \E a \in Axis, w \in World : CreateAxis(a, w) \/ DeleteAxis(a)
  BY <1>2, <1>3, <1>11 DEF CreateAxis, DeleteAxis, continuityVars
<1>12. CASE \E w \in World : DeleteWorld(w)
  <2>1. PICK w \in World : DeleteWorld(w)
    BY <1>12
  <2>2. worlds[w].location \in Entity
    BY <2>1 DEF DeleteWorld, Live, GeometryInv, GeometryTyped, WorldRow
  <2> QED
    BY <2>1, <2>2, WorldSteps
<1> QED
  BY <1>1, <1>4, <1>5, <1>6, <1>7, <1>8, <1>9, <1>10, <1>11, <1>12 DEF GeometryStep

-----------------------------------------------------------------------------
(* Tracks and plans.                                                       *)

\* Every operation on tracks and plans keeps what hangs on them.
LEMMA TrackSteps ==
    ASSUME StagingInv, NEW t \in Track, NEW w \in World, NEW e \in Entity, NEW b \in BOOLEAN,
           CreateTrack(t, w, e, b) \/ PatchTrack(t, b) \/ DeleteTrack(t)
    PROVE  StagingInv'
<1>1. UNCHANGED <<worlds, transitions, plans>>
  BY DEF CreateTrack, PatchTrack, DeleteTrack, continuityVars, geometry
<1>2. Active' = Active /\ Live(worlds') = Live(worlds)
  BY <1>1 DEF Active
<1>3. tracks \in [DOMAIN tracks -> TrackRow]
  BY DEF StagingInv, StagingTyped
<1>4. CASE CreateTrack(t, w, e, b)
  <2>1. PICK row : row = [world |-> w, entity |-> e, required |-> b, live |-> TRUE]
    OBVIOUS
  <2>2. /\ t \notin DOMAIN tracks /\ tracks' = With(tracks, t, row) /\ row \in TrackRow
        /\ row.world = w /\ row.live /\ w \in Live(worlds)
    BY <1>4, <2>1 DEF CreateTrack, TrackRow
  <2>3. /\ DOMAIN tracks' = DOMAIN tracks \cup {t} /\ tracks'[t] = row
        /\ \A x \in DOMAIN tracks : tracks'[x] = tracks[x]
    BY <2>2 DEF With
  <2>4. tracks' \in [DOMAIN tracks' -> TrackRow]
    BY <1>3, <2>2, <2>3, WithTyped
  <2>5. Live(tracks') = Live(tracks) \cup {t}
    BY <2>2, <2>3 DEF Live
  <2> QED
    BY <1>1, <1>2, <2>2, <2>3, <2>4, <2>5 DEF StagingInv, StagingTyped, AuthorityHangsTogether, Live
<1>5. CASE PatchTrack(t, b)
  <2>1. PICK row : row = [tracks[t] EXCEPT !.required = b]
    OBVIOUS
  <2>2. t \in DOMAIN tracks /\ tracks' = [tracks EXCEPT ![t] = row]
    BY <1>5, <2>1 DEF PatchTrack, ActiveTrack, Live
  <2>3. row \in TrackRow /\ row.live = tracks[t].live /\ row.world = tracks[t].world
    BY <1>3, <2>1, <2>2 DEF TrackRow
  <2>4. Live(tracks') = Live(tracks) /\ \A x \in DOMAIN tracks : tracks'[x].world = tracks[x].world
    BY <2>2, <2>3 DEF Live
  <2>5. tracks' \in [DOMAIN tracks' -> TrackRow] /\ DOMAIN tracks' = DOMAIN tracks
    BY <1>3, <2>2, <2>3
  <2> QED
    BY <1>1, <1>2, <2>4, <2>5 DEF StagingInv, StagingTyped, AuthorityHangsTogether, Live
<1>6. CASE DeleteTrack(t)
  <2>1. PICK row : row = [tracks[t] EXCEPT !.live = FALSE]
    OBVIOUS
  <2>2. t \in DOMAIN tracks /\ tracks' = [tracks EXCEPT ![t] = row]
    BY <1>6, <2>1 DEF DeleteTrack, ActiveTrack, Live, Tombstone
  <2>3. row \in TrackRow /\ row.live = FALSE
    BY <1>3, <2>1, <2>2 DEF TrackRow
  <2>4. tracks' \in [DOMAIN tracks' -> TrackRow] /\ DOMAIN tracks' = DOMAIN tracks
    BY <1>3, <2>2, <2>3
  <2>5. Live(tracks') = Live(tracks) \ {t} /\ \A x \in Live(tracks') : tracks'[x] = tracks[x]
    BY <2>2, <2>3 DEF Live
  <2>6. /\ \A u \in Active : u.family = "staging" => u.owner # t
        /\ \A s \in Shot : t \notin DOMAIN plans[s].blocking
    BY <1>6 DEF DeleteTrack, Carries
  <2> QED
    BY <1>1, <1>2, <2>4, <2>5, <2>6 DEF StagingInv, StagingTyped, AuthorityHangsTogether
<1> QED
  BY <1>4, <1>5, <1>6

\* Writing and deleting a plan: an owned plan names what stands at that instant.
LEMMA PlanSteps ==
    ASSUME StagingInv, NEW s \in Shot, NEW x, NEW plan,
           PutSpatialPlan(s, x, plan) \/ DeleteSpatialPlan(s, x)
    PROVE  StagingInv'
<1>1. UNCHANGED <<worlds, tracks, transitions>>
  BY DEF PutSpatialPlan, DeleteSpatialPlan, continuityVars, geometry
<1>2. PICK new : /\ plans' = [plans EXCEPT ![s] = new]
                 /\ new # NoPlan => new.world \in Live(worlds) /\ DOMAIN new.blocking \subseteq Live(tracks)
  BY DEF PutSpatialPlan, DeleteSpatialPlan, PlanOwned
<1>3. DOMAIN plans = Shot
  BY DEF StagingInv, StagingTyped
<1>4. DOMAIN plans' = Shot /\ plans'[s] = new /\ \A u \in Shot : u # s => plans'[u] = plans[u]
  BY <1>2, <1>3
<1>5. Active' = Active
  BY <1>1 DEF Active
<1> QED
  BY <1>1, <1>2, <1>4, <1>5 DEF StagingInv, StagingTyped, AuthorityHangsTogether

-----------------------------------------------------------------------------
(* Transitions of the other families.                                      *)

OtherFamilies == {"staging", "instance_feature", "instance_staging"}

\* Every active row after the step has the owner of a row before it, or is one
\* of family and owner.
OwnersFrom(family, owner) ==
    \A t \in Active' : \/ \E u \in Active : u.family = t.family /\ u.owner = t.owner
                       \/ t.family = family /\ t.owner = owner

\* The story stands while rows of its transitions change.
LEMMA StoryStands ==
    ASSUME ContinuityInv, KeepStory, TransitionsInv'
    PROVE  ContinuityInv'
<1>1. /\ UNCHANGED <<project, sequences, scenes, shots>>
      /\ UNCHANGED <<entities, entityRevs, approved, deps, features, predicates, relations>>
  BY DEF KeepStory, narrativeVars, storyVars
<1>2. TopologyInv' /\ StoryInv'
  BY <1>1 DEF ContinuityInv, TopologyInv, StoryInv, StoryTyped, NamesExist, RelationsGuarded, FeaturesGuarded,
     DependenciesResolve, NoEarlyNeeds, RelationInputs
<1> QED
  BY <1>2 DEF ContinuityInv

\* A new row of the other families joins the story as a row of continuity does.
LEMMA OtherInsert ==
    ASSUME ContinuityInv, KeepStory, NEW family \in OtherFamilies, NEW owner, NEW a \in Anchors,
           NEW v \in StoryValues, Insert(family, owner, a, v)
    PROVE  ContinuityInv' /\ OwnersFrom(family, owner)
<1>1. v \in Values \cup {Clear, "active"} /\ family # "feature" /\ family # "relation"
  BY DEF StoryValues, OtherFamilies
<1>2. UNCHANGED <<sequences, scenes, shots, features, relations>>
  BY DEF KeepStory, narrativeVars, storyVars
<1>3. TransitionsInv'
  BY <1>1, <1>2, InsertKeeps DEF ContinuityInv
<1>4. OwnersFrom(family, owner)
  BY DEF Insert, OwnersFrom, Active
<1> QED
  BY <1>3, <1>4, StoryStands

\* So does a row that is moved to another boundary or given another value,
LEMMA OtherMove ==
    ASSUME ContinuityInv, KeepStory, NEW t \in Active, NEW a \in Anchors, NEW v \in StoryValues,
           AnchorValid(a), a # t.anchor => ~CoordinateTaken(t.family, t.owner, a, {t}),
           transitions' = (transitions \ {t}) \cup {[t EXCEPT !.anchor = a, !.value = v]}
    PROVE  ContinuityInv' /\ OwnersFrom(t.family, t.owner)
<1>1. v \in Values \cup {Clear, "active"}
  BY DEF StoryValues
<1>2. UNCHANGED <<sequences, scenes, shots, features, relations>>
  BY DEF KeepStory, narrativeVars, storyVars
<1>3. ~CoordinateTaken(t.family, t.owner, t.anchor, {t})
  BY DEF ContinuityInv, TransitionsInv, WinnerUnique, CoordinateTaken
<1>4. Move(t, a, v)
  BY <1>3 DEF Move
<1>5. TransitionsInv'
  BY <1>1, <1>2, <1>4, MoveKeeps DEF ContinuityInv
<1>6. PICK r : r = [t EXCEPT !.anchor = a, !.value = v]
  OBVIOUS
<1>7. RowTyped(t)
  BY DEF ContinuityInv, TransitionsInv, RowsTyped, Active
<1>8. r.family = t.family /\ r.owner = t.owner
  BY <1>6, <1>7 DEF RowTyped
<1>9. OwnersFrom(t.family, t.owner)
  BY <1>6, <1>8 DEF OwnersFrom, Active
<1> QED
  BY <1>5, <1>9, StoryStands

\* and one that is withdrawn.
LEMMA OtherDrop ==
    ASSUME ContinuityInv, KeepStory, NEW t \in Active, Drop(t)
    PROVE  ContinuityInv' /\ OwnersFrom(t.family, t.owner)
<1>1. UNCHANGED <<sequences, scenes, shots, features, relations>>
  BY DEF KeepStory, narrativeVars, storyVars
<1>2. TransitionsInv'
  BY <1>1, DropKeeps DEF ContinuityInv
<1>3. PICK r : r = [t EXCEPT !.live = FALSE]
  OBVIOUS
<1>4. RowTyped(t)
  BY DEF ContinuityInv, TransitionsInv, RowsTyped, Active
<1>5. r.family = t.family /\ r.owner = t.owner
  BY <1>3, <1>4 DEF RowTyped
<1>6. OwnersFrom(t.family, t.owner)
  BY <1>3, <1>5 DEF Drop, OwnersFrom, Active
<1> QED
  BY <1>2, <1>6, StoryStands

\* Continuity makes no row of the other families.
LEMMA StoryMakesNoOthers ==
    ASSUME ContinuityInv, [ContinuityStep]_continuityVars
    PROVE  \A t \in Active' : t.family \notin GuardedFamilies => t \in Active
<1>1. CASE UNCHANGED transitions
  BY <1>1 DEF Active
<1>2. CASE NarrativeStep
  <2>1. UNCHANGED transitions
    BY <1>2, Zenon DEF NarrativeStep, CreateSequence, DeleteSequence, ReorderSequences, CreateScene, DeleteScene,
       ReorderScenes, AssignSceneShots, CreateShot, DeleteShot
  <2> QED
    BY <1>1, <2>1
<1>3. CASE WorldFactStep
  <2>1. UNCHANGED transitions
    BY <1>3, Zenon DEF WorldFactStep, CreateEntity, DeleteEntity, CreateRevision, ApproveRevision,
       ReplaceSemanticDependencies, CreateFeature, DeleteFeature, CreatePredicate, DeletePredicate,
       CreateRelation, DeleteRelation
  <2> QED
    BY <1>1, <2>1
<1>4. CASE DeleteProject
  <2>1. \A t \in transitions' : \E u \in transitions :
            t = IF u.family \in GuardedFamilies THEN [u EXCEPT !.live = FALSE] ELSE u
    BY <1>4 DEF DeleteProject
  <2>2. ASSUME NEW t \in Active', t.family \notin GuardedFamilies PROVE t \in Active
    <3>1. PICK u \in transitions : t = IF u.family \in GuardedFamilies THEN [u EXCEPT !.live = FALSE] ELSE u
      BY <2>1 DEF Active
    <3>2. RowTyped(u)
      BY DEF ContinuityInv, TransitionsInv, RowsTyped
    <3>3. CASE u.family \in GuardedFamilies
      <4>1. t.family = u.family
        BY <3>1, <3>2, <3>3 DEF RowTyped
      <4> QED
        BY <2>2, <3>3, <4>1
    <3>4. CASE u.family \notin GuardedFamilies
      BY <3>1, <3>4 DEF Active
    <3> QED
      BY <3>3, <3>4
  <2> QED
    BY <2>2
<1>5. CASE TransitionStep
  <2>1. \/ \E family \in GuardedFamilies : \E owner, a, v : Insert(family, owner, a, v)
        \/ \E t \in Active : t.family \in GuardedFamilies /\ (Drop(t) \/ \E a, v : Move(t, a, v))
    BY <1>5, Zenon DEF TransitionStep, CreateFeatureTransition, CreateRelationTransition, DeleteFeatureTransition,
       DeleteRelationTransition, PatchFeatureTransition, PatchRelationTransition, GuardedFamilies
  <2>2. CASE \E family \in GuardedFamilies : \E owner, a, v : Insert(family, owner, a, v)
    BY <2>2 DEF Insert, Active
  <2>3. ASSUME NEW t \in Active, t.family \in GuardedFamilies, NEW a, NEW v, Drop(t) \/ Move(t, a, v)
        PROVE  \A u \in Active' : u.family \notin GuardedFamilies => u \in Active
    <3>1. RowTyped(t)
      BY DEF ContinuityInv, TransitionsInv, RowsTyped, Active
    <3>2. CASE Drop(t)
      <4>1. PICK r : r = [t EXCEPT !.live = FALSE]
        OBVIOUS
      <4>2. r.family = t.family
        BY <3>1, <4>1 DEF RowTyped
      <4> QED
        BY <2>3, <3>2, <4>1, <4>2 DEF Drop, Active
    <3>3. CASE Move(t, a, v)
      <4>1. PICK r : r = [t EXCEPT !.anchor = a, !.value = v]
        OBVIOUS
      <4>2. r.family = t.family
        BY <3>1, <4>1 DEF RowTyped
      <4> QED
        BY <2>3, <3>3, <4>1, <4>2 DEF Move, Active
    <3> QED
      BY <2>3, <3>2, <3>3
  <2> QED
    BY <2>1, <2>2, <2>3
<1> QED
  BY <1>1, <1>2, <1>3, <1>4, <1>5 DEF ContinuityStep, continuityVars

-----------------------------------------------------------------------------
(* Staging and instances.                                                  *)

SpatialInv == ContinuityInv /\ GeometryInv /\ StagingInv

\* Rows that change while the worlds and plans stand.
LEMMA StagingRowChanges ==
    ASSUME SpatialInv, ContinuityInv', UNCHANGED spatialOnly, NEW family, NEW owner,
           OwnersFrom(family, owner), family = "staging" => owner \in Live(tracks)
    PROVE  SpatialInv'
<1>1. /\ UNCHANGED <<worlds, worldStates, frames, axes, worldRevs, freeze>>
      /\ UNCHANGED <<tracks, plans>>
  BY DEF spatialOnly, geometry
<1>2. GeometryInv'
  BY <1>1 DEF SpatialInv, GeometryInv, GeometryTyped, StateRow, FramesRooted, StateStands
<1>3. \A t \in Active' : t.family = "staging" => t.owner \in Live(tracks)
  BY DEF OwnersFrom, SpatialInv, StagingInv, AuthorityHangsTogether
<1>4. StagingInv'
  BY <1>1, <1>3, AuthorityStays DEF SpatialInv
<1> QED
  BY <1>2, <1>4 DEF SpatialInv

\* The story's own steps.
LEMMA StoryKeepsStaging ==
    ASSUME SpatialInv, [ContinuityStep]_continuityVars, UNCHANGED spatialOnly
    PROVE  SpatialInv'
<1>1. ContinuityInv'
  BY ContinuityKeeps DEF SpatialInv
<1>2. /\ UNCHANGED <<worlds, worldStates, frames, axes, worldRevs, freeze>>
      /\ UNCHANGED <<tracks, plans>>
  BY DEF spatialOnly, geometry
<1>3. GeometryInv'
  BY <1>2 DEF SpatialInv, GeometryInv, GeometryTyped, StateRow, FramesRooted, StateStands
<1>4. \A t \in Active' : t.family = "staging" => t.owner \in Live(tracks)
  BY StoryMakesNoOthers DEF SpatialInv, StagingInv, AuthorityHangsTogether, GuardedFamilies
<1>5. StagingInv'
  BY <1>2, <1>4, AuthorityStays DEF SpatialInv
<1> QED
  BY <1>1, <1>3, <1>5 DEF SpatialInv

\* Tracks, plans and staged transitions keep the inductive invariant.
LEMMA StagingKeeps ==
    ASSUME SpatialInv, StagingStep
    PROVE  SpatialInv'
<1>1. CASE UNCHANGED <<continuityVars, geometry>> /\ StagingInv'
  <2>1. UNCHANGED <<worlds, worldStates, frames, axes, worldRevs, freeze>>
    BY <1>1 DEF geometry
  <2>2. GeometryInv'
    BY <2>1 DEF SpatialInv, GeometryInv, GeometryTyped, StateRow, FramesRooted, StateStands
  <2>3. ContinuityInv'
    BY <1>1, ContinuityKeeps DEF SpatialInv
  <2> QED
    BY <1>1, <2>2, <2>3 DEF SpatialInv
<1>2. CASE \E t \in Track, w \in World, e \in Entity, b \in BOOLEAN :
              CreateTrack(t, w, e, b) \/ PatchTrack(t, b) \/ DeleteTrack(t)
  BY <1>1, <1>2, TrackSteps DEF SpatialInv, CreateTrack, PatchTrack, DeleteTrack
<1>3. CASE \E t \in Track : DeleteTrack(t)
  <2>1. PICK t \in Track : DeleteTrack(t)
    BY <1>3
  <2>2. tracks[t] \in TrackRow
    BY <2>1 DEF DeleteTrack, ActiveTrack, Live, SpatialInv, StagingInv, StagingTyped
  <2>3. tracks[t].world \in World /\ tracks[t].entity \in Entity /\ TRUE \in BOOLEAN
    BY <2>2 DEF TrackRow
  <2>4. StagingInv'
    BY <2>1, <2>3, TrackSteps DEF SpatialInv
  <2>5. UNCHANGED <<continuityVars, geometry>>
    BY <2>1 DEF DeleteTrack
  <2> QED
    BY <1>1, <2>4, <2>5
<1>4. CASE \E s \in Shot, x \in SpatialPlans \cup {NoPlan} :
              DeleteSpatialPlan(s, x) \/ \E plan \in SpatialPlans : PutSpatialPlan(s, x, plan)
  <2>1. PICK s \in Shot : \E x, plan : DeleteSpatialPlan(s, x) \/ PutSpatialPlan(s, x, plan)
    BY <1>4
  <2>2. StagingInv'
    BY <2>1, PlanSteps DEF SpatialInv
  <2>3. UNCHANGED <<continuityVars, geometry>>
    BY <2>1 DEF DeleteSpatialPlan, PutSpatialPlan
  <2> QED
    BY <1>1, <2>2, <2>3
<1>5. ASSUME NEW t \in Track, NEW a \in Anchors, NEW v \in StoryValues, CreateStaging(t, a, v) PROVE SpatialInv'
  <2>1. Insert("staging", t, a, v) /\ KeepStory /\ UNCHANGED spatialOnly /\ t \in Live(tracks)
    BY <1>5 DEF CreateStaging, ActiveTrack
  <2>2. ContinuityInv' /\ OwnersFrom("staging", t)
    BY <2>1, OtherInsert DEF SpatialInv, OtherFamilies
  <2> QED
    BY <2>1, <2>2, StagingRowChanges
<1>6. ASSUME NEW t \in Active, DeleteStaging(t) PROVE SpatialInv'
  <2>1. Drop(t) /\ KeepStory /\ UNCHANGED spatialOnly /\ t.owner \in Live(tracks)
    BY <1>6 DEF DeleteStaging, ActiveTrack
  <2>2. ContinuityInv' /\ OwnersFrom(t.family, t.owner)
    BY <2>1, OtherDrop DEF SpatialInv
  <2> QED
    BY <2>1, <2>2, StagingRowChanges
<1>7. ASSUME NEW t \in Active, NEW a \in Anchors, NEW v \in StoryValues, PatchStaging(t, a, v) PROVE SpatialInv'
  <2>1. /\ AnchorValid(a) /\ ~CoordinateTaken(t.family, t.owner, a, {t})
        /\ transitions' = (transitions \ {t}) \cup {[t EXCEPT !.anchor = a, !.value = v]}
        /\ KeepStory /\ UNCHANGED spatialOnly /\ t.owner \in Live(tracks)
    BY <1>7 DEF PatchStaging, ActiveTrack
  <2>2. ContinuityInv' /\ OwnersFrom(t.family, t.owner)
    BY <2>1, OtherMove DEF SpatialInv
  <2> QED
    BY <2>1, <2>2, StagingRowChanges
<1> QED
  BY <1>2, <1>3, <1>4, <1>5, <1>6, <1>7 DEF StagingStep

\* So does every step of the story, of the geometry and of the staging.
LEMMA SpatialKeeps == SpatialInv /\ [SpatialStep]_spatialVars => SpatialInv'
<1> SUFFICES ASSUME SpatialInv, [SpatialStep]_spatialVars PROVE SpatialInv'
  OBVIOUS
<1>1. CASE [ContinuityStep]_continuityVars /\ UNCHANGED spatialOnly
  BY <1>1, StoryKeepsStaging
<1>2. CASE GeometryStep
  BY <1>2, GeometryKeeps, GeometryTouchesNoStory, ContinuityKeeps DEF SpatialInv
<1>3. CASE StagingStep
  BY <1>3, StagingKeeps
<1> QED
  BY <1>1, <1>2, <1>3 DEF SpatialStep, spatialVars

\* It holds of an empty project.
LEMMA SpatialBegins == SpatialInit => SpatialInv
<1> SUFFICES ASSUME SpatialInit PROVE SpatialInv
  OBVIOUS
<1>1. ContinuityInv
  BY InitHolds DEF SpatialInit
<1>2. /\ worlds = << >> /\ worldStates = << >> /\ frames = << >> /\ tracks = << >>
      /\ plans = [s \in Shot |-> NoPlan] /\ transitions = {}
  BY DEF SpatialInit, ContinuityInit, NarrativeInit
<1>3. GeometryInv
  BY <1>2, NoRows DEF GeometryInv, GeometryTyped, FramesRooted
<1>4. StagingInv
  BY <1>2, NoRows DEF StagingInv, StagingTyped, AuthorityHangsTogether, Active
<1> QED
  BY <1>1, <1>3, <1>4 DEF SpatialInv

\* An operation on instances keeps the worlds, and the story but for its rows.
LEMMA InstanceChangeKeeps ==
    ASSUME SpatialInv, InstanceChange
    PROVE  SpatialInv'
<1>1. KeepSpatial
  BY Zenon DEF InstanceChange, CreateInstanceFeature, DeleteInstanceFeature, CreateInstanceTrack,
     PatchInstanceTrack, DeleteInstanceTrack, CreateInstanceTransition, CreateInstanceStaging,
     DeleteInstanceTransition, DeleteInstanceStaging, PatchInstanceTransition, PatchInstanceStaging,
     BindingGoesStale, SelectBinding, KeepInstances
<1>2. KeepStory /\ UNCHANGED spatialOnly
  BY <1>1 DEF KeepSpatial, KeepStory
<1>3. CASE UNCHANGED transitions
  <2>1. UNCHANGED continuityVars
    BY <1>2, <1>3 DEF KeepStory, continuityVars
  <2> QED
    BY <1>2, <2>1, StoryKeepsStaging
<1>4. ASSUME NEW i, NEW a \in Anchors, NEW v \in StoryValues,
             CreateInstanceTransition(i, a, v) \/ CreateInstanceStaging(i, a, v)
      PROVE  SpatialInv'
  <2>1. PICK family \in OtherFamilies : family # "staging" /\ Insert(family, i, a, v)
    BY <1>4 DEF CreateInstanceTransition, CreateInstanceStaging, OtherFamilies
  <2>2. ContinuityInv' /\ OwnersFrom(family, i)
    BY <1>2, <2>1, OtherInsert DEF SpatialInv
  <2> QED
    BY <1>2, <2>1, <2>2, StagingRowChanges
<1>5. ASSUME NEW t \in Active, DeleteInstanceTransition(t) \/ DeleteInstanceStaging(t) PROVE SpatialInv'
  <2>1. Drop(t) /\ t.family # "staging"
    BY <1>5 DEF DeleteInstanceTransition, DeleteInstanceStaging
  <2>2. ContinuityInv' /\ OwnersFrom(t.family, t.owner)
    BY <1>2, <2>1, OtherDrop DEF SpatialInv
  <2> QED
    BY <1>2, <2>1, <2>2, StagingRowChanges
<1>6. ASSUME NEW t \in Active, NEW a \in Anchors, NEW v \in StoryValues,
             PatchInstanceTransition(t, a, v) \/ PatchInstanceStaging(t, a, v)
      PROVE  SpatialInv'
  <2>1. MoveInstance(t, a, v) /\ t.family # "staging"
    BY <1>6 DEF PatchInstanceTransition, PatchInstanceStaging
  <2>2. ContinuityInv' /\ OwnersFrom(t.family, t.owner)
    BY <1>2, <2>1, OtherMove DEF SpatialInv, MoveInstance
  <2> QED
    BY <1>2, <2>1, <2>2, StagingRowChanges
<1>7. \/ UNCHANGED transitions
      \/ \E i \in InstanceFeature \cup InstanceTrack, a \in Anchors, v \in StoryValues :
            CreateInstanceTransition(i, a, v) \/ CreateInstanceStaging(i, a, v)
      \/ \E t \in Active : DeleteInstanceTransition(t) \/ DeleteInstanceStaging(t)
      \/ \E t \in Active, a \in Anchors, v \in StoryValues :
            PatchInstanceTransition(t, a, v) \/ PatchInstanceStaging(t, a, v)
  BY Zenon DEF InstanceChange, CreateInstanceFeature, DeleteInstanceFeature, CreateInstanceTrack,
     PatchInstanceTrack, DeleteInstanceTrack, BindingGoesStale, SelectBinding
<1> QED
  BY <1>3, <1>4, <1>5, <1>6, <1>7

\* Every step of the specification keeps the inductive invariant.
LEMMA InstanceKeeps == SpatialInv /\ [InstanceStep]_instanceVars => SpatialInv'
BY SpatialKeeps, InstanceChangeKeeps DEF InstanceStep, instanceVars

\* The inductive invariant holds in every reachable state (spatial/repository.py,
\* production/instance_state.py).
THEOREM StagingInvariant == InstanceSpec => []SpatialInv
<1>1. InstanceInit => SpatialInv
  BY SpatialBegins DEF InstanceInit
<1> QED
  BY <1>1, InstanceKeeps, PTL DEF InstanceSpec

\* What is staged hangs together and resolves as a replay.
LEMMA StagingFollows == SpatialInv => StagingSound
<1> SUFFICES ASSUME SpatialInv PROVE StagingSound
  OBVIOUS
<1>1. ASSUME NEW s \in Live(shots), Assigned(s), ~Unresolvable(InstanceFeatureRows)
      PROVE  EffectiveInstanceFeatures(s) = Replay(InstanceFeatureRows, s)
  <2>1. s \in Placed /\ TopologyInv
    BY <1>1 DEF Assigned, Placed, SpatialInv, ContinuityInv
  <2>2. ToSet(Boundaries) = BoundarySet
    BY <2>1, TopologyHolds, StreamHolds DEF OrderingSound
  <2>3. \A t \in InstanceFeatureRows : t.anchor \in BoundarySet
    BY <1>1, <2>2 DEF Unresolvable
  <2> QED
    BY <1>1, <2>1, <2>3, ReplayIsWinners DEF EffectiveInstanceFeatures
<1>2. InstanceResolutionIsReplay
  BY <1>1 DEF InstanceResolutionIsReplay
<1> QED
  BY <1>2, StatesAreCapturable DEF SpatialInv, StagingInv, StagingSound

\* Every state that stands can be captured as a geometry without cycles or two places
\* for one entity; what is staged, planned and transitioned hangs on tracks and worlds
\* that are active; and what an occurrence is at a shot is what replaying its own rows
\* gives, whatever the clients edit and in whatever order (spatial/repository.py,
\* production/instance_state.py).
THEOREM StagingStaysSound == InstanceSpec => []StagingSound
BY StagingInvariant, StagingFollows, PTL

=============================================================================
