------------------------- MODULE ProcessTableProofs -------------------------
(***************************************************************************)
(* What the walk down the process table finds (ProcessTable, Descendants), *)
(* by which the observers and the planners decide what belongs to a        *)
(* command.  It is a function defined by recursion on its depth:           *)
(* UnderUnfolds says that there is such a function, DescendantsInduction   *)
(* is the induction that goes with it.  The induction theorems of the      *)
(* library take an operator; NatInductionOverSet is the one for a set.     *)
(***************************************************************************)
EXTENDS ProcessTable, FiniteSetsExt, TLAPS, FiniteSetTheorems, WellFoundedInduction

\* Induction over the natural numbers, for a set of them.
LEMMA NatInductionOverSet ==
  ASSUME NEW S, 0 \in S, \A n \in Nat : n \in S => n + 1 \in S
  PROVE  Nat \subseteq S
<1> DEFINE T == Nat \ S
           Less == {nm \in Nat \X Nat : nm[1] < nm[2]}
<1>1. IsWellFoundedOn(Less, Nat)
  BY NatLessThanWellFounded, Zenon DEF OpToRel
<1>2. SUFFICES ASSUME T # {} PROVE FALSE
  OBVIOUS
<1>3. PICK x \in T : \A y \in T : <<y, x>> \notin Less
  <2>1. T \subseteq Nat
    OBVIOUS
  <2> HIDE DEF T, Less
  <2> QED BY <1>1, <1>2, <2>1, WFMin
<1>4. x # 0 /\ x - 1 \in Nat /\ x - 1 < x /\ x - 1 + 1 = x
  OBVIOUS
<1>5. x - 1 \in T
  BY <1>4
<1>6. <<x - 1, x>> \in Less
  BY <1>4
<1> QED BY <1>3, <1>5, <1>6

\* What the walk down from a process finds, one generation after the other.
Below(found, table) == found \cup {q \in InUse(table) : table[q].ppid \in found}
Under(p, table) ==
  CHOOSE within : within = [depth \in Nat |-> IF depth = 0 THEN {p} ELSE Below(within[depth - 1], table)]

LEMMA DescendantsUnder ==
  ASSUME NEW p, NEW table
  PROVE  Descendants(p, table) = Under(p, table)[Cardinality(Pids) - 1]
BY DEF Descendants, Under, Below

\* There is such a function: it has at each depth the ends of the walks of that length.
LEMMA UnderUnfolds ==
  ASSUME NEW p, NEW table
  PROVE  /\ Under(p, table)[0] = {p}
         /\ \A n \in Nat : Under(p, table)[n + 1] = Below(Under(p, table)[n], table)
<1> DEFINE Goes(q, r) == r = q \/ (r \in InUse(table) /\ table[r].ppid = q)
           Walk(n, w) == w[0] = p /\ \A i \in 1..n : Goes(w[i - 1], w[i])
           Walks(n) == [0..n -> Pids \cup {p}]
           ends == [n \in Nat |-> {q \in Pids \cup {p} : \E w \in Walks(n) : Walk(n, w) /\ w[n] = q}]
<1>1. ends[0] = {p}
  <2>1. [i \in 0..0 |-> p] \in Walks(0) /\ Walk(0, [i \in 0..0 |-> p])
    OBVIOUS
  <2> QED BY <2>1
<1>2. ASSUME NEW n \in Nat PROVE ends[n + 1] = Below(ends[n], table)
  <2>1. ASSUME NEW q \in ends[n + 1] PROVE q \in Below(ends[n], table)
    <3>1. PICK w \in Walks(n + 1) : Walk(n + 1, w) /\ w[n + 1] = q
      OBVIOUS
    <3> DEFINE v == [i \in 0..n |-> w[i]]
    <3>2. v \in Walks(n) /\ v[n] = w[n] /\ n + 1 \in 1..n + 1 /\ n + 1 - 1 = n
      OBVIOUS
    <3>3. Walk(n, v)
      BY <3>1
    <3>4. w[n] \in ends[n]
      <4>1. w[n] \in Pids \cup {p}
        OBVIOUS
      <4> HIDE DEF v, Walk, Walks
      <4> QED BY <3>2, <3>3, <4>1
    <3>5. Goes(w[n], q)
      BY <3>1, <3>2
    <3> QED BY <3>4, <3>5 DEF Below
  <2>2. ASSUME NEW q \in Below(ends[n], table) PROVE q \in ends[n + 1]
    <3>1. PICK r \in ends[n] : Goes(r, q)
      BY <2>2 DEF Below
    <3>2. PICK w \in Walks(n) : Walk(n, w) /\ w[n] = r
      OBVIOUS
    <3> DEFINE v == [i \in 0..n + 1 |-> IF i = n + 1 THEN q ELSE w[i]]
    <3>3. q \in Pids \cup {p}
      BY <3>1 DEF InUse
    <3>4. v \in Walks(n + 1) /\ v[n + 1] = q
      BY <3>3
    <3>5. Walk(n + 1, v)
      BY <3>1, <3>2
    <3> HIDE DEF v, Walk, Walks
    <3> QED BY <3>3, <3>4, <3>5
  <2> QED BY <2>1, <2>2
<1> HIDE DEF ends
<1>3. ends = [n \in Nat |-> IF n = 0 THEN {p} ELSE Below(ends[n - 1], table)]
  <2>1. ASSUME NEW n \in Nat PROVE ends[n] = IF n = 0 THEN {p} ELSE Below(ends[n - 1], table)
    <3>1. CASE n = 0
      BY <1>1, <3>1
    <3>2. CASE n # 0
      <4>1. n - 1 \in Nat /\ n - 1 + 1 = n
        BY <3>2
      <4> QED BY <1>2, <3>2, <4>1
    <3> QED BY <3>1, <3>2
  <2>2. ends = [n \in Nat |-> ends[n]]
    BY DEF ends
  <2> QED BY <2>1, <2>2
<1> DEFINE within == Under(p, table)
<1>4. within = [n \in Nat |-> IF n = 0 THEN {p} ELSE Below(within[n - 1], table)]
  BY <1>3 DEF Under
<1> HIDE DEF within
<1>5. within[0] = {p}
  BY <1>4
<1>6. ASSUME NEW n \in Nat PROVE within[n + 1] = Below(within[n], table)
  <2>1. n + 1 \in Nat /\ n + 1 # 0 /\ n + 1 - 1 = n
    OBVIOUS
  <2> QED BY <1>4, <2>1
<1> QED BY <1>5, <1>6 DEF within

\* What is found at one depth is found at all greater ones.
LEMMA UnderGrows ==
  ASSUME NEW p \in Pids, NEW table, NEW n \in Nat, NEW m \in n..Cardinality(Pids) - 1
  PROVE  /\ Cardinality(Pids) - 1 \in Nat
         /\ Under(p, table)[n] \subseteq Under(p, table)[m]
<1> DEFINE within == Under(p, table)
           T == {d \in Nat : within[n] \subseteq within[n + d]}
<1>1. Cardinality(Pids) - 1 \in Nat
  <2>1. IsFiniteSet(Pids) /\ Pids # {}
    BY PidsAssumption
  <2> QED BY <2>1, FS_CardinalityType, FS_EmptySet
<1>2. \A k \in Nat : within[k + 1] = Below(within[k], table)
  BY UnderUnfolds
<1> HIDE DEF within
<1>3. 0 \in T
  OBVIOUS
<1>4. ASSUME NEW d \in Nat, d \in T PROVE d + 1 \in T
  <2>1. n + d \in Nat /\ n + d + 1 = n + (d + 1)
    OBVIOUS
  <2>2. within[n + d] \subseteq within[n + (d + 1)]
    BY <1>2, <2>1 DEF Below
  <2> QED BY <1>4, <2>2
<1>5. Nat \subseteq T
  <2> HIDE DEF T
  <2> QED BY <1>3, <1>4, NatInductionOverSet
<1>6. m - n \in Nat /\ n + (m - n) = m
  BY <1>1
<1> QED BY <1>1, <1>5, <1>6 DEF within

\* Induction over the descendants of a process: a set that has the process, and with a
\* parent each of its children among the descendants, has all of them.
LEMMA DescendantsInduction ==
  ASSUME NEW p \in Pids, NEW table, NEW S, p \in S,
         \A q \in Descendants(p, table) \cap InUse(table) : table[q].ppid \in S => q \in S
  PROVE  Descendants(p, table) \subseteq S
<1> DEFINE within == Under(p, table)
           last == Cardinality(Pids) - 1
<1>1. last \in Nat
  <2>1. IsFiniteSet(Pids) /\ Pids # {}
    BY PidsAssumption
  <2> QED BY <2>1, FS_CardinalityType, FS_EmptySet
<1>2. within[0] = {p} /\ \A n \in Nat : within[n + 1] = Below(within[n], table)
  BY UnderUnfolds
<1>3. Descendants(p, table) = within[last]
  BY DescendantsUnder
<1> HIDE DEF within, last
<1>4. ASSUME NEW n \in 0..last PROVE within[n] \subseteq within[last]
  BY <1>1, UnderGrows DEF within, last
<1> DEFINE T == {n \in Nat : n <= last => within[n] \subseteq S}
<1>5. 0 \in T
  BY <1>2
<1>6. ASSUME NEW n \in Nat, n \in T PROVE n + 1 \in T
  <2> SUFFICES ASSUME n + 1 <= last, NEW q \in within[n + 1] PROVE q \in S
    OBVIOUS
  <2>1. within[n] \subseteq S
    BY <1>1, <1>6
  <2>2. n + 1 \in 0..last
    BY <1>1
  <2>3. q \in within[last]
    BY <1>4, <2>2
  <2>4. q \in within[n] \/ (q \in InUse(table) /\ table[q].ppid \in within[n])
    BY <1>2 DEF Below
  <2> QED BY <1>3, <2>1, <2>3, <2>4
<1>7. Nat \subseteq T
  <2> HIDE DEF T
  <2> QED BY <1>5, <1>6, NatInductionOverSet
<1> QED BY <1>1, <1>3, <1>7

LEMMA DescendantsOf ==
  ASSUME NEW p \in Pids, NEW table
  PROVE  Descendants(p, table) \subseteq {p} \cup InUse(table)
<1> DEFINE S == {p} \cup InUse(table)
<1>1. p \in S /\ \A q \in Descendants(p, table) \cap InUse(table) : table[q].ppid \in S => q \in S
  OBVIOUS
<1> HIDE DEF S
<1>2. Descendants(p, table) \subseteq S
  BY <1>1, DescendantsInduction
<1> QED BY <1>2 DEF S

\* A process is among its own descendants, and so are their children: the walk is long
\* enough, as every generation but the last has somebody new.
LEMMA DescendantsClosed ==
  ASSUME NEW p \in Pids, NEW table
  PROVE  /\ p \in Descendants(p, table)
         /\ \A q \in InUse(table) : table[q].ppid \in Descendants(p, table) => q \in Descendants(p, table)
<1> DEFINE within == Under(p, table)
           last == Cardinality(Pids) - 1
<1>1. IsFiniteSet(Pids) /\ Cardinality(Pids) \in Nat /\ last \in Nat /\ last + 1 = Cardinality(Pids)
  <2>1. IsFiniteSet(Pids) /\ Pids # {}
    BY PidsAssumption
  <2>2. Cardinality(Pids) \in Nat /\ Cardinality(Pids) # 0
    BY <2>1, FS_CardinalityType, FS_EmptySet
  <2> QED BY <2>1, <2>2
<1>2. within[0] = {p} /\ \A n \in Nat : within[n + 1] = Below(within[n], table)
  BY UnderUnfolds
<1>3. Descendants(p, table) = within[last]
  BY DescendantsUnder
<1>4. ASSUME NEW n \in 0..last PROVE within[n] \subseteq within[last]
  BY <1>1, UnderGrows
<1> HIDE DEF within, last
<1>5. \A n \in 0..last : within[n] \subseteq Pids
  <2>1. Descendants(p, table) \subseteq Pids
    BY DescendantsOf DEF InUse
  <2> QED BY <1>3, <1>4, <2>1
<1> DEFINE Still(n) == Below(within[n], table) = within[n]
           T == {n \in Nat : n <= last => Still(n) \/ Cardinality(within[n]) >= n + 1}
<1>6. 0 \in T
  <2>1. Cardinality(within[0]) = 1
    BY <1>2, FS_Singleton
  <2> QED BY <2>1
<1>7. ASSUME NEW n \in Nat, n \in T PROVE n + 1 \in T
  <2> SUFFICES ASSUME n + 1 <= last PROVE Still(n + 1) \/ Cardinality(within[n + 1]) >= n + 1 + 1
    OBVIOUS
  <2>1. n \in 0..last /\ n + 1 \in 0..last
    BY <1>1
  <2>2. within[n + 1] = Below(within[n], table)
    BY <1>2
  <2>3. CASE Still(n)
    BY <2>2, <2>3
  <2>4. CASE ~Still(n)
    <3>1. Cardinality(within[n]) >= n + 1
      BY <1>7, <2>1, <2>4
    <3>2. within[n] \subseteq within[n + 1] /\ within[n] # within[n + 1]
      BY <2>2, <2>4 DEF Below
    <3>3. IsFiniteSet(within[n]) /\ IsFiniteSet(within[n + 1])
      BY <1>1, <1>5, <2>1, FS_Subset
    <3>4. /\ Cardinality(within[n]) <= Cardinality(within[n + 1])
          /\ Cardinality(within[n]) # Cardinality(within[n + 1])
          /\ Cardinality(within[n]) \in Nat /\ Cardinality(within[n + 1]) \in Nat
      BY <3>2, <3>3, FS_Subset, FS_CardinalityType
    <3> QED BY <3>1, <3>4
  <2> QED BY <2>3, <2>4
<1>8. Nat \subseteq T
  <2> HIDE DEF T
  <2> QED BY <1>6, <1>7, NatInductionOverSet
<1>9. Still(last)
  <2>1. CASE Cardinality(within[last]) >= last + 1
    <3>1. last \in 0..last
      BY <1>1
    <3>2. /\ Cardinality(within[last]) <= Cardinality(Pids) /\ Cardinality(within[last]) \in Nat
          /\ Cardinality(Pids) = Cardinality(within[last]) => Pids = within[last]
      BY <1>1, <1>5, <3>1, FS_Subset, FS_CardinalityType
    <3>3. within[last] = Pids
      BY <1>1, <2>1, <3>2
    <3> QED BY <3>3 DEF Below, InUse
  <2> QED BY <1>1, <1>8, <2>1
<1>10. p \in within[last]
  BY <1>1, <1>2, <1>4
<1> QED BY <1>3, <1>9, <1>10 DEF Below

\* A finite set of numbers has a least and a greatest one.
LEMMA LeastIn ==
  ASSUME NEW S, S \subseteq Nat, S # {}
  PROVE  Min(S) \in S /\ \A x \in S : Min(S) <= x
<1> DEFINE Above == {n \in Nat : \A x \in S : n <= x}
<1>1. \E n \in S : \A x \in S : n <= x
  <2>1. CASE Nat \subseteq Above
    <3>1. PICK x \in S : TRUE
      OBVIOUS
    <3>2. x + 1 \in Above
      BY <2>1
    <3> QED BY <3>2
  <2>2. CASE ~(Nat \subseteq Above)
    <3>1. 0 \in Above
      OBVIOUS
    <3>2. PICK n \in Nat : n \in Above /\ n + 1 \notin Above
      <4> HIDE DEF Above
      <4> QED BY <2>2, <3>1, NatInductionOverSet
    <3>3. PICK x \in S : ~(n + 1 <= x)
      BY <3>2
    <3>4. n = x
      BY <3>2, <3>3
    <3> QED BY <3>2, <3>4
  <2> QED BY <2>1, <2>2
<1>2. \E n \in S : \A x \in S : n =< x
  BY <1>1
<1> QED BY <1>2, Zenon DEF Min

LEMMA GreatestIn ==
  ASSUME NEW S, S \subseteq Nat, IsFiniteSet(S), S # {}
  PROVE  Max(S) \in S /\ \A x \in S : Max(S) >= x
<1> DEFINE Has(T) == \E x \in T : \A y \in T : x >= y
           N == {n \in Nat : \A T \in SUBSET S : T # {} /\ Cardinality(T) <= n => Has(T)}
<1>1. ASSUME NEW T \in SUBSET S
      PROVE  /\ IsFiniteSet(T) /\ Cardinality(T) \in Nat
             /\ Cardinality(T) = 0 => T = {}
             /\ \A x \in T : Cardinality(T \ {x}) = Cardinality(T) - 1
  <2>1. IsFiniteSet(T)
    BY FS_Subset
  <2> QED BY <2>1, FS_CardinalityType, FS_EmptySet, FS_RemoveElement
<1>2. 0 \in N
  <2> SUFFICES ASSUME NEW T \in SUBSET S, Cardinality(T) <= 0 PROVE T = {}
    OBVIOUS
  <2> QED BY <1>1
<1>3. ASSUME NEW n \in Nat, n \in N PROVE n + 1 \in N
  <2> SUFFICES ASSUME NEW T \in SUBSET S, T # {}, Cardinality(T) <= n + 1 PROVE Has(T)
    OBVIOUS
  <2>1. PICK x \in T : TRUE
    OBVIOUS
  <2> DEFINE U == T \ {x}
  <2>2. U \in SUBSET S /\ Cardinality(U) <= n
    BY <1>1
  <2>3. CASE U = {}
    <3>1. \A y \in T : x >= y
      BY <2>3
    <3> QED BY <3>1
  <2>4. CASE U # {}
    <3>1. Has(U)
      <4> HIDE DEF Has, U
      <4> QED BY <1>3, <2>2, <2>4
    <3>2. PICK m \in U : \A y \in U : m >= y
      BY <3>1
    <3>3. CASE m >= x
      BY <3>2, <3>3
    <3>4. CASE x >= m
      BY <3>2, <3>4
    <3> QED BY <3>3, <3>4
  <2> QED BY <2>3, <2>4
<1>4. Cardinality(S) \in N
  <2> HIDE DEF N
  <2> QED BY <1>2, <1>3, NatInductionOverSet, FS_CardinalityType
<1>5. Cardinality(S) <= Cardinality(S) /\ S \in SUBSET S
  BY FS_CardinalityType
<1>6. Has(S)
  <2> HIDE DEF Has
  <2> QED BY <1>4, <1>5
<1> QED BY <1>6, Zenon DEF Max

=============================================================================
