----------------------- MODULE ExceptionHandling_proofs -----------------------
(***************************************************************************)
(* Proofs about ExceptionHandling for every set of virtual machines and   *)
(* every bound: until the code goes astray the three stacks stay in step   *)
(* through every call, throw, unwinding and error.  First the facts about  *)
(* stacks that agree and the invariant, which every action preserves that   *)
(* does not lead astray; then the properties that the runs check on small   *)
(* instances, which follow from it.                                        *)
(***************************************************************************)
EXTENDS ExceptionHandling, SequencesExt, FiniteSetTheorems, FunctionTheorems, SequenceTheorems,
        WellFoundedInduction, TLAPS

-----------------------------------------------------------------------------
(* Two stacks that are popped and pushed on their own but have to agree: the *)
(* facts about increasing functions between positions that relate them.      *)

\* m maps the positions A onto the positions B and keeps their order.
Increasing(m, A, B) ==
    /\ m \in [A -> B]
    /\ \A b \in B : \E a \in A : m[a] = b
    /\ \A a1, a2 \in A : a1 < a2 => m[a1] < m[a2]

\* m on fewer positions.
On(m, A) == [a \in A |-> m[a]]

\* e is m on A and maps a to b.
Extends(e, m, A, a, b) == e[a] = b /\ \A x \in A : e[x] = m[x]

\* Above all the positions.
Tops(a, A) == a \in Int /\ \A x \in A : x < a

UpTo(I, i) == {j \in I : j <= i}

-----------------------------------------------------------------------------
(* Numbers.                                                                *)

\* Every set of numbers has a least one, a bounded one a greatest one.
LEMMA LeastNumber ==
    ASSUME NEW T \in SUBSET Nat, T # {}
    PROVE  \E n \in T : \A m \in T : n <= m
<1> DEFINE I == {1..n : n \in T}
<1>1. I \subseteq FiniteSubsetsOf(Nat) /\ I # {}
  <2>1. ASSUME NEW n \in T PROVE 1..n \in FiniteSubsetsOf(Nat)
    <3>1. n \in Int /\ 1 \in Int /\ 1..n \in SUBSET Nat
      OBVIOUS
    <3>2. IsFiniteSet(1..n)
      BY <3>1, FS_Interval
    <3> QED BY <3>1, <3>2 DEF FiniteSubsetsOf
  <2>2. I # {}
    OBVIOUS
  <2> QED BY <2>1, <2>2
<1>2. IsWellFoundedOn(StrictSubsetOrdering(Nat), FiniteSubsetsOf(Nat))
  BY FS_StrictSubsetOrderingWellFounded
<1>3. PICK x \in I : \A y \in I : ~ (<<y, x>> \in StrictSubsetOrdering(Nat))
  <2> HIDE DEF I
  <2> QED BY <1>1, <1>2, WFMin
<1>4. PICK n \in T : x = 1..n
  OBVIOUS
<1>5. ASSUME NEW m \in T, m < n PROVE FALSE
  <2>1. 1..m \in I
    OBVIOUS
  <2>2. 1..m \subseteq 1..n /\ 1..m # 1..n /\ 1..m \subseteq Nat /\ 1..n \subseteq Nat
    <3>1. n \in 1..n /\ n \notin 1..m
      BY <1>5
    <3> QED BY <1>5, <3>1
  <2>3. <<1..m, x>> \in StrictSubsetOrdering(Nat)
    BY <2>2, <1>4 DEF StrictSubsetOrdering
  <2> QED BY <2>1, <2>3, <1>3
<1> QED BY <1>5

LEMMA GreatestNumber ==
    ASSUME NEW n \in Nat, NEW T \in SUBSET (0..n), T # {}
    PROVE  \E g \in T : \A m \in T : m <= g
<1> DEFINE U == {n - t : t \in T}
<1>1. U \in SUBSET Nat /\ U # {}
  <2>1. \A t \in T : t \in Nat /\ n - t \in Nat
    OBVIOUS
  <2> QED BY <2>1
<1>2. PICK u \in U : \A w \in U : u <= w
  <2> HIDE DEF U
  <2> QED BY <1>1, LeastNumber
<1>3. PICK g \in T : u = n - g
  OBVIOUS
<1>4. \A m \in T : n - g <= n - m
  BY <1>2, <1>3
<1> QED BY <1>3, <1>4

\* Max and Min of the community modules.
LEMMA MaxIsGreatest ==
    ASSUME NEW n \in Nat, NEW T \in SUBSET (0..n), T # {}
    PROVE  Max(T) \in T /\ \A m \in T : m <= Max(T)
<1>1. PICK g \in T : \A m \in T : g >= m
  BY GreatestNumber
<1>2. Max(T) \in T /\ \A m \in T : Max(T) >= m
  BY <1>1 DEF Max
<1>3. T \subseteq Nat
  OBVIOUS
<1> HIDE DEF Max
<1> QED BY <1>2, <1>3

LEMMA MinIsLeast ==
    ASSUME NEW T \in SUBSET Nat, T # {}
    PROVE  Min(T) \in T /\ \A m \in T : Min(T) <= m
<1>1. PICK g \in T : \A m \in T : g <= m
  BY LeastNumber
<1> QED BY <1>1 DEF Min

-----------------------------------------------------------------------------
(* Increasing functions.                                                   *)

LEMMA IncreasingMirrors ==
    ASSUME NEW m, NEW A \in SUBSET Int, NEW B \in SUBSET Int, Increasing(m, A, B)
    PROVE  \A a1, a2 \in A : /\ m[a1] < m[a2] <=> a1 < a2
                             /\ m[a1] <= m[a2] <=> a1 <= a2
                             /\ m[a1] = m[a2] <=> a1 = a2
<1>1. \A a \in A : a \in Int /\ m[a] \in Int
  BY DEF Increasing
<1> SUFFICES ASSUME NEW a1 \in A, NEW a2 \in A
             PROVE  /\ m[a1] < m[a2] <=> a1 < a2
                    /\ m[a1] <= m[a2] <=> a1 <= a2
                    /\ m[a1] = m[a2] <=> a1 = a2
  OBVIOUS
<1>2. (a1 < a2 => m[a1] < m[a2]) /\ (a2 < a1 => m[a2] < m[a1])
  BY DEF Increasing
<1> QED BY <1>1, <1>2

\* The greatest positions belong to each other.
LEMMA IncreasingTop ==
    ASSUME NEW m, NEW A \in SUBSET Int, NEW B \in SUBSET Int, Increasing(m, A, B),
           NEW a \in A, NEW b \in B, \A x \in A : x <= a, \A x \in B : x <= b
    PROVE  m[a] = b
<1>1. PICK x \in A : m[x] = b
  BY DEF Increasing
<1>2. m[a] \in B /\ x <= a /\ m[a] <= b
  BY DEF Increasing
<1>3. m[x] <= m[a]
  BY <1>2, IncreasingMirrors
<1>4. m[x] \in Int /\ m[a] \in Int /\ b \in Int
  BY <1>1, <1>2
<1>5. m[x] = b /\ m[a] <= b
  BY <1>1, <1>2
<1> HIDE DEF Increasing
<1> QED BY <1>3, <1>4, <1>5

\* The greatest position has the greatest one as its image.
LEMMA IncreasingTopImage ==
    ASSUME NEW m, NEW A \in SUBSET Int, NEW B \in SUBSET Int, Increasing(m, A, B),
           NEW a \in A, \A x \in A : x <= a
    PROVE  m[a] \in B /\ \A b \in B : b <= m[a]
<1>1. m[a] \in B
  BY DEF Increasing
<1>2. ASSUME NEW b \in B PROVE b <= m[a]
  <2>1. PICK x \in A : m[x] = b
    BY DEF Increasing
  <2> QED BY <2>1, IncreasingMirrors
<1> QED BY <1>1, <1>2

\* A part of the positions and their images.
LEMMA IncreasingOn ==
    ASSUME NEW m, NEW A \in SUBSET Int, NEW B \in SUBSET Int, Increasing(m, A, B),
           NEW A2 \in SUBSET A, NEW B2 \in SUBSET B,
           \A a \in A : a \in A2 <=> m[a] \in B2
    PROVE  Increasing(On(m, A2), A2, B2) /\ \A a \in A2 : On(m, A2)[a] = m[a]
<1>1. On(m, A2) \in [A2 -> B2] /\ \A a \in A2 : On(m, A2)[a] = m[a]
  BY DEF On
<1>2. ASSUME NEW b \in B2 PROVE \E a \in A2 : On(m, A2)[a] = b
  <2>1. PICK a \in A : m[a] = b
    BY DEF Increasing
  <2> QED BY <2>1, <1>1
<1>3. \A a1, a2 \in A2 : a1 < a2 => On(m, A2)[a1] < On(m, A2)[a2]
  BY <1>1 DEF Increasing
<1> QED BY <1>1, <1>2, <1>3 DEF Increasing

\* Without the greatest positions.
LEMMA IncreasingPop ==
    ASSUME NEW m, NEW A \in SUBSET Int, NEW B \in SUBSET Int, Increasing(m, A, B),
           NEW a \in A, NEW b \in B, \A x \in A : x <= a, \A x \in B : x <= b
    PROVE  /\ Increasing(On(m, A \ {a}), A \ {a}, B \ {b})
           /\ \A x \in A \ {a} : On(m, A \ {a})[x] = m[x] /\ m[x] \in B \ {b} /\ m[x] < b
<1>1. m[a] = b
  BY IncreasingTop
<1>2. \A x \in A : x \in A \ {a} <=> m[x] \in B \ {b}
  <2>1. \A x \in A : m[x] = b <=> x = a
    BY <1>1, IncreasingMirrors
  <2> QED BY <2>1 DEF Increasing
<1>3. \A x \in A \ {a} : m[x] \in B \ {b} /\ m[x] < b
  <2> SUFFICES ASSUME NEW x \in A \ {a} PROVE m[x] \in B \ {b} /\ m[x] < b
    OBVIOUS
  <2>1. m[x] \in B \ {b}
    BY <1>2
  <2>2. m[x] \in Int /\ b \in Int /\ m[x] <= b /\ m[x] # b
    BY <2>1
  <2> QED BY <2>1, <2>2
<1> QED BY <1>2, <1>3, IncreasingOn

\* With positions above all others.
LEMMA IncreasingPush ==
    ASSUME NEW m, NEW A \in SUBSET Int, NEW B \in SUBSET Int, Increasing(m, A, B),
           NEW a, NEW b, Tops(a, A), Tops(b, B)
    PROVE  \E e : Increasing(e, A \cup {a}, B \cup {b}) /\ Extends(e, m, A, a, b)
<1> DEFINE e == [x \in A \cup {a} |-> IF x = a THEN b ELSE m[x]]
<1>0. a \notin A /\ a \in Int /\ b \in Int /\ (\A x \in A : x < a) /\ (\A x \in B : x < b)
  BY DEF Tops
<1>1. \A x \in A : e[x] = m[x] /\ e[x] \in B
  BY <1>0 DEF Increasing
<1>2. e[a] = b
  OBVIOUS
<1>3. e \in [A \cup {a} -> B \cup {b}]
  BY <1>1, <1>2
<1> HIDE DEF e
<1>4. ASSUME NEW y \in B \cup {b} PROVE \E x \in A \cup {a} : e[x] = y
  <2>1. CASE y = b
    BY <1>2, <2>1
  <2>2. CASE y \in B
    <3>1. PICK x \in A : m[x] = y
      BY <2>2 DEF Increasing
    <3> QED BY <3>1, <1>1
  <2> QED BY <2>1, <2>2
<1>5. ASSUME NEW a1 \in A \cup {a}, NEW a2 \in A \cup {a}, a1 < a2 PROVE e[a1] < e[a2]
  <2>1. CASE a1 \in A /\ a2 \in A
    BY <1>1, <1>5, <2>1 DEF Increasing
  <2>2. CASE a1 \in A /\ a2 = a
    BY <1>0, <1>1, <1>2, <2>2
  <2>3. CASE a1 = a /\ a2 \in A
    BY <1>0, <1>5, <2>3
  <2> QED BY <1>5, <2>1, <2>2, <2>3
<1>6. Increasing(e, A \cup {a}, B \cup {b})
  BY <1>3, <1>4, <1>5 DEF Increasing
<1>7. Extends(e, m, A, a, b)
  BY <1>1, <1>2 DEF Extends
<1> QED BY <1>6, <1>7

\* Positions and images are as many, up to any of them.
LEMMA IncreasingRank ==
    ASSUME NEW m, NEW A \in SUBSET Int, NEW B \in SUBSET Int, Increasing(m, A, B),
           IsFiniteSet(A)
    PROVE  /\ IsFiniteSet(B) /\ Cardinality(B) = Cardinality(A)
           /\ \A a \in A : Cardinality(UpTo(B, m[a])) = Cardinality(UpTo(A, a))
<1>1. ASSUME NEW k, NEW A2 \in SUBSET Int, NEW B2 \in SUBSET Int, Increasing(k, A2, B2),
             IsFiniteSet(A2)
      PROVE  IsFiniteSet(B2) /\ Cardinality(B2) = Cardinality(A2)
  <2>1. k \in Bijection(A2, B2)
    <3>1. k \in [A2 -> B2]
      BY <1>1 DEF Increasing
    <3>2. \A x, y \in A2 : k[x] = k[y] => x = y
      BY <1>1, IncreasingMirrors
    <3>3. \A y \in B2 : \E x \in A2 : k[x] = y
      BY <1>1 DEF Increasing
    <3> QED BY <3>1, <3>2, <3>3 DEF Bijection, Injection, Surjection, IsInjective
  <2>2. ExistsBijection(A2, B2)
    BY <2>1 DEF ExistsBijection
  <2> QED BY <1>1, <2>2, FS_Bijection
<1>2. ASSUME NEW a \in A PROVE Cardinality(UpTo(B, m[a])) = Cardinality(UpTo(A, a))
  <2> DEFINE A2 == UpTo(A, a)
             B2 == UpTo(B, m[a])
  <2>1. A2 \in SUBSET A /\ B2 \in SUBSET B
    BY DEF UpTo
  <2>2. \A x \in A : x \in A2 <=> m[x] \in B2
    <3>1. \A x \in A : m[x] \in B /\ (m[x] <= m[a] <=> x <= a)
      BY IncreasingMirrors DEF Increasing
    <3> QED BY <3>1 DEF UpTo
  <2>3. IsFiniteSet(A2)
    BY <2>1, FS_Subset
  <2> HIDE DEF A2, B2
  <2>4. Increasing(On(m, A2), A2, B2)
    BY <2>1, <2>2, IncreasingOn
  <2>5. A2 \in SUBSET Int /\ B2 \in SUBSET Int
    BY <2>1
  <2>6. Cardinality(B2) = Cardinality(A2)
    BY <1>1, <2>3, <2>4, <2>5
  <2> QED BY <2>6 DEF A2, B2
<1> QED BY <1>1, <1>2

\* Of two positions the greater one has more positions up to it.
LEMMA RankMirrors ==
    ASSUME NEW B \in SUBSET Int, IsFiniteSet(B), NEW b1 \in B, NEW b2 \in B,
           Cardinality(UpTo(B, b1)) = Cardinality(UpTo(B, b2))
    PROVE  b1 = b2
<1>1. ASSUME NEW c1 \in B, NEW c2 \in B, c1 < c2,
             Cardinality(UpTo(B, c1)) = Cardinality(UpTo(B, c2))
      PROVE  FALSE
  <2>1. UpTo(B, c2) \in SUBSET B /\ UpTo(B, c1) \in SUBSET UpTo(B, c2)
    <3>1. \A j \in B : j \in Int
      OBVIOUS
    <3>2. \A j \in B : j <= c1 => j <= c2
      BY <1>1, <3>1
    <3> QED BY <3>2 DEF UpTo
  <2>2. IsFiniteSet(UpTo(B, c2))
    BY <2>1, FS_Subset
  <2>3. UpTo(B, c2) = UpTo(B, c1)
    BY <1>1, <2>1, <2>2, FS_Subset
  <2>4. c2 \in UpTo(B, c2) /\ c2 \notin UpTo(B, c1)
    BY <1>1 DEF UpTo
  <2> QED BY <2>3, <2>4
<1>2. b1 \in Int /\ b2 \in Int
  OBVIOUS
<1> QED BY <1>1, <1>2

\* There is one increasing function at most.
LEMMA IncreasingUnique ==
    ASSUME NEW m1, NEW m2, NEW A \in SUBSET Int, NEW B \in SUBSET Int, IsFiniteSet(A),
           Increasing(m1, A, B), Increasing(m2, A, B)
    PROVE  \A a \in A : m1[a] = m2[a]
<1> SUFFICES ASSUME NEW a \in A PROVE m1[a] = m2[a]
  OBVIOUS
<1>1. m1[a] \in B /\ m2[a] \in B
  BY DEF Increasing
<1>2. /\ IsFiniteSet(B)
      /\ Cardinality(UpTo(B, m1[a])) = Cardinality(UpTo(A, a))
  BY IncreasingRank
<1>3. Cardinality(UpTo(B, m2[a])) = Cardinality(UpTo(A, a))
  BY IncreasingRank
<1>4. Cardinality(UpTo(B, m1[a])) = Cardinality(UpTo(B, m2[a]))
  BY <1>2, <1>3
<1> DEFINE b1 == m1[a]
           b2 == m2[a]
<1>5. b1 \in B /\ b2 \in B /\ IsFiniteSet(B)
  BY <1>1, <1>2
<1>6. Cardinality(UpTo(B, b1)) = Cardinality(UpTo(B, b2))
  BY <1>4
<1> HIDE DEF b1, b2
<1>7. b1 = b2
  BY <1>5, <1>6, RankMirrors
<1> QED BY <1>7 DEF b1, b2

-----------------------------------------------------------------------------
(* Stacks.                                                                 *)

LEMMA Pushing ==
    ASSUME NEW S, NEW s \in Seq(S), NEW c \in S
    PROVE  /\ Append(s, c) \in Seq(S) /\ Append(s, c) # <<>>
           /\ Len(s) \in Nat /\ Len(Append(s, c)) = Len(s) + 1
           /\ \A i \in 1..Len(s) : Append(s, c)[i] = s[i]
           /\ Append(s, c)[Len(s) + 1] = c
           /\ Last(Append(s, c)) = c
<1>1. /\ Append(s, c) \in Seq(S) /\ Append(s, c) # <<>>
      /\ Len(s) \in Nat /\ Len(Append(s, c)) = Len(s) + 1
      /\ \A i \in 1..Len(s) : Append(s, c)[i] = s[i]
      /\ Append(s, c)[Len(s) + 1] = c
  BY AppendProperties, LenProperties
<1> QED BY <1>1 DEF Last

LEMMA Keeping ==
    ASSUME NEW S, NEW s \in Seq(S), NEW n \in 0..Len(s)
    PROVE  /\ SubSeq(s, 1, n) \in Seq(S)
           /\ Len(s) \in Nat /\ n \in Nat /\ Len(SubSeq(s, 1, n)) = n
           /\ \A i \in 1..n : SubSeq(s, 1, n)[i] = s[i]
           /\ n > 0 => SubSeq(s, 1, n) # <<>> /\ Last(SubSeq(s, 1, n)) = s[n]
           /\ n = 0 => SubSeq(s, 1, n) = <<>>
<1>1. Len(s) \in Nat
  BY LenProperties
<1>2. n \in Nat /\ n \in Int /\ 1 \in Int
  BY <1>1
<1>3. \A i \in 1..n : s[i] \in S
  BY <1>1, ElementOfSeq
<1>4. /\ SubSeq(s, 1, n) \in Seq(S)
      /\ Len(SubSeq(s, 1, n)) = IF 1 <= n THEN n - 1 + 1 ELSE 0
      /\ \A i \in 1..n - 1 + 1 : SubSeq(s, 1, n)[i] = s[1 + i - 1]
  BY <1>2, <1>3, SubSeqProperties
<1>5. \A i \in 1..n : i \in 1..n - 1 + 1 /\ 1 + i - 1 = i
  BY <1>2
<1>6. /\ SubSeq(s, 1, n) \in Seq(S) /\ Len(SubSeq(s, 1, n)) = n
      /\ \A i \in 1..n : SubSeq(s, 1, n)[i] = s[i]
  BY <1>2, <1>4, <1>5
<1>7. n > 0 => SubSeq(s, 1, n) # <<>> /\ Last(SubSeq(s, 1, n)) = s[n]
  <2>1. n > 0 => n \in 1..n /\ Len(SubSeq(s, 1, n)) # 0
    BY <1>2, <1>6
  <2> QED BY <1>6, <2>1, EmptySeq DEF Last
<1>8. n = 0 => SubSeq(s, 1, n) = <<>>
  BY <1>6, EmptySeq
<1> QED BY <1>1, <1>2, <1>6, <1>7, <1>8

\* There may be fewer elements than are dropped.
LEMMA Cutting ==
    ASSUME NEW S, NEW s \in Seq(S), NEW n \in Int, n <= Len(s)
    PROVE  SubSeq(s, 1, n) \in Seq(S)
OBVIOUS

\* The newest element.
LEMMA OnTop ==
    ASSUME NEW S, NEW s \in Seq(S)
    PROVE  /\ Len(s) \in Nat /\ \A i \in 1..Len(s) : s[i] \in S
           /\ s = <<>> <=> Len(s) = 0
           /\ s # <<>> => /\ Len(s) \in 1..Len(s) /\ Len(s) - 1 \in 0..Len(s)
                          /\ Last(s) = s[Len(s)] /\ Last(s) \in S
<1>1. Len(s) \in Nat /\ (s = <<>> <=> Len(s) = 0)
  BY EmptySeq, LenProperties
<1>2. \A i \in 1..Len(s) : s[i] \in S
  BY ElementOfSeq
<1>3. s # <<>> => Len(s) \in 1..Len(s) /\ Len(s) - 1 \in 0..Len(s)
  BY <1>1
<1> QED BY <1>1, <1>2, <1>3 DEF Last

\* Without the newest element.
LEMMA Popping ==
    ASSUME NEW S, NEW s \in Seq(S), s # <<>>
    PROVE  /\ Front(s) \in Seq(S) /\ Len(s) \in Nat \ {0} /\ Len(Front(s)) = Len(s) - 1
           /\ Front(s) = SubSeq(s, 1, Len(s) - 1)
           /\ \A i \in 1..Len(s) - 1 : Front(s)[i] = s[i]
           /\ Len(s) > 1 => Front(s) # <<>> /\ Last(Front(s)) = s[Len(s) - 1]
           /\ Len(s) = 1 => Front(s) = <<>>
<1>1. Len(s) \in Nat /\ Len(s) # 0 /\ Len(s) - 1 \in 0..Len(s)
  BY OnTop
<1>2. Front(s) = SubSeq(s, 1, Len(s) - 1)
  BY DEF Front
<1>3. Len(s) > 1 => Len(s) - 1 > 0
  BY <1>1
<1>4. Len(s) = 1 => Len(s) - 1 = 0
  BY <1>1
<1> DEFINE n == Len(s) - 1
           t == SubSeq(s, 1, n)
<1>5. n \in 0..Len(s) /\ Front(s) = t
  BY <1>1, <1>2
<1> HIDE DEF n
<1>6. /\ t \in Seq(S) /\ Len(t) = n
      /\ \A i \in 1..n : t[i] = s[i]
      /\ n > 0 => t # <<>> /\ Last(t) = s[n]
      /\ n = 0 => t = <<>>
  BY <1>5, Keeping
<1> HIDE DEF t
<1> QED BY <1>1, <1>2, <1>3, <1>4, <1>5, <1>6 DEF n

\* Another newest element.
LEMMA ChangingTop ==
    ASSUME NEW S, NEW s \in Seq(S), s # <<>>, NEW c \in S
    PROVE  LET t == [s EXCEPT ![Len(s)] = c]
           IN  /\ t \in Seq(S) /\ Len(t) = Len(s) /\ t # <<>> /\ Last(t) = c /\ t[Len(s)] = c
               /\ \A i \in 1..Len(s) : i # Len(s) => t[i] = s[i]
<1> DEFINE t == [s EXCEPT ![Len(s)] = c]
<1>1. Len(s) \in Nat /\ Len(s) # 0 /\ Len(s) \in 1..Len(s) /\ DOMAIN s = 1..Len(s)
  BY OnTop, LenProperties
<1>2. t \in Seq(S) /\ Len(t) = Len(s)
  <2>1. t \in Seq(S) /\ Len(t) = Len(s)
    BY <1>1, ExceptSeq
  <2> QED BY <2>1
<1>3. t[Len(s)] = c /\ \A i \in 1..Len(s) : i # Len(s) => t[i] = s[i]
  BY <1>1
<1>4. t # <<>> /\ Last(t) = c
  BY <1>1, <1>2, <1>3, OnTop DEF Last
<1> QED BY <1>2, <1>3, <1>4

\* Two more elements.
LEMMA PushingTwo ==
    ASSUME NEW S, NEW s \in Seq(S), NEW c \in S, NEW d \in S
    PROVE  s \o <<c, d>> = Append(Append(s, c), d)
<1>1. Append(s, c) = s \o <<c>> /\ Append(s, c) \in Seq(S)
  BY AppendIsConcat, AppendProperties
<1>2. Append(Append(s, c), d) = (s \o <<c>>) \o <<d>>
  BY <1>1, AppendIsConcat
<1>3. <<c>> \in Seq(S) /\ <<d>> \in Seq(S)
  OBVIOUS
<1>4. (s \o <<c>>) \o <<d>> = s \o (<<c>> \o <<d>>)
  BY <1>3, ConcatAssociative
<1>5. <<c>> \o <<d>> = <<c, d>>
  <2>1. <<c>> \o <<d>> = Append(<<c>>, d)
    BY <1>3, AppendIsConcat
  <2>2. Append(<<c>>, d) = <<c, d>>
    <3>1. <<c>> \in Seq(S) /\ Len(<<c>>) = 1 /\ <<c>>[1] = c
      OBVIOUS
    <3>2. /\ Append(<<c>>, d) \in Seq(S) /\ Len(Append(<<c>>, d)) = 2
          /\ Append(<<c>>, d)[1] = c /\ Append(<<c>>, d)[2] = d
      BY <3>1, AppendProperties
    <3>3. <<c, d>> \in Seq(S) /\ Len(<<c, d>>) = 2 /\ <<c, d>>[1] = c /\ <<c, d>>[2] = d
      OBVIOUS
    <3>4. \A i \in 1..2 : Append(<<c>>, d)[i] = <<c, d>>[i]
      <4>1. \A i \in 1..2 : i = 1 \/ i = 2
        OBVIOUS
      <4> QED BY <3>2, <3>3, <4>1
    <3>5. ASSUME NEW s1 \in Seq(S), NEW s2 \in Seq(S), Len(s1) = 2, Len(s2) = 2,
                 \A i \in 1..2 : s1[i] = s2[i]
          PROVE  s1 = s2
      BY <3>5, SeqEqual
    <3> QED BY <3>2, <3>3, <3>4, <3>5
  <2> QED BY <2>1, <2>2
<1> QED BY <1>2, <1>4, <1>5

\* A function of the positions is a stack.
LEMMA Tabulating ==
    ASSUME NEW S, NEW n \in Nat, NEW f \in [1..n -> S]
    PROVE  f \in Seq(S) /\ Len(f) = n
BY IsASeq

-----------------------------------------------------------------------------

(* The inductive invariant.                                                *)

IsLoop(call) == call.context = "InExecutionLoop"
IsLib(call) == call.context = "InLibraryFunction"
IsNative(call) == call.context = "InNativeCode"

\* Native code has no virtual machine, script code alone has trap blocks.
CallSet ==
    {c \in [context : Contexts, vm : VMs \cup {NoVM}, traps : 0..MaxTraps, ret : Counters \ {"idle"}] :
        (c.vm = NoVM <=> IsNative(c)) /\ (c.traps > 0 => IsDeltaCodeContext(c))}

Phases == {"exec", "check", "unwound", "exit"}
LoopFrames == {f \in [what : {"loop"}, vm : VMs, saved : Counters \ {"idle"},
                      phase : Phases, valid : BOOLEAN] :
                  f.phase \in {"exec", "unwound"} => f.valid}
LibFrames   == [what : {"lib"}, vm : VMs, valid : BOOLEAN]
CrossFrames == [what : {"cross"}, vm : VMs, callee : VMs, valid : BOOLEAN]
TryFrames   == [what : {"try"}, vm : {NoVM}, valid : {TRUE}]
FrameSet == LoopFrames \cup LibFrames \cup CrossFrames \cup TryFrames

TypeInv ==
    /\ callStack \in Seq(CallSet)
    /\ callTraces \in Seq([context : Contexts, vm : VMs])
    /\ isUnwinding \in BOOLEAN /\ shouldUnwind \in BOOLEAN
    /\ pc \in [VMs -> Counters]
    /\ error \in [VMs -> BOOLEAN] /\ checker \in [VMs -> BOOLEAN]
    /\ cpp \in Seq(FrameSet)

\* The positions of a stack of calls, and of the C++ calls, that matter here.
CallsIn(s)    == {i \in 1..Len(s) : ~IsDeltaCodeContext(s[i])}
TracedIn(s)   == {i \in 1..Len(s) : ~IsLoop(s[i]) /\ ~IsNative(s[i])}
NativesIn(s)  == {i \in 1..Len(s) : IsNative(s[i])}
HandlersIn(s) == {i \in 1..Len(s) : Handles(s[i])}
LiveIn(f)     == {j \in 1..Len(f) : f[j].valid /\ f[j].what # "cross"}

\* What is below a call: script code runs in a loop of its own virtual machine,
\* and a loop that calls runs a script.
Nests(s, i) ==
    /\ IsDeltaCodeContext(s[i]) =>
          /\ i > 1 /\ s[i - 1].vm = s[i].vm
          /\ \/ IsLoop(s[i - 1]) /\ s[i].ret = "end"
             \/ IsDeltaCodeContext(s[i - 1]) /\ s[i].context = "InDeltaFunction"
                /\ s[i].ret = "code"
    /\ IsLib(s[i]) => /\ i > 1 /\ s[i - 1].vm = s[i].vm
                      /\ IsDeltaCodeContext(s[i - 1]) /\ s[i].ret = "code"
    /\ IsLoop(s[i]) /\ i < Len(s) => IsDeltaCodeContext(s[i + 1]) /\ s[i + 1].vm = s[i].vm
CallsNest(s) == \A i \in 1..Len(s) : Nests(s, i)

\* What is below a C++ call.
FrameNests(f, j) ==
    /\ f[j].what \in {"lib", "cross"} =>
          j > 1 /\ f[j - 1].what = "loop" /\ f[j - 1].vm = f[j].vm
    /\ f[j].what = "loop" => /\ j > 1 => f[j - 1].what # "loop"
                             /\ j < Len(f) => f[j].phase = "check"
    /\ f[j].what = "try" => (j > 1 => f[j - 1].what \in {"lib", "try"})
FramesNest(f) == \A j \in 1..Len(f) : FrameNests(f, j)

\* An error ends the passports of all C++ calls of its virtual machine.
ErrorInv ==
    /\ \A j \in 1..Len(cpp) : cpp[j].vm # NoVM => (cpp[j].valid <=> ~error[cpp[j].vm])
    /\ \A v \in VMs : pc[v] = "idle" => ~error[v]
    /\ \A i \in 1..Len(callStack) : callStack[i].vm # NoVM => ~error[callStack[i].vm]

NativeInv == expectedNativeTrapDisableCalls = Cardinality(NativesIn(callStack))

\* m maps the C++ calls A onto the calls B they are for.  The handlers above no
\* call of a C++ call that failed are out of the reach of an exception.
Agrees(m, A, B, s, f) ==
    /\ Increasing(m, A, B)
    /\ \A j \in A : s[m[j]].vm = f[j].vm /\ s[m[j]].context = ContextOf(f[j].what)
    /\ \A j \in 1..Len(f), i \in HandlersIn(s) :
          ~f[j].valid => \E k \in A : k > j /\ m[k] <= i
Matches(A, B, s, f) == \E m : Agrees(m, A, B, s, f)

\* A library function that throws is popped before its C++ call returns, one
\* that throws natively after it.
LibGone == isUnwinding /\ Top("lib") /\ ~IsLib(Last(callStack))
LibLeft == isUnwinding /\ Top("loop") /\ IsLib(Last(callStack))
MatchInv == Matches(IF LibGone THEN LiveIn(cpp) \ {Len(cpp)} ELSE LiveIn(cpp),
                    IF LibLeft THEN CallsIn(callStack) \ {Len(callStack)} ELSE CallsIn(callStack),
                    callStack, cpp)

\* t maps the call traces onto the calls they are of.
Traces(ct, s) == \E t :
    /\ Increasing(t, 1..Len(ct), TracedIn(s))
    /\ \A k \in 1..Len(ct) : ct[k] = Trace(s[t[k]].context, s[t[k]].vm)
TraceInv == leftProgram \/ Traces(callTraces, callStack)

ScriptOnTop(v) ==
    callStack # <<>> /\ IsDeltaCodeContext(Last(callStack)) /\ Last(callStack).vm = v
LoopOnTop == callStack # <<>> /\ IsLoop(Last(callStack))

\* What the newest loop finds at each point of its code.
Executes(v) ==
    /\ ScriptOnTop(v) /\ pc[v] \in {"code", "trap"}
    /\ pc[v] = "trap" => Last(callStack).traps > 0
    /\ isUnwinding => shouldUnwind /\ pc[v] = "code"
Checks(v) ==
    /\ ~isUnwinding => /\ pc[v] # "idle"
                       /\ pc[v] = "end" <=> LoopOnTop
                       /\ pc[v] = "trap" => Last(callStack).traps > 0
    /\ isUnwinding => (shouldUnwind <=> ~LoopOnTop)
Unwound(v) ==
    \/ ~isUnwinding /\ ScriptOnTop(v) /\ pc[v] = "trap" /\ Last(callStack).traps > 0
    \/ isUnwinding /\ shouldUnwind /\ ScriptOnTop(v) /\ pc[v] = "code"
    \/ isUnwinding /\ ~shouldUnwind /\ LoopOnTop
Exits == LoopOnTop /\ (isUnwinding => shouldUnwind)

LoopInv ==
    Top("loop") /\ Last(cpp).valid =>
        /\ Last(cpp).phase = "exec" => Executes(Last(cpp).vm)
        /\ Last(cpp).phase = "check" => Checks(Last(cpp).vm)
        /\ Last(cpp).phase = "unwound" => Unwound(Last(cpp).vm)
        /\ Last(cpp).phase = "exit" => Exits

\* Every loop that can go on tests for an exception that is unwound.
AllChecked ==
    isUnwinding => \A j \in 1..Len(cpp) :
        cpp[j].what = "loop" /\ cpp[j].valid => checker[cpp[j].vm]

ControlInv ==
    /\ LoopOnTop => Top("loop") /\ Last(cpp).valid
    /\ LoopInv
    /\ isUnwinding => /\ HandlersIn(callStack) # {}
                      /\ ~Top("loop") => shouldUnwind
                      /\ AllChecked
                      /\ leftProgram \/ StaysInProgram

IInv == /\ TypeInv /\ CallsNest(callStack) /\ FramesNest(cpp) /\ ErrorInv
        /\ NativeInv /\ MatchInv /\ TraceInv /\ ControlInv

-----------------------------------------------------------------------------
(* Stacks of calls.                                                        *)

LEMMA NewCalls ==
    ASSUME NEW v \in VMs
    PROVE  /\ \A c \in {"InLibraryFunction", "InDeltaFunction", "InDeltaGlobalCode", "InExecutionLoop"},
                 r \in Counters \ {"idle"} : Call(c, v, r) \in CallSet
           /\ Call("InNativeCode", NoVM, "end") \in CallSet
           /\ \A c \in Contexts : Trace(c, v) \in [context : Contexts, vm : VMs]
           /\ v # NoVM
<1>1. v # NoVM /\ 0 \in 0..MaxTraps
  BY NoVMAssumption, BoundAssumption
<1> QED BY <1>1 DEF Call, Trace, CallSet, Contexts, Counters, IsNative, IsDeltaCodeContext

\* One call more.
LEMMA PushedPositions ==
    ASSUME NEW S, NEW s \in Seq(S), NEW c \in S
    PROVE  LET t == Append(s, c)
               New == {Len(s) + 1}
           IN  /\ CallsIn(t) = CallsIn(s) \cup IF IsDeltaCodeContext(c) THEN {} ELSE New
               /\ TracedIn(t) = TracedIn(s) \cup IF IsLoop(c) \/ IsNative(c) THEN {} ELSE New
               /\ NativesIn(t) = NativesIn(s) \cup IF IsNative(c) THEN New ELSE {}
               /\ HandlersIn(t) = HandlersIn(s) \cup IF Handles(c) THEN New ELSE {}
<1> DEFINE t == Append(s, c)
<1>1. /\ Len(s) \in Nat /\ Len(t) = Len(s) + 1
      /\ \A i \in 1..Len(s) : t[i] = s[i]
      /\ t[Len(s) + 1] = c
  BY Pushing
<1> HIDE DEF t
<1>2. 1..Len(t) = 1..Len(s) \cup {Len(s) + 1} /\ Len(s) + 1 \notin 1..Len(s)
  BY <1>1
<1>3. CallsIn(t) = CallsIn(s) \cup IF IsDeltaCodeContext(c) THEN {} ELSE {Len(s) + 1}
  BY <1>1, <1>2 DEF CallsIn
<1>4. TracedIn(t) = TracedIn(s) \cup IF IsLoop(c) \/ IsNative(c) THEN {} ELSE {Len(s) + 1}
  BY <1>1, <1>2 DEF TracedIn
<1>5. NativesIn(t) = NativesIn(s) \cup IF IsNative(c) THEN {Len(s) + 1} ELSE {}
  BY <1>1, <1>2 DEF NativesIn
<1>6. HandlersIn(t) = HandlersIn(s) \cup IF Handles(c) THEN {Len(s) + 1} ELSE {}
  BY <1>1, <1>2 DEF HandlersIn
<1> QED BY <1>3, <1>4, <1>5, <1>6 DEF t

\* The oldest calls.
LEMMA KeptPositions ==
    ASSUME NEW S, NEW s \in Seq(S), NEW n \in 0..Len(s)
    PROVE  LET t == SubSeq(s, 1, n)
           IN  /\ CallsIn(t) = UpTo(CallsIn(s), n)
               /\ TracedIn(t) = UpTo(TracedIn(s), n)
               /\ NativesIn(t) = UpTo(NativesIn(s), n)
               /\ HandlersIn(t) = UpTo(HandlersIn(s), n)
<1> DEFINE t == SubSeq(s, 1, n)
<1>1. /\ Len(s) \in Nat /\ n \in Nat /\ Len(t) = n
      /\ \A i \in 1..n : t[i] = s[i]
  BY Keeping
<1> HIDE DEF t
<1>2. \A i : i \in 1..n <=> i \in 1..Len(s) /\ i <= n
  BY <1>1
<1>3. CallsIn(t) = UpTo(CallsIn(s), n)
  BY <1>1, <1>2 DEF CallsIn, UpTo
<1>4. TracedIn(t) = UpTo(TracedIn(s), n)
  BY <1>1, <1>2 DEF TracedIn, UpTo
<1>5. NativesIn(t) = UpTo(NativesIn(s), n)
  BY <1>1, <1>2 DEF NativesIn, UpTo
<1>6. HandlersIn(t) = UpTo(HandlersIn(s), n)
  BY <1>1, <1>2 DEF HandlersIn, UpTo
<1> QED BY <1>3, <1>4, <1>5, <1>6 DEF t

\* Other trap blocks on top.
LEMMA TrappedPositions ==
    ASSUME NEW s, NEW t, Len(t) = Len(s),
           \A i \in 1..Len(s) : t[i].context = s[i].context
    PROVE  CallsIn(t) = CallsIn(s) /\ TracedIn(t) = TracedIn(s) /\ NativesIn(t) = NativesIn(s)
BY DEF CallsIn, TracedIn, NativesIn, IsDeltaCodeContext, IsLoop, IsNative

LEMMA PositionTypes ==
    ASSUME NEW s, Len(s) \in Nat
    PROVE  /\ CallsIn(s) \in SUBSET Int /\ TracedIn(s) \in SUBSET Int
           /\ IsFiniteSet(TracedIn(s)) /\ IsFiniteSet(NativesIn(s)) /\ IsFiniteSet(CallsIn(s))
           /\ \A i \in CallsIn(s) : i \in 1..Len(s) /\ i \in Nat /\ i <= Len(s)
           /\ \A i \in TracedIn(s) : i \in 1..Len(s) /\ i \in Nat /\ i <= Len(s)
           /\ \A i \in HandlersIn(s) : i \in 1..Len(s) /\ i \in Nat /\ i <= Len(s)
<1>1. IsFiniteSet(1..Len(s)) /\ 1..Len(s) \subseteq Nat
  BY FS_Interval
<1>2. /\ CallsIn(s) \in SUBSET (1..Len(s)) /\ TracedIn(s) \in SUBSET (1..Len(s))
      /\ NativesIn(s) \in SUBSET (1..Len(s)) /\ HandlersIn(s) \in SUBSET (1..Len(s))
  BY DEF CallsIn, TracedIn, NativesIn, HandlersIn
<1>3. IsFiniteSet(TracedIn(s)) /\ IsFiniteSet(NativesIn(s)) /\ IsFiniteSet(CallsIn(s))
  BY <1>1, <1>2, FS_Subset
<1>4. \A i \in 1..Len(s) : i \in Nat /\ i <= Len(s)
  OBVIOUS
<1> QED BY <1>1, <1>2, <1>3, <1>4

-----------------------------------------------------------------------------
(* What is below a call.                                                   *)

LEMMA NestKept ==
    ASSUME NEW S, NEW s \in Seq(S), CallsNest(s), NEW n \in 0..Len(s)
    PROVE  CallsNest(SubSeq(s, 1, n))
<1> DEFINE t == SubSeq(s, 1, n)
<1>1. /\ Len(s) \in Nat /\ n \in Nat /\ Len(t) = n
      /\ \A i \in 1..n : t[i] = s[i]
  BY Keeping
<1> HIDE DEF t
<1>2. ASSUME NEW i \in 1..n PROVE Nests(t, i)
  <2>1. i \in 1..Len(s) /\ i \in Nat /\ t[i] = s[i]
    BY <1>1
  <2>2. i > 1 => t[i - 1] = s[i - 1]
    BY <1>1, <2>1
  <2>3. i < n => t[i + 1] = s[i + 1] /\ i < Len(s)
    BY <1>1, <2>1
  <2>4. Nests(s, i)
    BY <2>1 DEF CallsNest
  <2> QED BY <1>1, <2>1, <2>2, <2>3, <2>4 DEF Nests
<1>3. CallsNest(t)
  BY <1>1, <1>2 DEF CallsNest
<1> QED BY <1>3 DEF t

LEMMA NestTrapped ==
    ASSUME NEW s, NEW t, Len(s) \in Nat, Len(t) = Len(s), CallsNest(s),
           \A i \in 1..Len(s) : /\ t[i].context = s[i].context /\ t[i].vm = s[i].vm
                                /\ t[i].ret = s[i].ret
    PROVE  CallsNest(t)
<1>1. ASSUME NEW i \in 1..Len(s) PROVE Nests(t, i)
  <2>1. i \in Nat /\ (i > 1 => i - 1 \in 1..Len(s)) /\ (i < Len(s) => i + 1 \in 1..Len(s))
    OBVIOUS
  <2>2. Nests(s, i)
    BY DEF CallsNest
  <2> QED BY <2>1, <2>2 DEF Nests, IsDeltaCodeContext, IsLoop, IsLib
<1> QED BY <1>1 DEF CallsNest

\* A call that may be above the newest one.
MayPush(s, c) ==
    /\ IsDeltaCodeContext(c) =>
          /\ s # <<>> /\ Last(s).vm = c.vm
          /\ \/ IsLoop(Last(s)) /\ c.ret = "end"
             \/ IsDeltaCodeContext(Last(s)) /\ c.context = "InDeltaFunction" /\ c.ret = "code"
    /\ IsLib(c) => /\ s # <<>> /\ Last(s).vm = c.vm
                   /\ IsDeltaCodeContext(Last(s)) /\ c.ret = "code"
    /\ s # <<>> /\ IsLoop(Last(s)) => IsDeltaCodeContext(c)

LEMMA NestPushed ==
    ASSUME NEW S, NEW s \in Seq(S), CallsNest(s), NEW c \in S, MayPush(s, c)
    PROVE  CallsNest(Append(s, c))
<1> DEFINE t == Append(s, c)
<1>1. /\ Len(s) \in Nat /\ Len(t) = Len(s) + 1
      /\ \A i \in 1..Len(s) : t[i] = s[i]
      /\ t[Len(s) + 1] = c
  BY Pushing
<1>2. /\ s = <<>> <=> Len(s) = 0
      /\ s # <<>> => Last(s) = s[Len(s)]
  BY OnTop
<1> HIDE DEF t
<1>3. ASSUME NEW i \in 1..Len(s) PROVE Nests(t, i)
  <2>1. i \in Nat /\ t[i] = s[i] /\ Nests(s, i)
    BY <1>1, <1>3 DEF CallsNest
  <2>2. i > 1 => t[i - 1] = s[i - 1]
    BY <1>1, <2>1
  <2>3. i < Len(s) => t[i + 1] = s[i + 1]
    BY <1>1, <2>1
  <2>4. CASE i < Len(s)
    BY <1>1, <2>1, <2>2, <2>3, <2>4 DEF Nests
  <2>5. CASE i = Len(s)
    <3>1. s # <<>> /\ Last(s) = s[i] /\ t[i + 1] = c
      BY <1>1, <1>2, <2>5
    <3>2. IsLoop(s[i]) => IsDeltaCodeContext(c) /\ c.vm = s[i].vm
      BY <3>1 DEF MayPush
    <3> QED BY <1>1, <2>1, <2>2, <3>1, <3>2 DEF Nests
  <2> QED BY <1>1, <2>1, <2>4, <2>5
<1>4. Nests(t, Len(s) + 1)
  <2>1. ~(Len(s) + 1 < Len(t)) /\ Len(s) + 1 - 1 = Len(s)
    BY <1>1
  <2>2. s # <<>> => Len(s) + 1 > 1 /\ t[Len(s)] = Last(s)
    BY <1>1, <1>2
  <2> QED BY <1>1, <2>1, <2>2 DEF Nests, MayPush
<1>5. \A i \in 1..Len(t) : i \in 1..Len(s) \/ i = Len(s) + 1
  BY <1>1
<1>6. CallsNest(t)
  BY <1>3, <1>4, <1>5 DEF CallsNest
<1> QED BY <1>6 DEF t

\* Script code runs in a loop, with nothing but script code between them.
LEMMA ScriptRuns ==
    ASSUME NEW s, Len(s) \in Nat, CallsNest(s), NEW i \in 1..Len(s), IsDeltaCodeContext(s[i])
    PROVE  \E l \in 1..i - 1 :
              /\ IsLoop(s[l]) /\ s[l].vm = s[i].vm
              /\ \A k \in l + 1..i : IsDeltaCodeContext(s[k]) /\ s[k].vm = s[i].vm
              /\ \A k \in l + 2..i : s[k].context = "InDeltaFunction" /\ s[k].ret = "code"
<1> DEFINE Script(k) == IsDeltaCodeContext(s[k]) /\ s[k].vm = s[i].vm
           T == {k \in 1..i : ~Script(k)}
<1>1. T # {}
  <2>1. SUFFICES ASSUME \A k \in 1..i : Script(k) PROVE FALSE
    OBVIOUS
  <2>2. Script(1) /\ 1 \in 1..Len(s)
    BY <2>1
  <2>3. Nests(s, 1)
    BY <2>2 DEF CallsNest
  <2> QED BY <2>2, <2>3 DEF Nests
<1>2. T \in SUBSET (0..i) /\ i \in Nat
  OBVIOUS
<1>3. PICK l \in T : \A k \in T : k <= l
  <2> HIDE DEF T
  <2> QED BY <1>1, <1>2, GreatestNumber
<1>4. l \in 1..i /\ l \in Nat /\ l # i /\ ~Script(l)
  BY <1>3
<1>5. \A k \in l + 1..i : Script(k)
  BY <1>3, <1>4
<1>6. ASSUME NEW k \in l + 1..i PROVE k \in 1..Len(s) /\ Nests(s, k) /\ k - 1 \in Nat
  BY <1>4 DEF CallsNest
<1>7. IsLoop(s[l]) /\ s[l].vm = s[i].vm
  <2>1. l + 1 \in l + 1..i /\ l + 1 - 1 = l
    BY <1>4
  <2>2. Nests(s, l + 1) /\ Script(l + 1)
    BY <1>5, <1>6, <2>1
  <2>3. s[l].vm = s[l + 1].vm /\ (IsLoop(s[l]) \/ IsDeltaCodeContext(s[l]))
    BY <2>1, <2>2 DEF Nests
  <2> QED BY <1>4, <2>2, <2>3
<1>8. ASSUME NEW k \in l + 2..i PROVE s[k].context = "InDeltaFunction" /\ s[k].ret = "code"
  <2>1. k \in l + 1..i /\ k - 1 \in l + 1..i
    BY <1>4
  <2>2. Nests(s, k) /\ Script(k) /\ Script(k - 1)
    BY <1>5, <1>6, <2>1
  <2>3. ~IsLoop(s[k - 1])
    BY <2>2 DEF IsLoop, IsDeltaCodeContext
  <2> QED BY <2>2, <2>3 DEF Nests
<1>9. l \in 1..i - 1
  BY <1>4
<1> QED BY <1>5, <1>7, <1>8, <1>9

-----------------------------------------------------------------------------
(* C++ calls.                                                              *)

LEMMA NewFrames ==
    ASSUME NEW v \in VMs, NEW w \in VMs
    PROVE  /\ \A r \in Counters \ {"idle"} : LoopFrame(v, r) \in FrameSet
           /\ LibFrame(v) \in FrameSet /\ CrossFrame(v, w) \in FrameSet /\ TryFrame \in FrameSet
BY DEF LoopFrame, LibFrame, CrossFrame, TryFrame, FrameSet, LoopFrames, LibFrames, CrossFrames,
       TryFrames, Phases

\* What the frames are.
LEMMA FrameFacts ==
    ASSUME NEW f \in FrameSet
    PROVE  /\ f.what \in {"loop", "lib", "cross", "try"} /\ f.valid \in BOOLEAN
           /\ f.vm \in VMs \cup {NoVM} /\ (f.vm = NoVM <=> f.what = "try")
           /\ f.what = "try" => f.valid
           /\ f.what = "cross" => f.callee \in VMs
           /\ f.what = "loop" => /\ f.phase \in Phases /\ f.saved \in Counters \ {"idle"}
                                 /\ f.phase \in {"exec", "unwound"} => f.valid
BY NoVMAssumption DEF FrameSet, LoopFrames, LibFrames, CrossFrames, TryFrames

LEMMA LivePositions ==
    ASSUME NEW f, Len(f) \in Nat
    PROVE  /\ LiveIn(f) \in SUBSET Int /\ IsFiniteSet(LiveIn(f))
           /\ \A j \in LiveIn(f) : j \in 1..Len(f) /\ j \in Nat /\ j <= Len(f)
<1>1. IsFiniteSet(1..Len(f)) /\ 1..Len(f) \subseteq Nat
  BY FS_Interval
<1>2. LiveIn(f) \in SUBSET (1..Len(f))
  BY DEF LiveIn
<1>3. IsFiniteSet(LiveIn(f))
  BY <1>1, <1>2, FS_Subset
<1>4. \A j \in 1..Len(f) : j \in Nat /\ j <= Len(f)
  OBVIOUS
<1> QED BY <1>1, <1>2, <1>3, <1>4

\* One C++ call more.
LEMMA FramePushed ==
    ASSUME NEW f \in Seq(FrameSet), FramesNest(f), NEW g \in FrameSet,
           f # <<>> /\ Last(f).what = "loop" => Last(f).phase = "check",
           g.what \in {"lib", "cross"} => f # <<>> /\ Last(f).what = "loop" /\ Last(f).vm = g.vm,
           g.what = "loop" => f = <<>> \/ Last(f).what # "loop",
           g.what = "try" => f = <<>> \/ Last(f).what \in {"lib", "try"}
    PROVE  LET t == Append(f, g)
           IN  /\ FramesNest(t)
               /\ LiveIn(t) = LiveIn(f) \cup
                                 IF g.valid /\ g.what # "cross" THEN {Len(f) + 1} ELSE {}
<1> DEFINE t == Append(f, g)
<1>1. /\ Len(f) \in Nat /\ Len(t) = Len(f) + 1
      /\ \A i \in 1..Len(f) : t[i] = f[i]
      /\ t[Len(f) + 1] = g
  BY Pushing
<1>2. /\ f = <<>> <=> Len(f) = 0
      /\ f # <<>> => Last(f) = f[Len(f)]
  BY OnTop
<1> HIDE DEF t
<1>3. ASSUME NEW i \in 1..Len(f) PROVE FrameNests(t, i)
  <2>1. i \in Nat /\ t[i] = f[i] /\ FrameNests(f, i)
    BY <1>1 DEF FramesNest
  <2>2. i > 1 => t[i - 1] = f[i - 1]
    BY <1>1, <2>1
  <2>3. i = Len(f) => (f[i].what = "loop" => f[i].phase = "check")
    BY <1>2, <2>1
  <2>4. i < Len(f) \/ i = Len(f)
    BY <1>1, <2>1
  <2> QED BY <1>1, <2>1, <2>2, <2>3, <2>4 DEF FrameNests
<1>4. FrameNests(t, Len(f) + 1)
  <2>1. ~(Len(f) + 1 < Len(t)) /\ Len(f) + 1 - 1 = Len(f)
    BY <1>1
  <2>2. /\ f # <<>> => Len(f) + 1 > 1 /\ t[Len(f)] = Last(f)
        /\ Len(f) + 1 > 1 => f # <<>>
    BY <1>1, <1>2
  <2> QED BY <1>1, <2>1, <2>2 DEF FrameNests
<1>5. \A i : i \in 1..Len(t) <=> i \in 1..Len(f) \/ i = Len(f) + 1
  BY <1>1
<1>6. FramesNest(t)
  BY <1>3, <1>4, <1>5 DEF FramesNest
<1>7. Len(f) + 1 \notin 1..Len(f)
  BY <1>1
<1>8. LiveIn(t) = LiveIn(f) \cup IF g.valid /\ g.what # "cross" THEN {Len(f) + 1} ELSE {}
  BY <1>1, <1>5, <1>7 DEF LiveIn
<1> QED BY <1>6, <1>8 DEF t

\* Without the newest C++ call.
LEMMA FramePopped ==
    ASSUME NEW f \in Seq(FrameSet), f # <<>>, FramesNest(f)
    PROVE  LET t == Front(f)
           IN  /\ t \in Seq(FrameSet) /\ Len(f) \in Nat \ {0} /\ Len(t) = Len(f) - 1
               /\ FramesNest(t) /\ LiveIn(t) = LiveIn(f) \ {Len(f)}
               /\ \A j \in 1..Len(t) : t[j] = f[j]
               /\ t # <<>> => /\ Last(t) = f[Len(f) - 1] /\ Len(f) > 1
                              /\ Last(t).what = "loop" => Last(t).phase = "check"
               /\ Last(f).what = "loop" => t = <<>> \/ Last(t).what # "loop"
               /\ Last(f).what \in {"lib", "cross"} =>
                     t # <<>> /\ Last(t).what = "loop" /\ Last(t).vm = Last(f).vm
               /\ Last(f).what = "try" => t = <<>> \/ Last(t).what \in {"lib", "try"}
<1> DEFINE t == Front(f)
<1>1. /\ t \in Seq(FrameSet) /\ Len(f) \in Nat \ {0} /\ Len(t) = Len(f) - 1
      /\ \A i \in 1..Len(f) - 1 : t[i] = f[i]
      /\ Len(f) > 1 => t # <<>> /\ Last(t) = f[Len(f) - 1]
      /\ Len(f) = 1 => t = <<>>
  BY Popping
<1>2. Last(f) = f[Len(f)] /\ Len(f) \in 1..Len(f)
  BY OnTop
<1> HIDE DEF t
<1>3. ASSUME NEW i \in 1..Len(t) PROVE FrameNests(t, i) /\ t[i] = f[i]
  <2>1. i \in Nat /\ t[i] = f[i] /\ i \in 1..Len(f) /\ i < Len(f)
    BY <1>1
  <2>2. i > 1 => t[i - 1] = f[i - 1]
    BY <1>1, <2>1
  <2>3. FrameNests(f, i)
    BY <2>1 DEF FramesNest
  <2> QED BY <1>1, <2>1, <2>2, <2>3 DEF FrameNests
<1>4. FramesNest(t)
  BY <1>3 DEF FramesNest
<1>5. \A i : i \in 1..Len(t) <=> i \in 1..Len(f) /\ i # Len(f)
  BY <1>1
<1>6. LiveIn(t) = LiveIn(f) \ {Len(f)}
  BY <1>3, <1>5 DEF LiveIn
<1>7. t # <<>> => /\ Last(t) = f[Len(f) - 1] /\ Len(f) > 1
                  /\ Last(t).what = "loop" => Last(t).phase = "check"
  <2>1. SUFFICES ASSUME t # <<>>
                 PROVE  /\ Last(t) = f[Len(f) - 1] /\ Len(f) > 1
                        /\ Last(t).what = "loop" => Last(t).phase = "check"
    OBVIOUS
  <2>2. Len(f) > 1 /\ Last(t) = f[Len(f) - 1]
    BY <1>1, <2>1
  <2>3. Len(f) - 1 \in 1..Len(f) /\ Len(f) - 1 < Len(f)
    BY <1>1, <2>2
  <2>4. FrameNests(f, Len(f) - 1)
    BY <2>3 DEF FramesNest
  <2> QED BY <2>2, <2>3, <2>4 DEF FrameNests
<1>8. FrameNests(f, Len(f))
  BY <1>2 DEF FramesNest
<1>9. /\ Last(f).what = "loop" => t = <<>> \/ Last(t).what # "loop"
      /\ Last(f).what \in {"lib", "cross"} =>
             t # <<>> /\ Last(t).what = "loop" /\ Last(t).vm = Last(f).vm
      /\ Last(f).what = "try" => t = <<>> \/ Last(t).what \in {"lib", "try"}
  BY <1>1, <1>2, <1>7, <1>8 DEF FrameNests
<1> QED BY <1>1, <1>3, <1>4, <1>6, <1>7, <1>9 DEF t

\* The newest loop goes on to another phase.
LEMMA FramePhased ==
    ASSUME NEW f \in Seq(FrameSet), f # <<>>, FramesNest(f), Last(f).what = "loop",
           NEW p \in Phases, p \in {"exec", "unwound"} => Last(f).valid
    PROVE  LET t == [f EXCEPT ![Len(f)].phase = p]
           IN  /\ t \in Seq(FrameSet) /\ Len(t) = Len(f) /\ t # <<>> /\ Len(f) \in Nat \ {0}
               /\ FramesNest(t) /\ LiveIn(t) = LiveIn(f)
               /\ Last(t).what = "loop" /\ Last(t).phase = p /\ Last(t).vm = Last(f).vm
               /\ Last(t).valid = Last(f).valid /\ Last(t).saved = Last(f).saved
               /\ \A j \in 1..Len(f) : /\ t[j].what = f[j].what /\ t[j].vm = f[j].vm
                                       /\ t[j].valid = f[j].valid
<1> DEFINE g == [Last(f) EXCEPT !.phase = p]
           t == [f EXCEPT ![Len(f)].phase = p]
<1>1. Last(f) \in FrameSet /\ Last(f) = f[Len(f)] /\ Len(f) \in 1..Len(f) /\ Len(f) \in Nat \ {0}
  BY OnTop
<1>2. g \in FrameSet /\ g.what = "loop" /\ g.phase = p /\ g.vm = Last(f).vm
      /\ g.valid = Last(f).valid /\ g.saved = Last(f).saved
  BY <1>1 DEF FrameSet, LoopFrames, LibFrames, CrossFrames, TryFrames, Phases
<1>3. t = [f EXCEPT ![Len(f)] = g]
  BY <1>1
<1> HIDE DEF g
<1>4. /\ t \in Seq(FrameSet) /\ Len(t) = Len(f) /\ t # <<>> /\ Last(t) = g /\ t[Len(f)] = g
      /\ \A i \in 1..Len(f) : i # Len(f) => t[i] = f[i]
  BY <1>2, <1>3, ChangingTop
<1> HIDE DEF t
<1>5. \A j \in 1..Len(f) : t[j].what = f[j].what /\ t[j].vm = f[j].vm /\ t[j].valid = f[j].valid
  BY <1>1, <1>2, <1>4
<1>6. ASSUME NEW i \in 1..Len(f) PROVE FrameNests(t, i)
  <2>1. FrameNests(f, i) /\ i \in Nat
    BY DEF FramesNest
  <2>2. i > 1 => i - 1 \in 1..Len(f)
    BY <1>1, <2>1
  <2>3. i < Len(f) => t[i] = f[i]
    BY <1>1, <1>4, <2>1
  <2> QED BY <1>4, <1>5, <2>1, <2>2, <2>3 DEF FrameNests
<1>7. FramesNest(t)
  BY <1>4, <1>6 DEF FramesNest
<1>8. LiveIn(t) = LiveIn(f)
  BY <1>4, <1>5 DEF LiveIn
<1> QED BY <1>1, <1>2, <1>4, <1>5, <1>7, <1>8 DEF t

\* The C++ calls after virtual machines failed.
Expired(f, X) == [i \in DOMAIN f |-> [f[i] EXCEPT !.valid = @ /\ f[i].vm \notin X]]

\* The passports of some virtual machines expire.
LEMMA FramesExpired ==
    ASSUME NEW f \in Seq(FrameSet), FramesNest(f), NEW X \in SUBSET VMs,
           f # <<>> /\ Last(f).what = "loop" => Last(f).phase = "check"
    PROVE  LET t == Expired(f, X)
           IN  /\ t \in Seq(FrameSet) /\ Len(t) = Len(f) /\ Len(f) \in Nat /\ FramesNest(t)
               /\ t # <<>> <=> f # <<>>
               /\ \A j \in 1..Len(f) : /\ t[j].what = f[j].what /\ t[j].vm = f[j].vm
                                       /\ t[j].valid = (f[j].valid /\ f[j].vm \notin X)
                                       /\ f[j].what = "loop" => t[j].phase = f[j].phase
<1> DEFINE e(i) == [f[i] EXCEPT !.valid = @ /\ f[i].vm \notin X]
           t == Expired(f, X)
<1>1. /\ Len(f) \in Nat /\ DOMAIN f = 1..Len(f)
      /\ \A i \in 1..Len(f) : f[i] \in FrameSet
      /\ f = <<>> <=> Len(f) = 0
      /\ f # <<>> => Last(f) = f[Len(f)]
  BY OnTop, LenProperties
<1>10. t = [i \in DOMAIN f |-> e(i)]
  BY DEF Expired
<1> HIDE DEF e, t
<1>0. Len(f) \in Nat /\ (f # <<>> => Last(f) = f[Len(f)]) /\ (f = <<>> <=> Len(f) = 0)
  BY <1>1
<1>2. ASSUME NEW i \in 1..Len(f)
      PROVE  f[i].what = "loop" => f[i].phase = "check"
  <2>1. FrameNests(f, i) /\ i \in Nat /\ i <= Len(f)
    BY DEF FramesNest
  <2>2. i < Len(f) \/ i = Len(f)
    BY <1>0, <2>1
  <2>3. f # <<>>
    BY <1>0
  <2> QED BY <1>0, <2>1, <2>2, <2>3 DEF FrameNests
<1>3. ASSUME NEW i \in 1..Len(f)
      PROVE  /\ e(i) \in FrameSet /\ e(i).what = f[i].what /\ e(i).vm = f[i].vm
             /\ e(i).valid = (f[i].valid /\ f[i].vm \notin X)
             /\ f[i].what = "loop" => e(i).phase = f[i].phase
  <2>1. f[i] \in FrameSet /\ (f[i].what = "loop" => f[i].phase = "check") /\ NoVM \notin X
    BY <1>1, <1>2, NoVMAssumption
  <2> QED BY <2>1 DEF e, FrameSet, LoopFrames, LibFrames, CrossFrames, TryFrames, Phases
<1>4. t \in [1..Len(f) -> FrameSet] /\ \A i \in 1..Len(f) : t[i] = e(i)
  BY <1>1, <1>3, <1>10 DEF t
<1>5. t \in Seq(FrameSet) /\ Len(t) = Len(f)
  BY <1>1, <1>4, Tabulating
<1>6. \A j \in 1..Len(f) : /\ t[j].what = f[j].what /\ t[j].vm = f[j].vm
                           /\ t[j].valid = (f[j].valid /\ f[j].vm \notin X)
                           /\ f[j].what = "loop" => t[j].phase = f[j].phase
  BY <1>3, <1>4
<1>7. ASSUME NEW i \in 1..Len(f) PROVE FrameNests(t, i)
  <2>1. FrameNests(f, i) /\ i \in Nat
    BY DEF FramesNest
  <2>2. i > 1 => i - 1 \in 1..Len(f)
    BY <1>1, <2>1
  <2> QED BY <1>5, <1>6, <2>1, <2>2 DEF FrameNests
<1>8. FramesNest(t)
  BY <1>5, <1>7 DEF FramesNest
<1>9. t # <<>> <=> f # <<>>
  BY <1>1, <1>5, EmptySeq
<1> QED BY <1>1, <1>5, <1>6, <1>8, <1>9 DEF t

-----------------------------------------------------------------------------
(* C++ calls and the calls they are for.                                   *)

Greatest(a, A) == a \in A /\ \A x \in A : x <= a

SameCallsAt(B, s, s2) == \A i \in B : s2[i].vm = s[i].vm /\ s2[i].context = s[i].context
SameFramesAt(A, f, f2) == \A j \in A : f2[j].vm = f[j].vm /\ f2[j].what = f[j].what
NoneExpired(f, f2) ==
    \A j \in 1..Len(f2) : ~f2[j].valid => j \in 1..Len(f) /\ ~f[j].valid

\* The handlers of a stack are ones it had, below or above a position, or within
\* reach of the newest C++ call.
OldHandlers(s, s2) == \A i \in HandlersIn(s2) : i \in HandlersIn(s)
HandlersUnder(b, s, s2) ==
    \A i \in HandlersIn(s2) : i \in HandlersIn(s) /\ i \in Int /\ i < b
HandlersOver(b, s, s2) == \A i \in HandlersIn(s2) : i \in HandlersIn(s) \/ b <= i
HandlersInReach(A, B, s, s2, f2) ==
    \A i \in HandlersIn(s2) :
        \/ i \in HandlersIn(s)
        \/ \E k \in A : /\ \A j \in 1..Len(f2) : ~f2[j].valid => j < k
                        /\ \A b \in B : b <= i

\* Neither changes, and the new handlers are within reach.
LEMMA MatchesSame ==
    ASSUME NEW A \in SUBSET Int, NEW B \in SUBSET Int,
           NEW s, NEW f, NEW s2, NEW f2, Matches(A, B, s, f),
           SameCallsAt(B, s, s2), SameFramesAt(A, f, f2), NoneExpired(f, f2),
           HandlersInReach(A, B, s, s2, f2)
    PROVE  Matches(A, B, s2, f2)
<1>1. PICK m : Agrees(m, A, B, s, f)
  BY DEF Matches
<1>2. Increasing(m, A, B) /\ \A j \in A : m[j] \in B
  BY <1>1 DEF Agrees, Increasing
<1>3. ASSUME NEW j \in A
      PROVE  s2[m[j]].vm = f2[j].vm /\ s2[m[j]].context = ContextOf(f2[j].what)
  <2>1. s[m[j]].vm = f[j].vm /\ s[m[j]].context = ContextOf(f[j].what)
    BY <1>1 DEF Agrees
  <2>2. m[j] \in B /\ f2[j].vm = f[j].vm /\ f2[j].what = f[j].what
    BY <1>2 DEF SameFramesAt
  <2>3. s2[m[j]].vm = s[m[j]].vm /\ s2[m[j]].context = s[m[j]].context
    BY <2>2 DEF SameCallsAt
  <2> QED BY <2>1, <2>2, <2>3
<1>4. ASSUME NEW j \in 1..Len(f2), NEW i \in HandlersIn(s2), ~f2[j].valid
      PROVE  \E k \in A : k > j /\ m[k] <= i
  <2>1. j \in 1..Len(f) /\ ~f[j].valid
    BY <1>4 DEF NoneExpired
  <2>2. CASE i \in HandlersIn(s)
    BY <1>1, <2>1, <2>2 DEF Agrees
  <2>3. CASE i \notin HandlersIn(s)
    <3>1. PICK k \in A : (\A x \in 1..Len(f2) : ~f2[x].valid => x < k) /\ (\A b \in B : b <= i)
      BY <2>3 DEF HandlersInReach
    <3>2. m[k] <= i /\ j < k
      BY <1>2, <1>4, <3>1
    <3> QED BY <3>2
  <2> QED BY <2>2, <2>3
<1>5. Agrees(m, A, B, s2, f2)
  BY <1>2, <1>3, <1>4 DEF Agrees
<1> QED BY <1>5 DEF Matches

LEMMA OldHandlersInReach ==
    ASSUME NEW A, NEW B, NEW s, NEW s2, NEW f2, OldHandlers(s, s2)
    PROVE  HandlersInReach(A, B, s, s2, f2)
BY DEF OldHandlers, HandlersInReach

\* The newest C++ call and the newest call are gone, or do not count.
LEMMA MatchesPopped ==
    ASSUME NEW A \in SUBSET Int, NEW B \in SUBSET Int,
           NEW s, NEW f, NEW s2, NEW f2, Matches(A, B, s, f),
           NEW a, NEW b, Greatest(a, A), Greatest(b, B),
           SameCallsAt(B \ {b}, s, s2), SameFramesAt(A \ {a}, f, f2), NoneExpired(f, f2),
           HandlersUnder(b, s, s2)
    PROVE  Matches(A \ {a}, B \ {b}, s2, f2)
<1>1. PICK m : Agrees(m, A, B, s, f)
  BY DEF Matches
<1>2. Increasing(m, A, B)
  BY <1>1 DEF Agrees
<1>0. a \in A /\ b \in B /\ (\A x \in A : x <= a) /\ (\A x \in B : x <= b)
  BY DEF Greatest
<1> DEFINE n == On(m, A \ {a})
<1>3. /\ Increasing(n, A \ {a}, B \ {b})
      /\ \A x \in A \ {a} : n[x] = m[x] /\ m[x] \in B \ {b}
      /\ m[a] = b
  <2>1. m[a] = b
    BY <1>0, <1>2, IncreasingTop
  <2>2. /\ Increasing(On(m, A \ {a}), A \ {a}, B \ {b})
        /\ \A x \in A \ {a} : On(m, A \ {a})[x] = m[x] /\ m[x] \in B \ {b} /\ m[x] < b
    BY <1>0, <1>2, IncreasingPop
  <2> QED BY <2>1, <2>2
<1> HIDE DEF n
<1>4. ASSUME NEW j \in A \ {a}
      PROVE  s2[n[j]].vm = f2[j].vm /\ s2[n[j]].context = ContextOf(f2[j].what)
  <2>1. s[m[j]].vm = f[j].vm /\ s[m[j]].context = ContextOf(f[j].what)
    BY <1>1 DEF Agrees
  <2>2. n[j] = m[j] /\ m[j] \in B \ {b} /\ f2[j].vm = f[j].vm /\ f2[j].what = f[j].what
    BY <1>3 DEF SameFramesAt
  <2>3. s2[m[j]].vm = s[m[j]].vm /\ s2[m[j]].context = s[m[j]].context
    BY <2>2 DEF SameCallsAt
  <2> QED BY <2>1, <2>2, <2>3
<1>5. ASSUME NEW j \in 1..Len(f2), NEW i \in HandlersIn(s2), ~f2[j].valid
      PROVE  \E k \in A \ {a} : k > j /\ n[k] <= i
  <2>1. j \in 1..Len(f) /\ ~f[j].valid /\ i \in HandlersIn(s) /\ i \in Int /\ i < b /\ b \in Int
    BY <1>0, <1>5 DEF NoneExpired, HandlersUnder
  <2>2. PICK k \in A : k > j /\ m[k] <= i
    BY <1>1, <2>1 DEF Agrees
  <2>3. k # a
    BY <1>3, <2>1, <2>2
  <2> QED BY <1>3, <2>2, <2>3
<1>6. Agrees(n, A \ {a}, B \ {b}, s2, f2)
  BY <1>3, <1>4, <1>5 DEF Agrees
<1> QED BY <1>6 DEF Matches

\* A C++ call and its call are above all others.
LEMMA MatchesPushed ==
    ASSUME NEW A \in SUBSET Int, NEW B \in SUBSET Int,
           NEW s, NEW f, NEW s2, NEW f2, Matches(A, B, s, f), Len(f) \in Nat,
           NEW a, NEW b, Tops(a, A), Tops(b, B), a > Len(f),
           SameCallsAt(B, s, s2), SameFramesAt(A, f, f2), NoneExpired(f, f2),
           s2[b].vm = f2[a].vm, s2[b].context = ContextOf(f2[a].what),
           HandlersOver(b, s, s2)
    PROVE  Matches(A \cup {a}, B \cup {b}, s2, f2)
<1>1. PICK m : Agrees(m, A, B, s, f)
  BY DEF Matches
<1>2. Increasing(m, A, B) /\ \A x \in A : m[x] \in B
  BY <1>1 DEF Agrees, Increasing
<1>3. PICK n : /\ Increasing(n, A \cup {a}, B \cup {b})
               /\ \A x \in A : n[x] = m[x]
               /\ n[a] = b
  <2>1. \E n : Increasing(n, A \cup {a}, B \cup {b}) /\ Extends(n, m, A, a, b)
    BY <1>2, IncreasingPush
  <2> QED BY <2>1 DEF Extends
<1>4. ASSUME NEW j \in A \cup {a}
      PROVE  s2[n[j]].vm = f2[j].vm /\ s2[n[j]].context = ContextOf(f2[j].what)
  <2>1. CASE j = a
    BY <1>3, <2>1
  <2>2. CASE j \in A
    <3>1. s[m[j]].vm = f[j].vm /\ s[m[j]].context = ContextOf(f[j].what)
      BY <1>1, <2>2 DEF Agrees
    <3>2. n[j] = m[j] /\ m[j] \in B /\ f2[j].vm = f[j].vm /\ f2[j].what = f[j].what
      BY <1>2, <1>3, <2>2 DEF SameFramesAt
    <3>3. s2[m[j]].vm = s[m[j]].vm /\ s2[m[j]].context = s[m[j]].context
      BY <3>2 DEF SameCallsAt
    <3> QED BY <3>1, <3>2, <3>3
  <2> QED BY <2>1, <2>2
<1>5. ASSUME NEW j \in 1..Len(f2), NEW i \in HandlersIn(s2), ~f2[j].valid
      PROVE  \E k \in A \cup {a} : k > j /\ n[k] <= i
  <2>1. j \in 1..Len(f) /\ ~f[j].valid
    BY <1>5 DEF NoneExpired
  <2>2. CASE i \in HandlersIn(s)
    <3>1. PICK k \in A : k > j /\ m[k] <= i
      BY <1>1, <2>1, <2>2 DEF Agrees
    <3> QED BY <1>3, <3>1
  <2>3. CASE b <= i
    <3>1. a > j
      BY <2>1 DEF Tops
    <3> QED BY <1>3, <2>3, <3>1
  <2> QED BY <2>2, <2>3 DEF HandlersOver
<1>6. Agrees(n, A \cup {a}, B \cup {b}, s2, f2)
  BY <1>3, <1>4, <1>5 DEF Agrees
<1> QED BY <1>6 DEF Matches

\* The newest C++ call that counts is for the newest call that counts.
LEMMA MatchesTop ==
    ASSUME NEW A \in SUBSET Int, NEW B \in SUBSET Int, NEW s, NEW f, Matches(A, B, s, f),
           NEW a, Greatest(a, A)
    PROVE  \E b : /\ Greatest(b, B)
                  /\ s[b].vm = f[a].vm /\ s[b].context = ContextOf(f[a].what)
<1>1. PICK m : Agrees(m, A, B, s, f)
  BY DEF Matches
<1>2. Increasing(m, A, B)
  BY <1>1 DEF Agrees
<1>3. a \in A /\ \A x \in A : x <= a
  BY DEF Greatest
<1>4. m[a] \in B /\ \A b \in B : b <= m[a]
  BY <1>2, <1>3, IncreasingTopImage
<1>5. Greatest(m[a], B)
  BY <1>4 DEF Greatest
<1>6. s[m[a]].vm = f[a].vm /\ s[m[a]].context = ContextOf(f[a].what)
  BY <1>1, <1>3 DEF Agrees
<1> QED BY <1>5, <1>6

LEMMA MatchesNone ==
    ASSUME NEW A, NEW B, NEW s, NEW f, Matches(A, B, s, f), A = {}
    PROVE  B = {}
BY DEF Matches, Agrees, Increasing

-----------------------------------------------------------------------------
(* Call traces.                                                            *)

LEMMA TracesSame ==
    ASSUME NEW ct, NEW s, NEW s2, Traces(ct, s), TracedIn(s2) = TracedIn(s),
           \A i \in TracedIn(s) : s2[i].vm = s[i].vm /\ s2[i].context = s[i].context
    PROVE  Traces(ct, s2)
<1>1. PICK t : /\ Increasing(t, 1..Len(ct), TracedIn(s))
               /\ \A k \in 1..Len(ct) : ct[k] = Trace(s[t[k]].context, s[t[k]].vm)
  BY DEF Traces
<1>2. \A k \in 1..Len(ct) : t[k] \in TracedIn(s)
  BY <1>1 DEF Increasing
<1>3. \A k \in 1..Len(ct) : ct[k] = Trace(s2[t[k]].context, s2[t[k]].vm)
  BY <1>1, <1>2
<1> QED BY <1>1, <1>3 DEF Traces

LEMMA TracesPushed ==
    ASSUME NEW T, NEW S, NEW ct \in Seq(T), NEW s \in Seq(S), Traces(ct, s), NEW c \in S,
           ~IsLoop(c), ~IsNative(c), Trace(c.context, c.vm) \in T
    PROVE  Traces(Append(ct, Trace(c.context, c.vm)), Append(s, c))
<1> DEFINE s2 == Append(s, c)
           d == Trace(c.context, c.vm)
           ct2 == Append(ct, d)
           a == Len(ct) + 1
           b == Len(s) + 1
<1>1. PICK t : /\ Increasing(t, 1..Len(ct), TracedIn(s))
               /\ \A k \in 1..Len(ct) : ct[k] = Trace(s[t[k]].context, s[t[k]].vm)
  BY DEF Traces
<1>2. /\ Len(ct) \in Nat /\ Len(ct2) = Len(ct) + 1
      /\ \A i \in 1..Len(ct) : ct2[i] = ct[i]
      /\ ct2[Len(ct) + 1] = d
  <2> HIDE DEF d
  <2>1. d \in T
    BY DEF d
  <2> QED BY <2>1, Pushing
<1>3. /\ Len(s) \in Nat /\ Len(s2) = Len(s) + 1
      /\ \A i \in 1..Len(s) : s2[i] = s[i]
      /\ s2[Len(s) + 1] = c
  BY Pushing
<1>4. TracedIn(s2) = TracedIn(s) \cup {b}
  BY PushedPositions
<1>5. 1..Len(ct2) = 1..Len(ct) \cup {a}
  BY <1>2
<1>6. /\ TracedIn(s) \in SUBSET Int
      /\ \A i \in TracedIn(s) : i \in 1..Len(s) /\ i \in Nat /\ i <= Len(s)
  BY <1>3, PositionTypes
<1>7. /\ \A x \in 1..Len(ct) : x < a
      /\ \A x \in TracedIn(s) : x < b
      /\ a \in Int /\ b \in Int /\ 1..Len(ct) \in SUBSET Int
  BY <1>2, <1>3, <1>6
<1> HIDE DEF s2, ct2, a, b, d
<1>8. PICK u : /\ Increasing(u, 1..Len(ct) \cup {a}, TracedIn(s) \cup {b})
               /\ \A x \in 1..Len(ct) : u[x] = t[x]
               /\ u[a] = b
  <2> DEFINE A == 1..Len(ct)
             B == TracedIn(s)
  <2>1. Increasing(t, A, B) /\ A \in SUBSET Int /\ B \in SUBSET Int /\ Tops(a, A) /\ Tops(b, B)
    BY <1>1, <1>6, <1>7 DEF Tops
  <2> HIDE DEF A, B
  <2>2. \E u : Increasing(u, A \cup {a}, B \cup {b}) /\ Extends(u, t, A, a, b)
    BY <2>1, IncreasingPush
  <2> QED BY <2>2 DEF A, B, Extends
<1>9. ASSUME NEW k \in 1..Len(ct2) PROVE ct2[k] = Trace(s2[u[k]].context, s2[u[k]].vm)
  <2>1. CASE k = a
    <3>1. s2[u[k]] = c
      BY <1>3, <1>8, <2>1 DEF b
    <3>2. ct2[k] = d
      BY <1>2, <2>1 DEF a
    <3> QED BY <3>1, <3>2 DEF d
  <2>2. CASE k \in 1..Len(ct)
    <3>1. t[k] \in 1..Len(s)
      BY <1>1, <1>6, <2>2 DEF Increasing
    <3> QED BY <1>1, <1>2, <1>3, <1>8, <2>2, <3>1
  <2> QED BY <1>5, <2>1, <2>2
<1>10. Traces(ct2, s2)
  BY <1>4, <1>5, <1>8, <1>9 DEF Traces
<1> QED BY <1>10 DEF ct2, s2, d

LEMMA TracesCount ==
    ASSUME NEW ct, NEW s, Len(ct) \in Nat, Len(s) \in Nat, Traces(ct, s)
    PROVE  Cardinality(TracedIn(s)) = Len(ct)
<1>1. PICK t : Increasing(t, 1..Len(ct), TracedIn(s))
  BY DEF Traces
<1>2. /\ IsFiniteSet(1..Len(ct)) /\ 1..Len(ct) \in SUBSET Int
      /\ Cardinality(1..Len(ct)) = Len(ct)
  <2>1. IsFiniteSet(1..Len(ct)) /\ Cardinality(1..Len(ct)) = IF 1 > Len(ct) THEN 0 ELSE Len(ct) - 1 + 1
    <3>1. 1 \in Int /\ Len(ct) \in Int
      OBVIOUS
    <3> QED BY <3>1, FS_Interval
  <2> QED BY <2>1
<1>3. TracedIn(s) \in SUBSET Int
  BY PositionTypes
<1> QED BY <1>1, <1>2, <1>3, IncreasingRank

\* The traces of the oldest calls are the oldest traces.
LEMMA TracesCut ==
    ASSUME NEW T, NEW S, NEW ct \in Seq(T), NEW s \in Seq(S), NEW t,
           Increasing(t, 1..Len(ct), TracedIn(s)),
           \A k \in 1..Len(ct) : ct[k] = Trace(s[t[k]].context, s[t[k]].vm),
           NEW n \in 0..Len(s), NEW c \in 0..Len(ct),
           \A k \in 1..Len(ct) : k <= c <=> t[k] <= n
    PROVE  /\ Traces(SubSeq(ct, 1, c), SubSeq(s, 1, n))
           /\ Cardinality(UpTo(TracedIn(s), n)) = c
<1> DEFINE s2 == SubSeq(s, 1, n)
           ct2 == SubSeq(ct, 1, c)
<1>1. /\ Len(ct) \in Nat /\ Len(ct2) = c /\ c \in Nat
      /\ \A i \in 1..c : ct2[i] = ct[i]
  BY Keeping
<1>2. /\ Len(s) \in Nat /\ Len(s2) = n /\ n \in Nat
      /\ \A i \in 1..n : s2[i] = s[i]
  BY Keeping
<1>3. TracedIn(s2) = UpTo(TracedIn(s), n)
  BY KeptPositions
<1> HIDE DEF s2, ct2
<1>4. /\ TracedIn(s) \in SUBSET Int
      /\ \A i \in TracedIn(s) : i \in 1..Len(s) /\ i \in Nat /\ i <= Len(s)
  BY <1>2, PositionTypes
<1>5. /\ UpTo(TracedIn(s), n) \in SUBSET TracedIn(s)
      /\ 1..c \in SUBSET (1..Len(ct)) /\ 1..Len(ct) \in SUBSET Int /\ 1..c \in SUBSET Int
  BY <1>1 DEF UpTo
<1>6. \A k \in 1..Len(ct) : t[k] \in TracedIn(s) /\ t[k] \in Nat
  BY <1>4 DEF Increasing
<1>7. \A k \in 1..Len(ct) : k \in 1..c <=> t[k] \in UpTo(TracedIn(s), n)
  BY <1>1, <1>6 DEF UpTo
<1> DEFINE u == On(t, 1..c)
<1>8. Increasing(u, 1..c, UpTo(TracedIn(s), n)) /\ \A k \in 1..c : u[k] = t[k]
  BY <1>4, <1>5, <1>7, IncreasingOn, ZenonT(60)
<1> HIDE DEF u
<1>9. ASSUME NEW k \in 1..c PROVE ct2[k] = Trace(s2[u[k]].context, s2[u[k]].vm)
  <2>1. k \in 1..Len(ct) /\ t[k] \in 1..n
    <3>1. k \in 1..Len(ct) /\ k \in Nat /\ k <= c
      BY <1>1
    <3> QED BY <1>2, <1>4, <1>6, <3>1
  <2> QED BY <1>1, <1>2, <1>8, <2>1
<1>10. Traces(ct2, s2)
  BY <1>1, <1>3, <1>8, <1>9 DEF Traces
<1>11. Cardinality(UpTo(TracedIn(s), n)) = c
  <2>1. /\ IsFiniteSet(1..c) /\ Cardinality(1..c) = c
    BY <1>1, FS_Interval
  <2>2. UpTo(TracedIn(s), n) \in SUBSET Int
    BY <1>4, <1>5
  <2> QED BY <1>5, <1>8, <2>1, <2>2, IncreasingRank
<1> QED BY <1>10, <1>11 DEF s2, ct2

LEMMA TracesKept ==
    ASSUME NEW T, NEW S, NEW ct \in Seq(T), NEW s \in Seq(S), Traces(ct, s), NEW n \in 0..Len(s)
    PROVE  \E c \in 0..Len(ct) :
              /\ c = Cardinality(UpTo(TracedIn(s), n))
              /\ Traces(SubSeq(ct, 1, c), SubSeq(s, 1, n))
<1>1. PICK t : /\ Increasing(t, 1..Len(ct), TracedIn(s))
               /\ \A k \in 1..Len(ct) : ct[k] = Trace(s[t[k]].context, s[t[k]].vm)
  BY DEF Traces
<1>2. Len(ct) \in Nat /\ Len(s) \in Nat /\ n \in Nat
  BY OnTop
<1>3. /\ TracedIn(s) \in SUBSET Int /\ 1..Len(ct) \in SUBSET Int
      /\ \A k \in 1..Len(ct) : t[k] \in Nat
  <2>1. /\ TracedIn(s) \in SUBSET Int
        /\ \A i \in TracedIn(s) : i \in Nat
    BY <1>2, PositionTypes
  <2>2. \A k \in 1..Len(ct) : t[k] \in TracedIn(s)
    BY <1>1 DEF Increasing
  <2> QED BY <1>2, <2>1, <2>2
<1>4. \A k1, k2 \in 1..Len(ct) : k1 <= k2 <=> t[k1] <= t[k2]
  BY <1>1, <1>3, IncreasingMirrors
<1> DEFINE K == {k \in 0..Len(ct) : k = 0 \/ t[k] <= n}
<1>5. 0 \in K /\ K \in SUBSET (0..Len(ct))
  BY <1>2
<1>6. PICK c \in K : \A k \in K : k <= c
  <2> HIDE DEF K
  <2> QED BY <1>2, <1>5, GreatestNumber
<1>7. c \in 0..Len(ct) /\ c \in Nat
  BY <1>2
<1>8. ASSUME NEW k \in 1..Len(ct) PROVE k <= c <=> t[k] <= n
  <2>1. k \in 0..Len(ct) /\ k \in Nat /\ k # 0
    BY <1>2
  <2>2. t[k] <= n => k <= c
    BY <1>6, <2>1
  <2>3. ASSUME k <= c PROVE t[k] <= n
    <3>1. c \in 1..Len(ct) /\ t[c] <= n
      BY <1>2, <1>6, <1>7, <2>1, <2>3
    <3>2. t[k] <= t[c]
      BY <1>4, <2>3, <3>1
    <3> QED BY <1>2, <1>3, <3>1, <3>2
  <2> QED BY <2>2, <2>3
<1> HIDE DEF K
<1>9. /\ Traces(SubSeq(ct, 1, c), SubSeq(s, 1, n))
      /\ Cardinality(UpTo(TracedIn(s), n)) = c
  BY <1>1, <1>7, <1>8, TracesCut
<1> QED BY <1>7, <1>9

\* A traced call and its trace are popped.
LEMMA TracesPopped ==
    ASSUME NEW T, NEW S, NEW ct \in Seq(T), NEW s \in Seq(S), Traces(ct, s), s # <<>>,
           ~IsLoop(Last(s)), ~IsNative(Last(s))
    PROVE  ct # <<>> /\ Traces(Front(ct), Front(s))
<1>1. /\ Len(s) \in Nat /\ Len(s) \in 1..Len(s) /\ Len(s) - 1 \in 0..Len(s) /\ Last(s) = s[Len(s)]
      /\ Len(ct) \in Nat /\ (ct = <<>> <=> Len(ct) = 0)
  BY OnTop
<1>2. PICK c \in 0..Len(ct) :
         /\ c = Cardinality(UpTo(TracedIn(s), Len(s) - 1))
         /\ Traces(SubSeq(ct, 1, c), SubSeq(s, 1, Len(s) - 1))
  BY <1>1, TracesKept
<1>3. Len(s) \in TracedIn(s)
  BY <1>1 DEF TracedIn
<1>4. /\ IsFiniteSet(TracedIn(s)) /\ \A i \in TracedIn(s) : i \in Nat /\ i <= Len(s)
      /\ Cardinality(TracedIn(s)) = Len(ct)
  BY <1>1, PositionTypes, TracesCount
<1>5. UpTo(TracedIn(s), Len(s) - 1) = TracedIn(s) \ {Len(s)}
  BY <1>1, <1>4 DEF UpTo
<1>6. c = Len(ct) - 1
  BY <1>2, <1>3, <1>4, <1>5, FS_RemoveElement
<1>7. ct # <<>>
  BY <1>1, <1>2, <1>6
<1> QED BY <1>2, <1>6, <1>7 DEF Front

-----------------------------------------------------------------------------
(* What is on top of the stacks.                                           *)

\* The newest call that is not script code has only its own script code above it.
LEMMA TopCall ==
    ASSUME NEW s \in Seq(CallSet), CallsNest(s), NEW b, Greatest(b, CallsIn(s))
    PROVE  /\ s # <<>>
           /\ b = Len(s) \/ (/\ IsLoop(s[b]) /\ IsDeltaCodeContext(Last(s))
                             /\ Last(s).vm = s[b].vm)
<1>1. Len(s) \in Nat /\ (s = <<>> <=> Len(s) = 0) /\ (s # <<>> => Last(s) = s[Len(s)])
  BY OnTop
<1>2. b \in CallsIn(s) /\ (\A x \in CallsIn(s) : x <= b) /\ b \in 1..Len(s) /\ b \in Nat
  BY <1>1, PositionTypes DEF Greatest
<1>3. s # <<>>
  BY <1>1, <1>2
<1>4. ASSUME b # Len(s)
      PROVE  IsLoop(s[b]) /\ IsDeltaCodeContext(Last(s)) /\ Last(s).vm = s[b].vm
  <2>1. Len(s) \in 1..Len(s) /\ Len(s) \notin CallsIn(s)
    BY <1>1, <1>2, <1>4
  <2>2. IsDeltaCodeContext(s[Len(s)])
    BY <2>1 DEF CallsIn
  <2>3. PICK l \in 1..Len(s) - 1 :
           /\ IsLoop(s[l]) /\ s[l].vm = s[Len(s)].vm
           /\ \A k \in l + 1..Len(s) : IsDeltaCodeContext(s[k])
    BY <1>1, <2>1, <2>2, ScriptRuns
  <2>4. l \in CallsIn(s)
    BY <1>1, <2>3 DEF CallsIn, IsLoop, IsDeltaCodeContext
  <2>5. ~IsDeltaCodeContext(s[b])
    BY <1>2 DEF CallsIn
  <2>6. l = b
    <3>1. l <= b /\ l \in Nat
      BY <1>2, <2>3, <2>4
    <3>2. b \notin l + 1..Len(s)
      BY <2>3, <2>5
    <3> QED BY <1>1, <1>2, <3>1, <3>2
  <2> QED BY <1>1, <1>3, <2>2, <2>3, <2>6
<1> QED BY <1>3, <1>4

\* Below a library function its loop is the newest such call.
LEMMA UnderLib ==
    ASSUME NEW s \in Seq(CallSet), CallsNest(s), s # <<>>, IsLib(Last(s)),
           NEW b, Greatest(b, CallsIn(s) \ {Len(s)})
    PROVE  IsLoop(s[b]) /\ Last(s).vm = s[b].vm
<1>1. Len(s) \in Nat /\ Len(s) \in 1..Len(s) /\ Last(s) = s[Len(s)]
  BY OnTop
<1>2. b \in CallsIn(s) /\ b # Len(s) /\ (\A x \in CallsIn(s) \ {Len(s)} : x <= b)
      /\ b \in 1..Len(s) /\ b \in Nat
  BY <1>1, PositionTypes DEF Greatest
<1>3. /\ Len(s) > 1 /\ Len(s) - 1 \in 1..Len(s) /\ IsDeltaCodeContext(s[Len(s) - 1])
      /\ s[Len(s) - 1].vm = Last(s).vm
  <2>1. Nests(s, Len(s))
    BY <1>1 DEF CallsNest
  <2> QED BY <1>1, <2>1 DEF Nests
<1>4. PICK l \in 1..Len(s) - 1 - 1 :
         /\ IsLoop(s[l]) /\ s[l].vm = s[Len(s) - 1].vm
         /\ \A k \in l + 1..Len(s) - 1 : IsDeltaCodeContext(s[k])
  BY <1>1, <1>3, ScriptRuns
<1>5. l \in CallsIn(s) \ {Len(s)} /\ l \in Nat
  BY <1>1, <1>4 DEF CallsIn, IsLoop, IsDeltaCodeContext
<1>6. ~IsDeltaCodeContext(s[b])
  BY <1>2 DEF CallsIn
<1>7. l = b
  <2>1. l <= b /\ b \notin l + 1..Len(s) - 1
    BY <1>2, <1>4, <1>5, <1>6
  <2> QED BY <1>1, <1>2, <1>5, <2>1
<1> QED BY <1>3, <1>4, <1>7

LEMMA NoCalls ==
    ASSUME NEW s \in Seq(CallSet), CallsNest(s), CallsIn(s) = {}
    PROVE  s = <<>>
<1>1. Len(s) \in Nat /\ (s = <<>> <=> Len(s) = 0)
  BY OnTop
<1>2. SUFFICES ASSUME s # <<>> PROVE FALSE
  OBVIOUS
<1>3. Len(s) \in 1..Len(s) /\ IsDeltaCodeContext(s[Len(s)])
  BY <1>1, <1>2 DEF CallsIn
<1>4. PICK l \in 1..Len(s) - 1 : IsLoop(s[l])
  BY <1>1, <1>3, ScriptRuns
<1>5. l \in CallsIn(s)
  BY <1>1, <1>4 DEF CallsIn, IsLoop, IsDeltaCodeContext
<1> QED BY <1>5

\* What unwinding expects.
LEMMA UnwindingFacts ==
    ASSUME IInv, isUnwinding
    PROVE  cpp # <<>> /\ Last(cpp).valid /\ callStack # <<>> /\ HandlersIn(callStack) # {}
<1>1. /\ Len(cpp) \in Nat /\ (cpp = <<>> <=> Len(cpp) = 0)
      /\ cpp # <<>> => Len(cpp) \in 1..Len(cpp) /\ Last(cpp) = cpp[Len(cpp)]
      /\ Len(callStack) \in Nat /\ (callStack = <<>> <=> Len(callStack) = 0)
  BY OnTop DEF IInv, TypeInv
<1>2. PICK i : i \in HandlersIn(callStack)
  BY DEF IInv, ControlInv
<1>3. i \in 1..Len(callStack) /\ callStack # <<>>
  BY <1>1, <1>2 DEF HandlersIn
<1> DEFINE A == IF LibGone THEN LiveIn(cpp) \ {Len(cpp)} ELSE LiveIn(cpp)
           B == IF LibLeft THEN CallsIn(callStack) \ {Len(callStack)} ELSE CallsIn(callStack)
<1>4. PICK m : Agrees(m, A, B, callStack, cpp)
  BY DEF IInv, MatchInv, Matches
<1>5. A \subseteq 1..Len(cpp)
  BY DEF LiveIn
<1>6. cpp # <<>>
  <2>1. SUFFICES ASSUME cpp = <<>> PROVE FALSE
    OBVIOUS
  <2>2. A = {}
    BY <1>1, <1>5, <2>1
  <2>3. B = {}
    BY <1>4, <2>2 DEF Agrees, Increasing
  <2>4. ~LibLeft
    BY <2>1 DEF LibLeft, Top
  <2>5. callStack = <<>>
    BY <2>3, <2>4, NoCalls DEF IInv, TypeInv
  <2> QED BY <1>3, <2>5
<1>7. Last(cpp).valid
  <2>1. SUFFICES ASSUME ~Last(cpp).valid PROVE FALSE
    OBVIOUS
  <2>2. Len(cpp) \in 1..Len(cpp) /\ ~cpp[Len(cpp)].valid
    BY <1>1, <1>6, <2>1
  <2>3. PICK k \in A : k > Len(cpp)
    BY <1>2, <1>4, <2>2 DEF Agrees
  <2> QED BY <1>1, <1>5, <2>3
<1> QED BY <1>2, <1>3, <1>6, <1>7

\* The positions that MatchInv relates.
MatchedFrames == IF LibGone THEN LiveIn(cpp) \ {Len(cpp)} ELSE LiveIn(cpp)
MatchedCalls ==
    IF LibLeft THEN CallsIn(callStack) \ {Len(callStack)} ELSE CallsIn(callStack)

LEMMA MatchedTypes ==
    ASSUME TypeInv
    PROVE  /\ MatchedFrames \in SUBSET Int /\ MatchedCalls \in SUBSET Int
           /\ \A j \in MatchedFrames : j \in 1..Len(cpp) /\ j \in Nat /\ j <= Len(cpp)
           /\ \A i \in MatchedCalls : i \in 1..Len(callStack) /\ i \in Nat /\ i <= Len(callStack)
           /\ LiveIn(cpp) \in SUBSET Int /\ CallsIn(callStack) \in SUBSET Int
<1>1. Len(cpp) \in Nat /\ Len(callStack) \in Nat
  BY OnTop DEF TypeInv
<1>2. /\ LiveIn(cpp) \in SUBSET Int
      /\ \A j \in LiveIn(cpp) : j \in 1..Len(cpp) /\ j \in Nat /\ j <= Len(cpp)
  BY <1>1, LivePositions
<1>3. /\ CallsIn(callStack) \in SUBSET Int
      /\ \A i \in CallsIn(callStack) : i \in 1..Len(callStack) /\ i \in Nat /\ i <= Len(callStack)
  BY <1>1, PositionTypes
<1> QED BY <1>2, <1>3 DEF MatchedFrames, MatchedCalls

\* The newest C++ call, if it did not fail, and the newest calls.
LEMMA LoopFacts ==
    ASSUME IInv, Top("loop"), Last(cpp).valid
    PROVE  /\ callStack # <<>> /\ Last(callStack).vm = Last(cpp).vm /\ Last(cpp).vm \in VMs
           /\ ~isUnwinding => LoopOnTop \/ ScriptOnTop(Last(cpp).vm)
           /\ isUnwinding => LoopOnTop \/ ScriptOnTop(Last(cpp).vm) \/ IsLib(Last(callStack))
           /\ Greatest(Len(cpp), LiveIn(cpp)) /\ MatchedFrames = LiveIn(cpp)
<1>1. /\ Len(cpp) \in Nat /\ Len(cpp) \in 1..Len(cpp) /\ Last(cpp) = cpp[Len(cpp)]
      /\ Last(cpp) \in FrameSet
      /\ callStack \in Seq(CallSet) /\ CallsNest(callStack)
  BY OnTop DEF IInv, TypeInv, Top
<1>2. Last(cpp).vm \in VMs
  BY <1>1, FrameFacts DEF Top
<1>3. MatchedFrames = LiveIn(cpp)
  BY DEF MatchedFrames, LibGone, Top
<1>4. Greatest(Len(cpp), LiveIn(cpp))
  BY <1>1, LivePositions DEF Greatest, LiveIn, Top
<1>5. Matches(LiveIn(cpp), MatchedCalls, callStack, cpp)
  BY <1>3 DEF IInv, MatchInv, MatchedFrames, MatchedCalls
<1>6. PICK b : /\ Greatest(b, MatchedCalls) /\ callStack[b].vm = cpp[Len(cpp)].vm
               /\ callStack[b].context = ContextOf(cpp[Len(cpp)].what)
  <2>1. LiveIn(cpp) \in SUBSET Int /\ MatchedCalls \in SUBSET Int
    BY MatchedTypes DEF IInv
  <2> QED BY <1>4, <1>5, <2>1, MatchesTop
<1>7. IsLoop(callStack[b]) /\ callStack[b].vm = Last(cpp).vm
  BY <1>1, <1>6 DEF Top, ContextOf, IsLoop
<1>8. CASE LibLeft
  <2>1. isUnwinding /\ IsLib(Last(callStack))
    BY <1>8 DEF LibLeft
  <2>2. callStack # <<>>
    BY <2>1, UnwindingFacts
  <2>3. Greatest(b, CallsIn(callStack) \ {Len(callStack)})
    BY <1>6, <1>8 DEF MatchedCalls
  <2>4. Last(callStack).vm = callStack[b].vm
    BY <1>1, <2>1, <2>2, <2>3, UnderLib
  <2> QED BY <1>2, <1>3, <1>4, <1>7, <2>1, <2>2, <2>4
<1>9. CASE ~LibLeft
  <2>1. Greatest(b, CallsIn(callStack))
    BY <1>6, <1>9 DEF MatchedCalls
  <2>2. /\ callStack # <<>>
        /\ b = Len(callStack) \/ (/\ IsDeltaCodeContext(Last(callStack))
                                  /\ Last(callStack).vm = callStack[b].vm)
    BY <1>1, <2>1, TopCall
  <2>3. b = Len(callStack) => Last(callStack) = callStack[b]
    BY <1>1, <2>2, OnTop
  <2>4. Last(callStack).vm = Last(cpp).vm /\ (LoopOnTop \/ ScriptOnTop(Last(cpp).vm))
    BY <1>7, <2>2, <2>3 DEF LoopOnTop, ScriptOnTop
  <2> QED BY <1>2, <1>3, <1>4, <2>2, <2>4
<1> QED BY <1>8, <1>9

LEMMA NativeFacts ==
    ASSUME IInv, Top("lib") \/ Top("try"), Last(cpp).valid, ~LibGone
    PROVE  /\ callStack # <<>> /\ Last(callStack).vm = Last(cpp).vm
           /\ Top("lib") => IsLib(Last(callStack)) /\ Last(callStack).ret = "code"
           /\ Top("try") => IsNative(Last(callStack))
           /\ Greatest(Len(cpp), LiveIn(cpp)) /\ MatchedFrames = LiveIn(cpp)
           /\ Greatest(Len(callStack), CallsIn(callStack)) /\ MatchedCalls = CallsIn(callStack)
<1>1. /\ Len(cpp) \in Nat /\ Len(cpp) \in 1..Len(cpp) /\ Last(cpp) = cpp[Len(cpp)]
      /\ callStack \in Seq(CallSet) /\ CallsNest(callStack)
  BY OnTop DEF IInv, TypeInv, Top
<1>2. MatchedFrames = LiveIn(cpp)
  BY DEF MatchedFrames
<1>3. MatchedCalls = CallsIn(callStack)
  BY DEF MatchedCalls, LibLeft, Top
<1>4. Greatest(Len(cpp), LiveIn(cpp))
  BY <1>1, LivePositions DEF Greatest, LiveIn, Top
<1>5. Matches(LiveIn(cpp), CallsIn(callStack), callStack, cpp)
  BY <1>2, <1>3 DEF IInv, MatchInv, MatchedFrames, MatchedCalls
<1>6. PICK b : /\ Greatest(b, CallsIn(callStack)) /\ callStack[b].vm = cpp[Len(cpp)].vm
               /\ callStack[b].context = ContextOf(cpp[Len(cpp)].what)
  <2>1. LiveIn(cpp) \in SUBSET Int /\ CallsIn(callStack) \in SUBSET Int
    BY MatchedTypes DEF IInv
  <2> QED BY <1>4, <1>5, <2>1, MatchesTop
<1>7. ~IsLoop(callStack[b])
  BY <1>1, <1>6 DEF Top, ContextOf, IsLoop
<1>8. callStack # <<>> /\ b = Len(callStack)
  BY <1>1, <1>6, <1>7, TopCall
<1>9. Last(callStack) = callStack[b] /\ Len(callStack) \in 1..Len(callStack)
  BY <1>1, <1>8, OnTop
<1>10. /\ Top("lib") => IsLib(Last(callStack))
       /\ Top("try") => IsNative(Last(callStack))
  BY <1>1, <1>6, <1>9 DEF Top, ContextOf, IsLib, IsNative
<1>11. Top("lib") => Last(callStack).ret = "code"
  <2>1. Nests(callStack, Len(callStack))
    BY <1>1, <1>9 DEF CallsNest
  <2> QED BY <1>8, <1>9, <1>10, <2>1 DEF Nests
<1> QED BY <1>1, <1>2, <1>3, <1>4, <1>6, <1>8, <1>9, <1>10, <1>11

LEMMA CrossFacts ==
    ASSUME IInv, Top("cross"), Last(cpp).valid
    PROVE  /\ ScriptOnTop(Last(cpp).vm) /\ Last(cpp).vm \in VMs
           /\ MatchedFrames = LiveIn(cpp) /\ MatchedCalls = CallsIn(callStack)
<1> DEFINE n == Len(cpp) - 1
           v == Last(cpp).vm
<1>1. /\ Len(cpp) \in Nat /\ Len(cpp) \in 1..Len(cpp) /\ Last(cpp) = cpp[Len(cpp)]
      /\ Last(cpp) \in FrameSet
      /\ callStack \in Seq(CallSet) /\ CallsNest(callStack)
      /\ \A j \in 1..Len(cpp) : cpp[j] \in FrameSet
  BY OnTop DEF IInv, TypeInv, Top
<1>2. MatchedFrames = LiveIn(cpp) /\ MatchedCalls = CallsIn(callStack)
  BY DEF MatchedFrames, MatchedCalls, LibLeft, LibGone, Top
<1>3. v \in VMs /\ v # NoVM
  BY <1>1, FrameFacts, NoVMAssumption DEF Top
<1>4. n \in 1..Len(cpp) /\ cpp[n].what = "loop" /\ cpp[n].vm = v
  <2>1. FrameNests(cpp, Len(cpp))
    BY <1>1 DEF IInv, FramesNest
  <2> QED BY <1>1, <2>1 DEF FrameNests, Top
<1>5. cpp[n].valid
  <2>1. /\ cpp[n].vm # NoVM => (cpp[n].valid <=> ~error[cpp[n].vm])
        /\ cpp[Len(cpp)].vm # NoVM => (cpp[Len(cpp)].valid <=> ~error[cpp[Len(cpp)].vm])
    BY <1>1, <1>4 DEF IInv, ErrorInv
  <2> QED BY <1>1, <1>3, <1>4, <2>1
<1>6. Greatest(n, LiveIn(cpp))
  <2>1. n \in LiveIn(cpp) /\ Len(cpp) \notin LiveIn(cpp)
    BY <1>1, <1>4, <1>5 DEF LiveIn, Top
  <2>2. \A j \in LiveIn(cpp) : j \in Nat /\ j <= Len(cpp)
    BY <1>1, LivePositions
  <2>3. \A j \in LiveIn(cpp) : j <= n
    BY <1>1, <2>1, <2>2
  <2> QED BY <2>1, <2>3 DEF Greatest
<1> HIDE DEF n
<1>7. Matches(LiveIn(cpp), CallsIn(callStack), callStack, cpp)
  BY <1>2 DEF IInv, MatchInv, MatchedFrames, MatchedCalls
<1>8. PICK b : /\ Greatest(b, CallsIn(callStack)) /\ callStack[b].vm = cpp[n].vm
               /\ callStack[b].context = ContextOf(cpp[n].what)
  <2>1. LiveIn(cpp) \in SUBSET Int /\ CallsIn(callStack) \in SUBSET Int
    BY MatchedTypes DEF IInv
  <2> QED BY <1>6, <1>7, <2>1, MatchesTop
<1>9. IsLoop(callStack[b]) /\ callStack[b].vm = v
  BY <1>4, <1>8 DEF ContextOf, IsLoop
<1>10. ~LoopOnTop
  BY DEF IInv, ControlInv, Top
<1>11. /\ callStack # <<>>
       /\ b = Len(callStack) \/ (/\ IsDeltaCodeContext(Last(callStack))
                                 /\ Last(callStack).vm = callStack[b].vm)
  BY <1>1, <1>8, TopCall
<1>12. b # Len(callStack)
  BY <1>1, <1>9, <1>10, <1>11, OnTop DEF LoopOnTop
<1> QED BY <1>2, <1>3, <1>9, <1>11, <1>12 DEF ScriptOnTop

LEMMA HostFacts ==
    ASSUME IInv, cpp = <<>>
    PROVE  callStack = <<>> /\ ~isUnwinding
<1>1. ~isUnwinding
  BY UnwindingFacts
<1>2. MatchedFrames = LiveIn(cpp) /\ MatchedCalls = CallsIn(callStack)
  BY DEF MatchedFrames, MatchedCalls, LibLeft, LibGone, Top
<1>3. Matches(LiveIn(cpp), CallsIn(callStack), callStack, cpp)
  BY <1>2 DEF IInv, MatchInv, MatchedFrames, MatchedCalls
<1>4. LiveIn(cpp) = {}
  <2>1. Len(cpp) = 0
    BY OnTop DEF IInv, TypeInv
  <2> QED BY <2>1 DEF LiveIn
<1>5. CallsIn(callStack) = {}
  BY <1>3, <1>4, MatchesNone
<1>6. callStack = <<>>
  BY <1>5, NoCalls DEF IInv, TypeInv
<1> QED BY <1>1, <1>6
-----------------------------------------------------------------------------
TraceSet == [context : Contexts, vm : VMs]

\* What left a program is not forgotten.
StillLeft == leftProgram => leftProgram'

\* What the invariant says of the stacks on their own.
FramesExpire(f, e) == \A j \in 1..Len(f) : f[j].vm # NoVM => (f[j].valid <=> ~e[f[j].vm])
CallsOfOthers(s, e) == \A i \in 1..Len(s) : s[i].vm # NoVM => ~e[s[i].vm]
Stacks(s, f, ct, n, e) ==
    /\ s \in Seq(CallSet) /\ CallsNest(s)
    /\ f \in Seq(FrameSet) /\ FramesNest(f)
    /\ ct \in Seq(TraceSet) /\ (leftProgram' \/ Traces(ct, s))
    /\ n = Cardinality(NativesIn(s))
    /\ e \in [VMs -> BOOLEAN] /\ FramesExpire(f, e) /\ CallsOfOthers(s, e)

Others ==
    /\ isUnwinding \in BOOLEAN /\ shouldUnwind \in BOOLEAN
    /\ pc \in [VMs -> Counters] /\ checker \in [VMs -> BOOLEAN]
    /\ \A v \in VMs : pc[v] = "idle" => ~error[v]

StacksNow == Stacks(callStack, cpp, callTraces, expectedNativeTrapDisableCalls, error)

LEMMA Apart ==
    ASSUME IInv, StillLeft
    PROVE  StacksNow /\ Others /\ Matches(MatchedFrames, MatchedCalls, callStack, cpp) /\ ControlInv
BY DEF IInv, TypeInv, ErrorInv, NativeInv, MatchInv, TraceInv, StillLeft, MatchedFrames, MatchedCalls,
       StacksNow, Stacks, Others, TraceSet, FramesExpire, CallsOfOthers

LEMMA Together ==
    ASSUME Stacks(callStack', cpp', callTraces', expectedNativeTrapDisableCalls', error'), Others',
           Matches(MatchedFrames', MatchedCalls', callStack', cpp'), ControlInv'
    PROVE  IInv'
BY DEF IInv, TypeInv, ErrorInv, NativeInv, MatchInv, TraceInv, MatchedFrames, MatchedCalls,
       Stacks, Others, TraceSet, FramesExpire, CallsOfOthers

-----------------------------------------------------------------------------
(* The stacks on their own.                                                *)

LEMMA StacksPhased ==
    ASSUME NEW s, NEW f, NEW ct, NEW n, NEW e, Stacks(s, f, ct, n, e),
           f # <<>>, Last(f).what = "loop", NEW p \in Phases,
           p \in {"exec", "unwound"} => Last(f).valid
    PROVE  Stacks(s, [f EXCEPT ![Len(f)].phase = p], ct, n, e)
<1> DEFINE t == [f EXCEPT ![Len(f)].phase = p]
<1>0. f \in Seq(FrameSet) /\ FramesNest(f)
  BY DEF Stacks
<1>1. /\ t \in Seq(FrameSet) /\ FramesNest(t) /\ Len(t) = Len(f)
      /\ \A j \in 1..Len(f) : t[j].vm = f[j].vm /\ t[j].valid = f[j].valid
  BY <1>0, FramePhased, SMTT(30)
<1> HIDE DEF t
<1>2. FramesExpire(t, e)
  BY <1>1 DEF Stacks, FramesExpire
<1>3. Stacks(s, t, ct, n, e)
  BY <1>1, <1>2 DEF Stacks
<1> QED BY <1>3 DEF t

LEMMA StacksFramePushed ==
    ASSUME NEW s, NEW f, NEW ct, NEW n, NEW e, Stacks(s, f, ct, n, e), NEW g \in FrameSet,
           f # <<>> /\ Last(f).what = "loop" => Last(f).phase = "check",
           g.what \in {"lib", "cross"} => f # <<>> /\ Last(f).what = "loop" /\ Last(f).vm = g.vm,
           g.what = "loop" => f = <<>> \/ Last(f).what # "loop",
           g.what = "try" => f = <<>> \/ Last(f).what \in {"lib", "try"},
           g.vm # NoVM => (g.valid <=> ~e[g.vm])
    PROVE  Stacks(s, Append(f, g), ct, n, e)
<1> DEFINE t == Append(f, g)
<1>1. f \in Seq(FrameSet) /\ FramesNest(f)
  BY DEF Stacks
<1>2. FramesNest(t)
  BY <1>1, FramePushed
<1>3. /\ t \in Seq(FrameSet) /\ Len(f) \in Nat /\ Len(t) = Len(f) + 1
      /\ \A i \in 1..Len(f) : t[i] = f[i]
      /\ t[Len(f) + 1] = g
  BY <1>1, Pushing
<1> HIDE DEF t
<1>4. FramesExpire(t, e)
  <2>1. \A j \in 1..Len(t) : j \in 1..Len(f) \/ j = Len(f) + 1
    BY <1>3
  <2> QED BY <1>3, <2>1 DEF Stacks, FramesExpire
<1>5. Stacks(s, t, ct, n, e)
  BY <1>2, <1>3, <1>4 DEF Stacks
<1> QED BY <1>5 DEF t

LEMMA StacksFramePopped ==
    ASSUME NEW s, NEW f, NEW ct, NEW n, NEW e, Stacks(s, f, ct, n, e), f # <<>>
    PROVE  Stacks(s, Front(f), ct, n, e)
<1> DEFINE t == Front(f)
<1>1. /\ t \in Seq(FrameSet) /\ FramesNest(t) /\ Len(f) \in Nat \ {0} /\ Len(t) = Len(f) - 1
      /\ \A j \in 1..Len(t) : t[j] = f[j]
  BY FramePopped DEF Stacks
<1> HIDE DEF t
<1>2. FramesExpire(t, e)
  <2>1. \A j \in 1..Len(t) : j \in 1..Len(f)
    BY <1>1
  <2> QED BY <1>1, <2>1 DEF Stacks, FramesExpire
<1>3. Stacks(s, t, ct, n, e)
  BY <1>1, <1>2 DEF Stacks
<1> QED BY <1>3 DEF t

LEMMA StacksPushed ==
    ASSUME NEW s, NEW f, NEW ct, NEW n, NEW e, Stacks(s, f, ct, n, e),
           NEW c \in CallSet, MayPush(s, c), c.vm # NoVM => ~e[c.vm]
    PROVE  Stacks(Append(s, c), f,
                  IF IsLoop(c) \/ IsNative(c) THEN ct ELSE Append(ct, Trace(c.context, c.vm)),
                  IF IsNative(c) THEN n + 1 ELSE n, e)
<1> DEFINE t == Append(s, c)
           ct2 == IF IsLoop(c) \/ IsNative(c) THEN ct ELSE Append(ct, Trace(c.context, c.vm))
           n2 == IF IsNative(c) THEN n + 1 ELSE n
<1>1. s \in Seq(CallSet) /\ CallsNest(s) /\ ct \in Seq(TraceSet) /\ n = Cardinality(NativesIn(s))
  BY DEF Stacks
<1>2. /\ t \in Seq(CallSet) /\ Len(s) \in Nat /\ Len(t) = Len(s) + 1
      /\ \A i \in 1..Len(s) : t[i] = s[i]
      /\ t[Len(s) + 1] = c
  BY <1>1, Pushing
<1>3. CallsNest(t)
  BY <1>1, NestPushed
<1>4. CallsOfOthers(t, e)
  <2>1. \A j \in 1..Len(t) : j \in 1..Len(s) \/ j = Len(s) + 1
    BY <1>2
  <2> QED BY <1>2, <2>1 DEF Stacks, CallsOfOthers
<1>5. ~IsLoop(c) /\ ~IsNative(c) => Trace(c.context, c.vm) \in TraceSet
  BY DEF CallSet, Trace, TraceSet
<1>6. ct2 \in Seq(TraceSet)
  BY <1>1, <1>5, Pushing
<1>7. /\ NativesIn(t) = NativesIn(s) \cup IF IsNative(c) THEN {Len(s) + 1} ELSE {}
      /\ TracedIn(t) = TracedIn(s) \cup IF IsLoop(c) \/ IsNative(c) THEN {} ELSE {Len(s) + 1}
  BY <1>1, PushedPositions
<1>8. n2 = Cardinality(NativesIn(t))
  <2>1. IsFiniteSet(NativesIn(s)) /\ Len(s) + 1 \notin NativesIn(s)
    BY <1>2, PositionTypes DEF NativesIn
  <2> QED BY <1>1, <1>7, <2>1, FS_AddElement
<1>9. leftProgram' \/ Traces(ct2, t)
  <2>1. CASE IsLoop(c) \/ IsNative(c)
    <3>1. \A i \in TracedIn(s) : t[i] = s[i]
      BY <1>2, PositionTypes
    <3>2. TracedIn(t) = TracedIn(s) /\ ct2 = ct
      BY <1>7, <2>1
    <3> HIDE DEF t, ct2
    <3> QED BY <3>1, <3>2, TracesSame DEF Stacks
  <2>2. CASE ~IsLoop(c) /\ ~IsNative(c)
    <3>1. ct2 = Append(ct, Trace(c.context, c.vm))
      BY <2>2
    <3> QED BY <1>1, <1>5, <2>2, <3>1, TracesPushed DEF Stacks
  <2> QED BY <2>1, <2>2
<1> HIDE DEF t, ct2, n2
<1>10. Stacks(t, f, ct2, n2, e)
  BY <1>2, <1>3, <1>4, <1>6, <1>8, <1>9 DEF Stacks
<1> QED BY <1>10 DEF t, ct2, n2

\* The calls above the k-th are cut off, with their traces.
LEMMA StacksCut ==
    ASSUME NEW s, NEW f, NEW ct, NEW n, NEW e, Stacks(s, f, ct, n, e), NEW k \in 0..Len(s),
           NEW ct2 \in Seq(TraceSet), leftProgram' \/ Traces(ct2, SubSeq(s, 1, k)),
           NEW n2, n2 = Cardinality(UpTo(NativesIn(s), k))
    PROVE  Stacks(SubSeq(s, 1, k), f, ct2, n2, e)
<1> DEFINE t == SubSeq(s, 1, k)
<1>1. s \in Seq(CallSet) /\ CallsNest(s)
  BY DEF Stacks
<1>2. /\ t \in Seq(CallSet) /\ Len(s) \in Nat /\ k \in Nat /\ Len(t) = k
      /\ \A i \in 1..k : t[i] = s[i]
  BY <1>1, Keeping
<1>3. CallsNest(t)
  BY <1>1, NestKept
<1>4. NativesIn(t) = UpTo(NativesIn(s), k)
  BY <1>1, KeptPositions
<1> HIDE DEF t
<1>5. CallsOfOthers(t, e)
  <2>1. \A i \in 1..Len(t) : i \in 1..Len(s)
    BY <1>2
  <2> QED BY <1>2, <2>1 DEF Stacks, CallsOfOthers
<1>6. Stacks(t, f, ct2, n2, e)
  BY <1>2, <1>3, <1>4, <1>5 DEF Stacks, t
<1> QED BY <1>6 DEF t

LEMMA StacksPopped ==
    ASSUME NEW s, NEW f, NEW ct, NEW n, NEW e, Stacks(s, f, ct, n, e), s # <<>>
    PROVE  Stacks(Front(s), f,
                  IF IsLoop(Last(s)) \/ IsNative(Last(s)) THEN ct ELSE Front(ct),
                  IF IsNative(Last(s)) THEN n - 1 ELSE n, e)
<1> DEFINE k == Len(s) - 1
           t == Front(s)
           ct2 == IF IsLoop(Last(s)) \/ IsNative(Last(s)) THEN ct ELSE Front(ct)
           n2 == IF IsNative(Last(s)) THEN n - 1 ELSE n
<1>1. s \in Seq(CallSet) /\ CallsNest(s) /\ ct \in Seq(TraceSet) /\ n = Cardinality(NativesIn(s))
  BY DEF Stacks
<1>2. /\ k \in 0..Len(s) /\ t = SubSeq(s, 1, k) /\ Len(s) \in Nat \ {0}
      /\ Last(s) = s[Len(s)] /\ Len(s) \in 1..Len(s)
  BY <1>1, Popping, OnTop
<1>3. ct2 \in Seq(TraceSet)
  <2>1. ct # <<>> => Front(ct) \in Seq(TraceSet)
    BY <1>1, Popping
  <2>2. ct = <<>> => Front(ct) = <<>>
    BY DEF Front
  <2>3. <<>> \in Seq(TraceSet)
    OBVIOUS
  <2> QED BY <1>1, <2>1, <2>2, <2>3
<1>4. n2 = Cardinality(UpTo(NativesIn(s), k))
  <2>1. IsFiniteSet(NativesIn(s)) /\ Len(s) \in Nat
    BY <1>2, PositionTypes
  <2>2. \A i \in NativesIn(s) : i \in Nat /\ i <= Len(s)
    BY <1>2 DEF NativesIn
  <2>3. Len(s) \in NativesIn(s) <=> IsNative(Last(s))
    BY <1>2 DEF NativesIn
  <2>4. UpTo(NativesIn(s), k) = NativesIn(s) \ {Len(s)}
    BY <1>2, <2>2 DEF UpTo
  <2>5. /\ Len(s) \in NativesIn(s) => Cardinality(NativesIn(s) \ {Len(s)}) = n - 1
        /\ Len(s) \notin NativesIn(s) => NativesIn(s) \ {Len(s)} = NativesIn(s)
    BY <1>1, <2>1, FS_RemoveElement
  <2> QED BY <1>1, <2>3, <2>4, <2>5
<1>5. leftProgram' \/ Traces(ct2, t)
  <2>1. SUFFICES ASSUME Traces(ct, s) PROVE Traces(ct2, t)
    BY DEF Stacks
  <2>2. CASE IsLoop(Last(s)) \/ IsNative(Last(s))
    <3>1. TracedIn(t) = UpTo(TracedIn(s), k)
      BY <1>1, <1>2, KeptPositions
    <3>2. \A i \in TracedIn(s) : i \in Nat /\ i <= Len(s)
      BY <1>2, PositionTypes
    <3>3. Len(s) \notin TracedIn(s)
      BY <1>2, <2>2 DEF TracedIn
    <3>4. TracedIn(t) = TracedIn(s) /\ \A i \in TracedIn(s) : i \in 1..k
      <4>1. \A i \in TracedIn(s) : i \in 1..Len(s) /\ i # Len(s)
        BY <1>2, <3>3, PositionTypes
      <4>2. \A i \in TracedIn(s) : i \in 1..k
        BY <1>2, <4>1
      <4>3. \A i \in TracedIn(s) : i <= k
        BY <1>2, <4>2
      <4>4. UpTo(TracedIn(s), k) = TracedIn(s)
        BY <4>3 DEF UpTo
      <4> QED BY <3>1, <4>2, <4>4
    <3>5. \A i \in 1..k : t[i] = s[i]
      BY <1>1, <1>2, Keeping
    <3>6. ct2 = ct
      BY <2>2
    <3> HIDE DEF t, k, ct2
    <3> QED BY <2>1, <3>4, <3>5, <3>6, TracesSame
  <2>3. CASE ~IsLoop(Last(s)) /\ ~IsNative(Last(s))
    <3>1. ct2 = Front(ct)
      BY <2>3
    <3> QED BY <1>1, <2>1, <2>3, <3>1, TracesPopped
  <2> QED BY <2>2, <2>3
<1> HIDE DEF t, k, ct2, n2
<1>6. Stacks(t, f, ct2, n2, e)
  BY <1>2, <1>3, <1>4, <1>5, StacksCut
<1> QED BY <1>6 DEF t, ct2, n2

\* Another number of trap blocks on top.
LEMMA StacksTrapped ==
    ASSUME NEW s, NEW f, NEW ct, NEW n, NEW e, Stacks(s, f, ct, n, e),
           s # <<>>, IsDeltaCodeContext(Last(s)), NEW k \in 0..MaxTraps
    PROVE  LET t == [s EXCEPT ![Len(s)].traps = k]
           IN  /\ Stacks(t, f, ct, n, e) /\ CallsIn(t) = CallsIn(s) /\ Len(t) = Len(s)
               /\ t # <<>> /\ IsDeltaCodeContext(Last(t)) /\ Last(t).context = Last(s).context
               /\ Last(t).vm = Last(s).vm /\ Last(t).traps = k
               /\ \A i \in 1..Len(s) : t[i].vm = s[i].vm /\ t[i].context = s[i].context
               /\ \A i \in HandlersIn(t) : i \in HandlersIn(s) \/ i = Len(s)
<1> DEFINE c == [Last(s) EXCEPT !.traps = k]
           t == [s EXCEPT ![Len(s)].traps = k]
<1>1. /\ s \in Seq(CallSet) /\ CallsNest(s) /\ Len(s) \in Nat /\ Len(s) \in 1..Len(s)
      /\ Last(s) = s[Len(s)] /\ Last(s) \in CallSet
  BY OnTop DEF Stacks
<1>2. /\ c \in CallSet /\ c.context = Last(s).context /\ c.vm = Last(s).vm /\ c.ret = Last(s).ret
      /\ c.traps = k
  BY <1>1 DEF CallSet, IsNative, IsDeltaCodeContext
<1>3. t = [s EXCEPT ![Len(s)] = c]
  BY <1>1
<1> HIDE DEF c
<1>4. /\ t \in Seq(CallSet) /\ Len(t) = Len(s) /\ t # <<>> /\ Last(t) = c /\ t[Len(s)] = c
      /\ \A i \in 1..Len(s) : i # Len(s) => t[i] = s[i]
  <2>1. s \in Seq(CallSet) /\ s # <<>> /\ c \in CallSet
    BY <1>1, <1>2
  <2> QED BY <1>3, <2>1, ChangingTop, SMTT(30)
<1> HIDE DEF t
<1>5. \A i \in 1..Len(s) : /\ t[i].context = s[i].context /\ t[i].vm = s[i].vm
                           /\ t[i].ret = s[i].ret
  BY <1>1, <1>2, <1>4
<1>6. CallsIn(t) = CallsIn(s) /\ TracedIn(t) = TracedIn(s) /\ NativesIn(t) = NativesIn(s)
  BY <1>4, <1>5, TrappedPositions
<1>7. CallsNest(t)
  BY <1>1, <1>4, <1>5, NestTrapped
<1>8. CallsOfOthers(t, e)
  BY <1>4, <1>5 DEF Stacks, CallsOfOthers
<1>9. leftProgram' \/ Traces(ct, t)
  <2>1. \A i \in TracedIn(s) : t[i].vm = s[i].vm /\ t[i].context = s[i].context
    BY <1>1, <1>5, PositionTypes
  <2> QED BY <1>6, <2>1, TracesSame DEF Stacks
<1>10. Stacks(t, f, ct, n, e)
  BY <1>4, <1>6, <1>7, <1>8, <1>9 DEF Stacks
<1>11. \A i \in HandlersIn(t) : i \in HandlersIn(s) \/ i = Len(s)
  BY <1>4 DEF HandlersIn
<1>12. IsDeltaCodeContext(Last(t)) /\ Last(t).context = Last(s).context
       /\ Last(t).vm = Last(s).vm /\ Last(t).traps = k
  BY <1>2, <1>4 DEF IsDeltaCodeContext
<1> QED BY <1>4, <1>5, <1>6, <1>10, <1>11, <1>12 DEF t

-----------------------------------------------------------------------------
(* The stacks in step.                                                     *)

InStep(s, f, ct, n, e) == Stacks(s, f, ct, n, e) /\ Matches(LiveIn(f), CallsIn(s), s, f)

LEMMA Positions ==
    ASSUME NEW s, NEW f, NEW ct, NEW n, NEW e, Stacks(s, f, ct, n, e)
    PROVE  /\ Len(s) \in Nat /\ Len(f) \in Nat
           /\ LiveIn(f) \in SUBSET Int /\ CallsIn(s) \in SUBSET Int
           /\ \A j \in LiveIn(f) : j \in 1..Len(f) /\ j \in Nat /\ j <= Len(f)
           /\ \A i \in CallsIn(s) : i \in 1..Len(s) /\ i \in Nat /\ i <= Len(s)
           /\ \A i \in HandlersIn(s) : i \in 1..Len(s) /\ i \in Nat /\ i <= Len(s)
<1>1. Len(s) \in Nat /\ Len(f) \in Nat
  BY OnTop DEF Stacks
<1>2. /\ LiveIn(f) \in SUBSET Int
      /\ \A j \in LiveIn(f) : j \in 1..Len(f) /\ j \in Nat /\ j <= Len(f)
  BY <1>1, LivePositions
<1>3. /\ CallsIn(s) \in SUBSET Int
      /\ \A i \in CallsIn(s) : i \in 1..Len(s) /\ i \in Nat /\ i <= Len(s)
      /\ \A i \in HandlersIn(s) : i \in 1..Len(s) /\ i \in Nat /\ i <= Len(s)
  BY <1>1, PositionTypes
<1> QED BY <1>1, <1>2, <1>3

LEMMA SameFrames ==
    ASSUME NEW A \in SUBSET Int, NEW B \in SUBSET Int, NEW s, NEW f, NEW f2, Matches(A, B, s, f),
           SameFramesAt(A, f, f2), NoneExpired(f, f2)
    PROVE  Matches(A, B, s, f2)
<1>1. SameCallsAt(B, s, s) /\ OldHandlers(s, s)
  BY DEF SameCallsAt, OldHandlers
<1> QED BY <1>1, MatchesSame, OldHandlersInReach

LEMMA SameCallStack ==
    ASSUME NEW A \in SUBSET Int, NEW B \in SUBSET Int, NEW s, NEW f, NEW s2, Matches(A, B, s, f),
           SameCallsAt(B, s, s2), OldHandlers(s, s2), Len(f) \in Nat
    PROVE  Matches(A, B, s2, f)
<1>1. SameFramesAt(A, f, f) /\ NoneExpired(f, f)
  BY DEF SameFramesAt, NoneExpired
<1> QED BY <1>1, MatchesSame, OldHandlersInReach

LEMMA InStepPhased ==
    ASSUME NEW s, NEW f, NEW ct, NEW n, NEW e, InStep(s, f, ct, n, e),
           f # <<>>, Last(f).what = "loop", NEW p \in Phases,
           p \in {"exec", "unwound"} => Last(f).valid
    PROVE  InStep(s, [f EXCEPT ![Len(f)].phase = p], ct, n, e)
<1> DEFINE t == [f EXCEPT ![Len(f)].phase = p]
<1>1. Stacks(s, f, ct, n, e) /\ f \in Seq(FrameSet) /\ FramesNest(f)
  BY DEF InStep, Stacks
<1>2. /\ Len(t) = Len(f) /\ LiveIn(t) = LiveIn(f)
      /\ \A j \in 1..Len(f) : /\ t[j].what = f[j].what /\ t[j].vm = f[j].vm
                              /\ t[j].valid = f[j].valid
  BY <1>1, FramePhased
<1>3. Stacks(s, t, ct, n, e)
  BY <1>1, StacksPhased
<1> HIDE DEF t
<1>4. SameFramesAt(LiveIn(f), f, t) /\ NoneExpired(f, t)
  BY <1>1, <1>2, Positions DEF SameFramesAt, NoneExpired
<1>5. LiveIn(f) \in SUBSET Int /\ CallsIn(s) \in SUBSET Int
  BY <1>1, Positions
<1>6. Matches(LiveIn(f), CallsIn(s), s, t)
  BY <1>4, <1>5, SameFrames DEF InStep
<1>7. InStep(s, t, ct, n, e)
  BY <1>2, <1>3, <1>6 DEF InStep
<1> QED BY <1>7 DEF t

\* A C++ call that does not count is made or returns.
LEMMA InStepFramePopped ==
    ASSUME NEW s, NEW f, NEW ct, NEW n, NEW e, InStep(s, f, ct, n, e), f # <<>>,
           ~Last(f).valid \/ Last(f).what = "cross"
    PROVE  InStep(s, Front(f), ct, n, e)
<1> DEFINE t == Front(f)
<1>1. Stacks(s, f, ct, n, e) /\ f \in Seq(FrameSet) /\ FramesNest(f)
      /\ Last(f) = f[Len(f)]
  BY OnTop DEF InStep, Stacks
<1>2. /\ Len(f) \in Nat \ {0} /\ Len(t) = Len(f) - 1 /\ LiveIn(t) = LiveIn(f) \ {Len(f)}
      /\ \A j \in 1..Len(t) : t[j] = f[j]
  BY <1>1, FramePopped
<1>3. Stacks(s, t, ct, n, e)
  BY <1>1, StacksFramePopped
<1>4. LiveIn(t) = LiveIn(f)
  BY <1>1, <1>2 DEF LiveIn
<1> HIDE DEF t
<1>5. \A j \in LiveIn(f) : t[j] = f[j]
  BY <1>2, <1>3, <1>4, Positions
<1>6. SameFramesAt(LiveIn(f), f, t)
  BY <1>5 DEF SameFramesAt
<1>7. NoneExpired(f, t)
  BY <1>2 DEF NoneExpired
<1>8. LiveIn(f) \in SUBSET Int /\ CallsIn(s) \in SUBSET Int
  BY <1>1, Positions
<1>9. Matches(LiveIn(f), CallsIn(s), s, t)
  BY <1>6, <1>7, <1>8, SameFrames DEF InStep
<1>10. InStep(s, t, ct, n, e)
  BY <1>3, <1>4, <1>9 DEF InStep
<1> QED BY <1>10 DEF t

LEMMA InStepCrossPushed ==
    ASSUME NEW s, NEW f, NEW ct, NEW n, NEW e, InStep(s, f, ct, n, e),
           NEW v \in VMs, NEW w \in VMs, ~e[v],
           f # <<>>, Last(f).what = "loop", Last(f).phase = "check", Last(f).vm = v
    PROVE  InStep(s, Append(f, CrossFrame(v, w)), ct, n, e)
<1> DEFINE g == CrossFrame(v, w)
           t == Append(f, g)
<1>1. Stacks(s, f, ct, n, e) /\ f \in Seq(FrameSet) /\ FramesNest(f)
  BY DEF InStep, Stacks
<1>2. g \in FrameSet /\ g.what = "cross" /\ g.vm = v /\ g.valid
  BY NewFrames DEF CrossFrame
<1> HIDE DEF g
<1>3. Stacks(s, t, ct, n, e)
  BY <1>1, <1>2, StacksFramePushed
<1>4. LiveIn(t) = LiveIn(f)
  BY <1>1, <1>2, FramePushed
<1>5. /\ Len(f) \in Nat /\ Len(t) = Len(f) + 1
      /\ \A i \in 1..Len(f) : t[i] = f[i]
      /\ t[Len(f) + 1] = g
  BY <1>1, <1>2, Pushing
<1> HIDE DEF t
<1>6. SameFramesAt(LiveIn(f), f, t)
  BY <1>1, <1>5, Positions DEF SameFramesAt
<1>7. NoneExpired(f, t)
  <2>1. \A j \in 1..Len(t) : j \in 1..Len(f) \/ j = Len(f) + 1
    BY <1>5
  <2> QED BY <1>2, <1>5, <2>1 DEF NoneExpired
<1>8. LiveIn(f) \in SUBSET Int /\ CallsIn(s) \in SUBSET Int
  BY <1>1, Positions
<1>9. Matches(LiveIn(f), CallsIn(s), s, t)
  BY <1>6, <1>7, <1>8, SameFrames DEF InStep
<1>10. InStep(s, t, ct, n, e)
  BY <1>3, <1>4, <1>9 DEF InStep
<1> QED BY <1>10 DEF t, g

\* A script function is called.
LEMMA InStepScriptPushed ==
    ASSUME NEW s, NEW f, NEW ct, NEW n, NEW e, InStep(s, f, ct, n, e), NEW c \in CallSet,
           MayPush(s, c), IsDeltaCodeContext(c), c.traps = 0, ~e[c.vm]
    PROVE  InStep(Append(s, c), f, Append(ct, Trace(c.context, c.vm)), n, e)
<1> DEFINE t == Append(s, c)
           ct2 == Append(ct, Trace(c.context, c.vm))
<1>1. Stacks(s, f, ct, n, e) /\ s \in Seq(CallSet)
  BY DEF InStep, Stacks
<1>2. ~IsLoop(c) /\ ~IsNative(c) /\ ~Handles(c)
  BY DEF IsDeltaCodeContext, IsLoop, IsNative, Handles
<1>3. Stacks(t, f, ct2, n, e)
  BY <1>1, <1>2, StacksPushed
<1>4. CallsIn(t) = CallsIn(s) /\ HandlersIn(t) = HandlersIn(s)
  <2>1. /\ CallsIn(t) = CallsIn(s) \cup IF IsDeltaCodeContext(c) THEN {} ELSE {Len(s) + 1}
        /\ HandlersIn(t) = HandlersIn(s) \cup IF Handles(c) THEN {Len(s) + 1} ELSE {}
    BY <1>1, PushedPositions
  <2> QED BY <1>2, <2>1
<1>5. \A i \in 1..Len(s) : t[i] = s[i]
  BY <1>1, Pushing
<1> HIDE DEF t, ct2
<1>6. SameCallsAt(CallsIn(s), s, t) /\ OldHandlers(s, t)
  BY <1>1, <1>4, <1>5, Positions DEF SameCallsAt, OldHandlers
<1>7. LiveIn(f) \in SUBSET Int /\ CallsIn(s) \in SUBSET Int /\ Len(f) \in Nat
  BY <1>1, Positions
<1>8. Matches(LiveIn(f), CallsIn(s), t, f)
  BY <1>6, <1>7, SameCallStack DEF InStep
<1>9. InStep(t, f, ct2, n, e)
  BY <1>3, <1>4, <1>8 DEF InStep
<1> QED BY <1>9 DEF t, ct2

\* The script code above the k-th call is cut off.
LEMMA InStepCut ==
    ASSUME NEW s, NEW f, NEW ct, NEW n, NEW e, InStep(s, f, ct, n, e), NEW k \in 0..Len(s),
           \A i \in k + 1..Len(s) : IsDeltaCodeContext(s[i]),
           NEW ct2 \in Seq(TraceSet), leftProgram' \/ Traces(ct2, SubSeq(s, 1, k))
    PROVE  InStep(SubSeq(s, 1, k), f, ct2, n, e)
<1> DEFINE t == SubSeq(s, 1, k)
<1>1. Stacks(s, f, ct, n, e) /\ s \in Seq(CallSet)
  BY DEF InStep, Stacks
<1>2. /\ Len(s) \in Nat /\ k \in Nat /\ Len(t) = k
      /\ \A i \in 1..k : t[i] = s[i]
  BY <1>1, Keeping
<1>3. /\ CallsIn(t) = UpTo(CallsIn(s), k) /\ NativesIn(t) = UpTo(NativesIn(s), k)
      /\ HandlersIn(t) = UpTo(HandlersIn(s), k)
  BY <1>1, KeptPositions
<1> HIDE DEF t
<1>4. \A i \in 1..Len(s) : i \in k + 1..Len(s) \/ i <= k
  BY <1>2
<1>5. (\A i \in CallsIn(s) : i <= k) /\ \A i \in NativesIn(s) : i <= k
  <2>1. \A i : IsDeltaCodeContext(s[i]) => ~IsNative(s[i])
    BY DEF IsDeltaCodeContext, IsNative
  <2> QED BY <1>4, <2>1 DEF CallsIn, NativesIn
<1>6. CallsIn(t) = CallsIn(s) /\ UpTo(NativesIn(s), k) = NativesIn(s)
  BY <1>3, <1>5 DEF UpTo
<1>7. n = Cardinality(UpTo(NativesIn(s), k))
  BY <1>1, <1>6 DEF Stacks
<1>8. Stacks(t, f, ct2, n, e)
  BY <1>1, <1>7, StacksCut DEF t
<1>9. SameCallsAt(CallsIn(s), s, t)
  <2>1. \A i \in CallsIn(s) : i \in 1..Len(s) /\ i <= k
    BY <1>1, <1>5, Positions
  <2>2. \A i \in CallsIn(s) : i \in 1..k
    BY <1>2, <2>1
  <2> QED BY <1>2, <2>2 DEF SameCallsAt
<1>10. OldHandlers(s, t)
  BY <1>3 DEF OldHandlers, UpTo
<1>11. LiveIn(f) \in SUBSET Int /\ CallsIn(s) \in SUBSET Int /\ Len(f) \in Nat
  BY <1>1, Positions
<1>12. Matches(LiveIn(f), CallsIn(s), t, f)
  BY <1>9, <1>10, <1>11, SameCallStack DEF InStep
<1>13. InStep(t, f, ct2, n, e)
  BY <1>6, <1>8, <1>12 DEF InStep
<1> QED BY <1>13 DEF t

\* A C++ call and the call it is for are made.
LEMMA InStepBothPushed ==
    ASSUME NEW s, NEW f, NEW ct, NEW n, NEW e, InStep(s, f, ct, n, e),
           NEW c \in CallSet, MayPush(s, c), ~IsDeltaCodeContext(c),
           NEW g \in FrameSet, g.valid, g.what # "cross",
           c.vm = g.vm, c.context = ContextOf(g.what), c.vm # NoVM => ~e[c.vm],
           f # <<>> /\ Last(f).what = "loop" => Last(f).phase = "check",
           g.what = "lib" => f # <<>> /\ Last(f).what = "loop" /\ Last(f).vm = g.vm,
           g.what = "loop" => f = <<>> \/ Last(f).what # "loop",
           g.what = "try" => f = <<>> \/ Last(f).what \in {"lib", "try"}
    PROVE  InStep(Append(s, c), Append(f, g),
                  IF IsLoop(c) \/ IsNative(c) THEN ct ELSE Append(ct, Trace(c.context, c.vm)),
                  IF IsNative(c) THEN n + 1 ELSE n, e)
<1> DEFINE s2 == Append(s, c)
           f2 == Append(f, g)
           ct2 == IF IsLoop(c) \/ IsNative(c) THEN ct ELSE Append(ct, Trace(c.context, c.vm))
           n2 == IF IsNative(c) THEN n + 1 ELSE n
           a == Len(f) + 1
           b == Len(s) + 1
<1>1. /\ Stacks(s, f, ct, n, e) /\ s \in Seq(CallSet) /\ f \in Seq(FrameSet) /\ FramesNest(f)
      /\ Matches(LiveIn(f), CallsIn(s), s, f)
  BY DEF InStep, Stacks
<1>2. Stacks(s2, f, ct2, n2, e)
  BY <1>1, StacksPushed
<1>3. LiveIn(f2) = LiveIn(f) \cup {a}
  <2>1. LiveIn(f2) = LiveIn(f) \cup IF g.valid /\ g.what # "cross" THEN {a} ELSE {}
    BY <1>1, FramePushed
  <2> QED BY <2>1
<1>4. CallsIn(s2) = CallsIn(s) \cup {b}
  <2>1. CallsIn(s2) = CallsIn(s) \cup IF IsDeltaCodeContext(c) THEN {} ELSE {b}
    BY <1>1, PushedPositions
  <2> QED BY <2>1
<1>5. HandlersOver(b, s, s2)
  <2>1. HandlersIn(s2) = HandlersIn(s) \cup IF Handles(c) THEN {b} ELSE {}
    BY <1>1, PushedPositions
  <2>2. b <= b
    BY <1>1, Positions
  <2> HIDE DEF s2, b
  <2> QED BY <2>1, <2>2 DEF HandlersOver
<1>6. /\ Len(s) \in Nat /\ \A i \in 1..Len(s) : s2[i] = s[i]
      /\ s2[b] = c
  BY <1>1, Pushing
<1>7. /\ Len(f) \in Nat /\ Len(f2) = a /\ \A j \in 1..Len(f) : f2[j] = f[j]
      /\ f2[a] = g
  BY <1>1, Pushing
<1> HIDE DEF ct2, n2, s2, f2
<1>8. Stacks(s2, f2, ct2, n2, e)
  <2>1. g.vm # NoVM => (g.valid <=> ~e[g.vm])
    OBVIOUS
  <2> QED BY <1>2, <2>1, StacksFramePushed DEF f2
<1>9. SameCallsAt(CallsIn(s), s, s2) /\ SameFramesAt(LiveIn(f), f, f2)
  BY <1>1, <1>6, <1>7, Positions DEF SameCallsAt, SameFramesAt
<1>10. NoneExpired(f, f2)
  <2>1. \A j \in 1..Len(f2) : j \in 1..Len(f) \/ j = a
    BY <1>7
  <2> QED BY <1>7, <2>1 DEF NoneExpired
<1>11. Tops(a, LiveIn(f)) /\ Tops(b, CallsIn(s)) /\ a > Len(f)
  <2>1. /\ \A j \in LiveIn(f) : j \in Nat /\ j <= Len(f)
        /\ \A i \in CallsIn(s) : i \in Nat /\ i <= Len(s)
    BY <1>1, Positions
  <2> QED BY <1>6, <1>7, <2>1 DEF Tops
<1>12. LiveIn(f) \in SUBSET Int /\ CallsIn(s) \in SUBSET Int
  BY <1>1, Positions
<1> HIDE DEF a, b
<1>13. s2[b].vm = f2[a].vm /\ s2[b].context = ContextOf(f2[a].what)
  BY <1>6, <1>7
<1>14. Matches(LiveIn(f) \cup {a}, CallsIn(s) \cup {b}, s2, f2)
  BY <1>1, <1>5, <1>7, <1>9, <1>10, <1>11, <1>12, <1>13, MatchesPushed
<1>15. InStep(s2, f2, ct2, n2, e)
  BY <1>3, <1>4, <1>8, <1>14 DEF InStep
<1> QED BY <1>15 DEF s2, f2, ct2, n2

\* What is left when the newest call is gone.
LEMMA CallsPopped ==
    ASSUME NEW s \in Seq(CallSet), s # <<>>
    PROVE  LET t == Front(s)
           IN  /\ CallsIn(t) = CallsIn(s) \ {Len(s)} /\ HandlersUnder(Len(s), s, t)
               /\ \A i \in HandlersIn(s) : i = Len(s) \/ i \in HandlersIn(t)
               /\ SameCallsAt(CallsIn(s) \ {Len(s)}, s, t)
<1> DEFINE t == Front(s)
           k == Len(s) - 1
<1>1. /\ Len(s) \in Nat \ {0} /\ t = SubSeq(s, 1, k) /\ k \in 0..Len(s)
      /\ \A i \in 1..k : t[i] = s[i]
  BY Popping, OnTop
<1>2. CallsIn(t) = UpTo(CallsIn(s), k) /\ HandlersIn(t) = UpTo(HandlersIn(s), k)
  BY <1>1, KeptPositions
<1>3. /\ \A i \in CallsIn(s) : i \in 1..Len(s) /\ i \in Nat /\ i <= Len(s)
      /\ \A i \in HandlersIn(s) : i \in 1..Len(s) /\ i \in Nat /\ i <= Len(s)
  BY <1>1, PositionTypes
<1> HIDE DEF t
<1>4. CallsIn(t) = CallsIn(s) \ {Len(s)}
  BY <1>1, <1>2, <1>3 DEF UpTo
<1>5. HandlersUnder(Len(s), s, t)
  BY <1>1, <1>2, <1>3 DEF HandlersUnder, UpTo
<1>6. \A i \in HandlersIn(s) : i = Len(s) \/ i \in HandlersIn(t)
  BY <1>1, <1>2, <1>3 DEF UpTo
<1>7. SameCallsAt(CallsIn(s) \ {Len(s)}, s, t)
  <2>1. \A i \in CallsIn(s) \ {Len(s)} : i \in 1..k
    BY <1>1, <1>3
  <2> QED BY <1>1, <2>1 DEF SameCallsAt
<1> QED BY <1>4, <1>5, <1>6, <1>7 DEF t

\* A C++ call and the call it is for are gone.
LEMMA InStepBothPopped ==
    ASSUME NEW s, NEW f, NEW ct, NEW n, NEW e, InStep(s, f, ct, n, e), s # <<>>, f # <<>>,
           Greatest(Len(f), LiveIn(f)), Greatest(Len(s), CallsIn(s))
    PROVE  InStep(Front(s), Front(f),
                  IF IsLoop(Last(s)) \/ IsNative(Last(s)) THEN ct ELSE Front(ct),
                  IF IsNative(Last(s)) THEN n - 1 ELSE n, e)
<1> DEFINE s2 == Front(s)
           f2 == Front(f)
           ct2 == IF IsLoop(Last(s)) \/ IsNative(Last(s)) THEN ct ELSE Front(ct)
           n2 == IF IsNative(Last(s)) THEN n - 1 ELSE n
<1>1. /\ Stacks(s, f, ct, n, e) /\ s \in Seq(CallSet) /\ f \in Seq(FrameSet) /\ FramesNest(f)
      /\ Matches(LiveIn(f), CallsIn(s), s, f)
  BY DEF InStep, Stacks
<1>2. Stacks(s2, f, ct2, n2, e)
  BY <1>1, StacksPopped
<1>3. /\ CallsIn(s2) = CallsIn(s) \ {Len(s)} /\ HandlersUnder(Len(s), s, s2)
      /\ SameCallsAt(CallsIn(s) \ {Len(s)}, s, s2)
  BY <1>1, CallsPopped
<1>4. /\ Len(f) \in Nat \ {0} /\ Len(f2) = Len(f) - 1 /\ LiveIn(f2) = LiveIn(f) \ {Len(f)}
      /\ \A j \in 1..Len(f2) : f2[j] = f[j]
  BY <1>1, FramePopped
<1> HIDE DEF ct2, n2, s2
<1>5. Stacks(s2, f2, ct2, n2, e)
  BY <1>2, StacksFramePopped
<1> HIDE DEF f2
<1>6. SameFramesAt(LiveIn(f) \ {Len(f)}, f, f2)
  <2>1. \A j \in LiveIn(f) \ {Len(f)} : j \in 1..Len(f2)
    BY <1>4, <1>5, Positions
  <2> QED BY <1>4, <2>1 DEF SameFramesAt
<1>7. NoneExpired(f, f2)
  BY <1>4 DEF NoneExpired
<1>8. LiveIn(f) \in SUBSET Int /\ CallsIn(s) \in SUBSET Int
  BY <1>1, Positions
<1>9. Matches(LiveIn(f2), CallsIn(s2), s2, f2)
  BY <1>1, <1>3, <1>4, <1>6, <1>7, <1>8, MatchesPopped
<1>10. InStep(s2, f2, ct2, n2, e)
  BY <1>5, <1>9 DEF InStep
<1> QED BY <1>10 DEF s2, f2, ct2, n2

\* A running loop makes or removes a trap block.
LEMMA InStepTrapped ==
    ASSUME NEW s, NEW f, NEW ct, NEW n, NEW e, InStep(s, f, ct, n, e),
           s # <<>>, IsDeltaCodeContext(Last(s)), NEW k \in 0..MaxTraps,
           f # <<>>, Greatest(Len(f), LiveIn(f))
    PROVE  InStep([s EXCEPT ![Len(s)].traps = k], f, ct, n, e)
<1> DEFINE t == [s EXCEPT ![Len(s)].traps = k]
<1>1. Stacks(s, f, ct, n, e) /\ Matches(LiveIn(f), CallsIn(s), s, f)
  BY DEF InStep
<1>2. /\ Stacks(t, f, ct, n, e) /\ CallsIn(t) = CallsIn(s)
      /\ \A i \in 1..Len(s) : t[i].vm = s[i].vm /\ t[i].context = s[i].context
      /\ \A i \in HandlersIn(t) : i \in HandlersIn(s) \/ i = Len(s)
  <2>1. Stacks(t, f, ct, n, e) /\ CallsIn(t) = CallsIn(s)
    BY <1>1, StacksTrapped
  <2>2. \A i \in 1..Len(s) : t[i].vm = s[i].vm /\ t[i].context = s[i].context
    BY <1>1, StacksTrapped
  <2>3. \A i \in HandlersIn(t) : i \in HandlersIn(s) \/ i = Len(s)
    BY <1>1, StacksTrapped
  <2> QED BY <2>1, <2>2, <2>3
<1> HIDE DEF t
<1>3. SameCallsAt(CallsIn(s), s, t)
  BY <1>1, <1>2, Positions DEF SameCallsAt
<1>4. SameFramesAt(LiveIn(f), f, f) /\ NoneExpired(f, f)
  BY DEF SameFramesAt, NoneExpired
<1>5. HandlersInReach(LiveIn(f), CallsIn(s), s, t, f)
  <2>1. \A j \in 1..Len(f) : ~f[j].valid => j < Len(f)
    <3>1. f[Len(f)].valid /\ Len(f) \in Nat
      BY <1>1, Positions DEF Greatest, LiveIn
    <3> QED BY <3>1
  <2>2. \A i \in CallsIn(s) : i <= Len(s)
    BY <1>1, Positions
  <2>3. Len(f) \in LiveIn(f)
    BY DEF Greatest
  <2> QED BY <1>2, <2>1, <2>2, <2>3 DEF HandlersInReach
<1>6. LiveIn(f) \in SUBSET Int /\ CallsIn(s) \in SUBSET Int
  BY <1>1, Positions
<1>7. Matches(LiveIn(f), CallsIn(s), t, f)
  BY <1>1, <1>3, <1>4, <1>5, <1>6, MatchesSame
<1>8. InStep(t, f, ct, n, e)
  BY <1>2, <1>7 DEF InStep
<1> QED BY <1>8 DEF t

\* A library function that runs is the newest call.
LEMMA LibIsMatched ==
    ASSUME NEW s, NEW f, NEW ct, NEW n, NEW e, InStep(s, f, ct, n, e),
           HandlersIn(s) # {}, f # <<>>, Last(f).what = "lib"
    PROVE  IsLib(Last(s))
<1>1. /\ Stacks(s, f, ct, n, e) /\ s \in Seq(CallSet) /\ CallsNest(s) /\ f \in Seq(FrameSet)
      /\ Matches(LiveIn(f), CallsIn(s), s, f)
  BY DEF InStep, Stacks
<1>2. Last(f) = f[Len(f)] /\ Len(f) \in 1..Len(f) /\ Len(f) \in Nat
  BY <1>1, OnTop
<1>3. f[Len(f)].valid
  <2>1. PICK m : Agrees(m, LiveIn(f), CallsIn(s), s, f)
    BY <1>1 DEF Matches
  <2>2. PICK i : i \in HandlersIn(s)
    OBVIOUS
  <2>3. SUFFICES ASSUME ~f[Len(f)].valid PROVE FALSE
    OBVIOUS
  <2>4. \E k \in LiveIn(f) : k > Len(f)
    BY <1>2, <2>1, <2>2, <2>3 DEF Agrees
  <2> QED BY <1>1, <1>2, <2>4, Positions
<1>4. Greatest(Len(f), LiveIn(f))
  <2>1. Len(f) \in LiveIn(f)
    BY <1>2, <1>3 DEF LiveIn
  <2>2. \A j \in LiveIn(f) : j <= Len(f)
    BY <1>1, Positions
  <2> QED BY <2>1, <2>2 DEF Greatest
<1>5. LiveIn(f) \in SUBSET Int /\ CallsIn(s) \in SUBSET Int
  BY <1>1, Positions
<1>6. PICK b : Greatest(b, CallsIn(s)) /\ s[b].context = ContextOf(f[Len(f)].what)
  BY <1>1, <1>4, <1>5, MatchesTop
<1>7. IsLib(s[b])
  BY <1>2, <1>6 DEF ContextOf, IsLib
<1>8. s # <<>> /\ b = Len(s)
  BY <1>1, <1>6, <1>7, TopCall DEF IsLib, IsLoop
<1> QED BY <1>1, <1>7, <1>8, OnTop

\* All errors are reset when no call failed.
LEMMA InStepReset ==
    ASSUME NEW s, NEW f, NEW ct, NEW n, NEW e, InStep(s, f, ct, n, e),
           \A j \in 1..Len(f) : f[j].vm # NoVM => ~e[f[j].vm]
    PROVE  InStep(s, f, ct, n, [v \in VMs |-> FALSE])
<1>1. Stacks(s, f, ct, n, e) /\ s \in Seq(CallSet) /\ f \in Seq(FrameSet)
  BY DEF InStep, Stacks
<1>2. FramesExpire(f, [v \in VMs |-> FALSE])
  <2>1. \A j \in 1..Len(f) : f[j].vm # NoVM => f[j].vm \in VMs /\ f[j].valid
    BY <1>1, OnTop, FrameFacts DEF Stacks, FramesExpire
  <2> QED BY <2>1 DEF FramesExpire
<1>3. CallsOfOthers(s, [v \in VMs |-> FALSE])
  <2>1. \A i \in 1..Len(s) : s[i].vm # NoVM => s[i].vm \in VMs
    BY <1>1, OnTop DEF CallSet
  <2> QED BY <2>1 DEF CallsOfOthers
<1> QED BY <1>1, <1>2, <1>3 DEF InStep, Stacks

-----------------------------------------------------------------------------
(* What the actions find, and what they have to establish.                 *)

LEMMA Normal ==
    ASSUME IInv, StillLeft, ~LibGone, ~LibLeft
    PROVE  InStep(callStack, cpp, callTraces, expectedNativeTrapDisableCalls, error)
BY Apart DEF InStep, StacksNow, MatchedFrames, MatchedCalls

LEMMA Settled ==
    ASSUME InStep(callStack', cpp', callTraces', expectedNativeTrapDisableCalls', error'),
           ~LibGone', ~LibLeft', Others', ControlInv'
    PROVE  IInv'
<1>1. Matches(MatchedFrames', MatchedCalls', callStack', cpp')
  BY DEF InStep, MatchedFrames, MatchedCalls
<1> QED BY <1>1, Together DEF InStep

LEMMA SettledCalmly ==
    ASSUME InStep(callStack', cpp', callTraces', expectedNativeTrapDisableCalls', error'),
           isUnwinding' = FALSE, Others', ControlInv'
    PROVE  IInv'
BY Settled DEF LibGone, LibLeft

\* The control of a loop that has executed an instruction, and of native code.
LEMMA LoopControl ==
    ASSUME NEW v, cpp' # <<>>, Last(cpp').what = "loop", Last(cpp').vm = v,
           Last(cpp').phase = "check", Last(cpp').valid, isUnwinding' = FALSE,
           pc'[v] # "idle", pc'[v] = "end" <=> LoopOnTop',
           pc'[v] = "trap" => Last(callStack').traps > 0
    PROVE  ControlInv'
BY DEF ControlInv, LoopInv, Checks, Top

LEMMA StartControl ==
    ASSUME NEW v, cpp' # <<>>, Last(cpp').what = "loop", Last(cpp').vm = v,
           Last(cpp').phase = "exec", Last(cpp').valid, isUnwinding' = FALSE,
           pc'[v] = "code", ScriptOnTop(v)'
    PROVE  ControlInv'
BY DEF ControlInv, LoopInv, Executes, Top, ScriptOnTop, LoopOnTop, IsLoop, IsDeltaCodeContext

LEMMA NativeControl ==
    ASSUME ~Top("loop")', ~LoopOnTop', isUnwinding' = FALSE
    PROVE  ControlInv'
BY DEF ControlInv, LoopInv

\* Where a loop executes an instruction.
LEMMA AtExec ==
    ASSUME IInv, NEW v \in VMs, InLoop(v, "exec")
    PROVE  /\ Top("loop") /\ cpp # <<>> /\ Last(cpp).what = "loop" /\ Last(cpp).vm = v
           /\ Last(cpp).phase = "exec" /\ Last(cpp).valid
           /\ cpp \in Seq(FrameSet) /\ FramesNest(cpp) /\ callStack \in Seq(CallSet)
           /\ CallsNest(callStack) /\ v # NoVM
           /\ Len(cpp) \in 1..Len(cpp) /\ Last(cpp) = cpp[Len(cpp)]
           /\ Executes(v) /\ ~LibGone /\ ~LibLeft
<1>1. /\ Top("loop") /\ cpp # <<>> /\ Last(cpp).what = "loop" /\ Last(cpp).vm = v
      /\ Last(cpp).phase = "exec"
  BY DEF InLoop, Top
<1>2. /\ cpp \in Seq(FrameSet) /\ FramesNest(cpp) /\ callStack \in Seq(CallSet)
      /\ CallsNest(callStack) /\ v # NoVM
  BY NoVMAssumption DEF IInv, TypeInv
<1>3. Len(cpp) \in 1..Len(cpp) /\ Last(cpp) = cpp[Len(cpp)] /\ Last(cpp) \in FrameSet
  BY <1>1, <1>2, OnTop
<1>4. Last(cpp).valid
  BY <1>1, <1>3, FrameFacts
<1>5. Executes(v)
  BY <1>1, <1>4 DEF IInv, ControlInv, LoopInv
<1>6. ~LibGone /\ ~LibLeft
  BY <1>1, <1>5 DEF LibGone, LibLeft, Top, Executes, ScriptOnTop, IsLib, IsDeltaCodeContext
<1> QED BY <1>1, <1>2, <1>3, <1>4, <1>5, <1>6

\* The instruction of a loop.
LEMMA AtInstruction ==
    ASSUME IInv, StillLeft, NEW v \in VMs, InLoop(v, "exec")
    PROVE  /\ InStep(callStack, cpp, callTraces, expectedNativeTrapDisableCalls, error)
           /\ InStep(callStack, Executed, callTraces, expectedNativeTrapDisableCalls, error)
           /\ cpp # <<>> /\ Last(cpp).what = "loop" /\ Last(cpp).vm = v
           /\ Executed # <<>> /\ Last(Executed).what = "loop" /\ Last(Executed).vm = v
           /\ Last(Executed).phase = "check" /\ Last(Executed).valid
           /\ Len(Executed) = Len(cpp)
           /\ Greatest(Len(cpp), LiveIn(cpp)) /\ Greatest(Len(Executed), LiveIn(Executed))
           /\ ~error[v] /\ Executes(v) /\ callStack # <<>> /\ callStack \in Seq(CallSet)
           /\ CallsNest(callStack)
<1>1. /\ Top("loop") /\ cpp # <<>> /\ Last(cpp).what = "loop" /\ Last(cpp).vm = v
      /\ Last(cpp).phase = "exec"
  BY AtExec
<1>2. /\ cpp \in Seq(FrameSet) /\ FramesNest(cpp) /\ callStack \in Seq(CallSet)
      /\ CallsNest(callStack) /\ v # NoVM
  BY AtExec
<1>3. Len(cpp) \in 1..Len(cpp) /\ Last(cpp) = cpp[Len(cpp)]
  BY AtExec
<1>4. Last(cpp).valid
  BY AtExec
<1>5. Executes(v)
  BY AtExec
<1>6. ~LibGone /\ ~LibLeft
  BY AtExec
<1>7. InStep(callStack, cpp, callTraces, expectedNativeTrapDisableCalls, error)
  BY <1>6, Normal
<1>8. "check" \in Phases /\ ~("check" \in {"exec", "unwound"})
  BY DEF Phases
<1>9. InStep(callStack, Executed, callTraces, expectedNativeTrapDisableCalls, error)
  BY <1>1, <1>7, <1>8, InStepPhased DEF Executed
<1>10. /\ Executed # <<>> /\ Last(Executed).what = "loop" /\ Last(Executed).vm = Last(cpp).vm
       /\ Last(Executed).phase = "check" /\ Last(Executed).valid = Last(cpp).valid
       /\ Len(Executed) = Len(cpp) /\ LiveIn(Executed) = LiveIn(cpp)
  BY <1>1, <1>2, <1>8, FramePhased DEF Executed
<1>11. Greatest(Len(cpp), LiveIn(cpp))
  BY <1>1, <1>4, LoopFacts
<1>12. ~error[v]
  BY <1>1, <1>2, <1>3, <1>4 DEF IInv, ErrorInv
<1> QED BY <1>1, <1>2, <1>4, <1>5, <1>7, <1>9, <1>10, <1>11, <1>12 DEF Executes, ScriptOnTop

-----------------------------------------------------------------------------
(* Instructions that do not throw.                                         *)

LEMMA StaysPopped ==
    ASSUME TypeInv, callStack # <<>>, callStack' = Front(callStack), ~Handles(Last(callStack))
    PROVE  /\ StaysInProgram => StaysInProgram'
           /\ HandlersIn(callStack) # {} => HandlersIn(callStack') # {}
<1>1. callStack \in Seq(CallSet)
  BY DEF TypeInv
<1>2. /\ Len(callStack) \in Nat \ {0} /\ Len(callStack') = Len(callStack) - 1
      /\ \A i \in 1..Len(callStack') : callStack'[i] = callStack[i]
      /\ Last(callStack) = callStack[Len(callStack)]
  BY <1>1, Popping, OnTop
<1>3. \A i \in HandlersIn(callStack) : i \in HandlersIn(callStack')
  <2>1. \A i \in HandlersIn(callStack) : i = Len(callStack) \/ i \in HandlersIn(callStack')
    BY <1>1, CallsPopped
  <2>2. Len(callStack) \notin HandlersIn(callStack)
    BY <1>2 DEF HandlersIn
  <2> QED BY <2>1, <2>2
<1>4. \A i \in 1..Len(callStack') : i \in 1..Len(callStack)
  BY <1>2
<1>5. StaysInProgram => StaysInProgram'
  BY <1>2, <1>3, <1>4 DEF StaysInProgram, Handlers, HandlersIn
<1> QED BY <1>3, <1>5

\* What every instruction leaves to the loop that runs it while an exception is
\* unwound.
LEMMA UnwindingGoesOn ==
    ASSUME IInv, StillLeft, NEW v \in VMs, InLoop(v, "exec"), isUnwinding,
           InStep(callStack', cpp', callTraces', expectedNativeTrapDisableCalls', error'),
           cpp' = Executed, UNCHANGED <<isUnwinding, shouldUnwind, checker>>, Others',
           ScriptOnTop(v)', HandlersIn(callStack') # {}, StaysInProgram => StaysInProgram'
    PROVE  IInv'
<1>1. /\ cpp' # <<>> /\ Last(cpp').what = "loop" /\ Last(cpp').vm = v
      /\ Last(cpp').phase = "check" /\ Last(cpp').valid /\ Executes(v)
  BY AtInstruction
<1>2. ~LoopOnTop' /\ ~LibLeft'
  BY DEF ScriptOnTop, LoopOnTop, LibLeft, IsLoop, IsLib, IsDeltaCodeContext
<1>3. ~LibGone' /\ Top("loop")'
  BY <1>1 DEF LibGone, Top
<1>4. shouldUnwind' /\ isUnwinding'
  BY <1>1 DEF Executes
<1>5. LoopInv'
  BY <1>1, <1>2, <1>4 DEF LoopInv, Checks
<1>6. AllChecked => AllChecked'
  <2>1. /\ Len(cpp') = Len(cpp)
        /\ \A j \in 1..Len(cpp) : /\ cpp'[j].what = cpp[j].what /\ cpp'[j].vm = cpp[j].vm
                                  /\ cpp'[j].valid = cpp[j].valid
    <3>1. "check" \in Phases /\ ~("check" \in {"exec", "unwound"})
      BY DEF Phases
    <3>2. cpp \in Seq(FrameSet) /\ FramesNest(cpp) /\ cpp # <<>> /\ Last(cpp).what = "loop"
      BY AtExec
    <3> QED BY <3>1, <3>2, FramePhased DEF Executed
  <2> QED BY <2>1 DEF AllChecked
<1>7. ControlInv'
  <2>1. AllChecked /\ (leftProgram \/ StaysInProgram)
    BY DEF IInv, ControlInv
  <2>2. leftProgram' \/ StaysInProgram'
    BY <2>1 DEF StillLeft
  <2> QED BY <1>2, <1>3, <1>4, <1>5, <1>6, <2>1, <2>2 DEF ControlInv
<1> QED BY <1>2, <1>3, <1>7, Settled

\* Nothing is unwound where a step would lead astray.
LEMMA NotDiverted ==
    ASSUME IInv, Diverts, ~astray'
    PROVE  isUnwinding = FALSE
BY DEF IInv, TypeInv, Diverts

LEMMA CallFunctionKeeps ==
    ASSUME IInv, StillLeft, NEW v \in VMs, CallFunction(v)
    PROVE  IInv'
<1> DEFINE c == Call("InDeltaFunction", v, "code")
<1>1. InLoop(v, "exec") /\ pc[v] = "code"
  BY DEF CallFunction, At
<1>2. Executes(v) /\ isUnwinding \in BOOLEAN
  BY <1>1, AtInstruction, Apart DEF Others
<1>3. /\ c \in CallSet /\ c.vm = v /\ c.context = "InDeltaFunction" /\ c.ret = "code"
      /\ c.traps = 0 /\ IsDeltaCodeContext(c)
  <2>1. "code" \in Counters \ {"idle"}
    BY DEF Counters
  <2> QED BY <2>1, NewCalls DEF Call, IsDeltaCodeContext
<1>4. /\ callStack' = Append(callStack, c) /\ cpp' = Executed
      /\ callTraces' = Append(callTraces, Trace(c.context, c.vm))
      /\ UNCHANGED <<isUnwinding, shouldUnwind, expectedNativeTrapDisableCalls, vmVars>>
  BY <1>3 DEF CallFunction
<1> HIDE DEF c
<1>5. MayPush(callStack, c)
  BY <1>2, <1>3 DEF MayPush, Executes, ScriptOnTop, IsLib, IsLoop, IsDeltaCodeContext
<1>6. InStep(callStack', cpp', callTraces', expectedNativeTrapDisableCalls', error')
  BY <1>1, <1>3, <1>4, <1>5, AtInstruction, InStepScriptPushed DEF vmVars
<1>7. Last(callStack') = c /\ callStack' # <<>> /\ callStack \in Seq(CallSet)
  BY <1>1, <1>3, <1>4, AtInstruction, Pushing
<1>8. Others'
  BY <1>4, Apart DEF Others, vmVars
<1>9. CASE isUnwinding = FALSE
  <2>1. ~LoopOnTop'
    BY <1>3, <1>7 DEF LoopOnTop, IsLoop
  <2>2. pc'[v] = "code" /\ isUnwinding' = FALSE
    BY <1>1, <1>4, <1>9 DEF vmVars
  <2>3. ControlInv'
    BY <1>1, <1>4, <2>1, <2>2, AtInstruction, LoopControl
  <2> QED BY <1>4, <1>6, <1>8, <1>9, <2>3, SettledCalmly
<1>10. CASE isUnwinding
  <2>1. ScriptOnTop(v)'
    BY <1>3, <1>7 DEF ScriptOnTop
  <2>2. HandlersIn(callStack') = HandlersIn(callStack)
    <3>1. ~Handles(c)
      BY <1>3 DEF Handles
    <3>2. callStack' = Append(callStack, c) /\ c \in CallSet
      BY <1>3, <1>4
    <3>3. HandlersIn(Append(callStack, c))
             = HandlersIn(callStack) \cup IF Handles(c) THEN {Len(callStack) + 1} ELSE {}
      BY <1>7, <3>2, PushedPositions
    <3> QED BY <3>1, <3>2, <3>3
  <2>3. HandlersIn(callStack') # {}
    BY <1>10, <2>2, Apart DEF ControlInv
  <2>4. StaysInProgram => StaysInProgram'
    <3>1. /\ Len(callStack) \in Nat /\ Len(callStack') = Len(callStack) + 1
          /\ \A i \in 1..Len(callStack) : callStack'[i] = callStack[i]
          /\ callStack'[Len(callStack) + 1] = c
      BY <1>3, <1>4, <1>7, Pushing
    <3>2. Handlers = HandlersIn(callStack) /\ Handlers' = HandlersIn(callStack')
      BY DEF Handlers, HandlersIn
    <3>3. \A i \in 1..Len(callStack') : i \in 1..Len(callStack) \/ i = Len(callStack) + 1
      BY <3>1
    <3> QED BY <1>3, <2>2, <3>1, <3>2, <3>3 DEF StaysInProgram
  <2>5. UNCHANGED <<isUnwinding, shouldUnwind, checker>>
    BY <1>4 DEF vmVars
  <2> QED BY <1>1, <1>4, <1>6, <1>8, <1>10, <2>1, <2>3, <2>4, <2>5, UnwindingGoesOn
<1> QED BY <1>2, <1>9, <1>10

\* Script code that returns to the call below it.
LEMMA ReturnPops ==
    ASSUME IInv, StillLeft, NEW v \in VMs, At(v, "code"),
           callStack' = Front(callStack), callTraces' = Front(callTraces), cpp' = Executed,
           UNCHANGED <<expectedNativeTrapDisableCalls, error>>
    PROVE  LET r == Last(callStack).ret
           IN  /\ InStep(callStack', cpp', callTraces', expectedNativeTrapDisableCalls', error')
               /\ r \in {"end", "code"} /\ (r = "end" <=> LoopOnTop')
               /\ r # "end" => ScriptOnTop(v)'
<1> DEFINE r == Last(callStack).ret
<1>1. InLoop(v, "exec") /\ pc[v] = "code"
  BY DEF At
<1>2. /\ Executes(v) /\ callStack # <<>> /\ IsDeltaCodeContext(Last(callStack))
      /\ Last(callStack).vm = v
  BY <1>1, AtInstruction DEF Executes, ScriptOnTop
<1>3. /\ callStack \in Seq(CallSet) /\ CallsNest(callStack)
      /\ InStep(callStack, Executed, callTraces, expectedNativeTrapDisableCalls, error)
      /\ Stacks(callStack, Executed, callTraces, expectedNativeTrapDisableCalls, error)
  BY <1>1, AtInstruction DEF InStep
<1> DEFINE k == Len(callStack) - 1
<1>4. /\ k \in 0..Len(callStack) /\ Front(callStack) = SubSeq(callStack, 1, k)
      /\ Len(callStack) \in Nat \ {0} /\ Last(callStack) = callStack[Len(callStack)]
      /\ Len(callStack) \in 1..Len(callStack)
      /\ k > 0 => Front(callStack) # <<>> /\ Last(Front(callStack)) = callStack[k]
  BY <1>2, <1>3, OnTop, Popping
<1>5. \A i \in k + 1..Len(callStack) : IsDeltaCodeContext(callStack[i])
  <2>1. \A i \in k + 1..Len(callStack) : i = Len(callStack)
    BY <1>4
  <2> QED BY <1>2, <1>4, <2>1
<1>6. Front(callTraces) \in Seq(TraceSet)
      /\ (leftProgram' \/ Traces(Front(callTraces), Front(callStack)))
  <2>1. ~IsLoop(Last(callStack)) /\ ~IsNative(Last(callStack))
    BY <1>2 DEF IsDeltaCodeContext, IsLoop, IsNative
  <2>2. Stacks(Front(callStack), Executed, Front(callTraces), expectedNativeTrapDisableCalls, error)
    BY <1>2, <1>3, <2>1, StacksPopped
  <2> QED BY <2>2 DEF Stacks
<1>7. InStep(callStack', cpp', callTraces', expectedNativeTrapDisableCalls', error')
  <2> HIDE DEF k
  <2>1. InStep(SubSeq(callStack, 1, k), Executed, Front(callTraces), expectedNativeTrapDisableCalls, error)
    BY <1>3, <1>4, <1>5, <1>6, InStepCut
  <2> QED BY <1>4, <2>1
<1>8. r \in {"end", "code"} /\ (r = "end" <=> LoopOnTop') /\ (r # "end" => ScriptOnTop(v)')
  <2>1. Nests(callStack, Len(callStack))
    BY <1>3, <1>4 DEF CallsNest
  <2>2. k > 0 /\ Len(callStack) - 1 = k /\ callStack[k].vm = v
    BY <1>2, <1>4, <2>1 DEF Nests
  <2>3. LoopOnTop' <=> IsLoop(callStack[k])
    BY <1>4, <2>2 DEF LoopOnTop
  <2>4. \/ IsLoop(callStack[k]) /\ Last(callStack).ret = "end"
        \/ /\ IsDeltaCodeContext(callStack[k]) /\ Last(callStack).context = "InDeltaFunction"
           /\ Last(callStack).ret = "code"
    BY <1>2, <1>4, <2>1, <2>2 DEF Nests
  <2>5. IsDeltaCodeContext(callStack[k]) => ~IsLoop(callStack[k]) /\ ScriptOnTop(v)'
    BY <1>4, <2>2 DEF IsDeltaCodeContext, IsLoop, ScriptOnTop
  <2> QED BY <2>3, <2>4, <2>5
<1> QED BY <1>7, <1>8

LEMMA ReturnKeeps ==
    ASSUME IInv, StillLeft, NEW v \in VMs, At(v, "code"), isUnwinding = FALSE,
           callStack' = Front(callStack), callTraces' = Front(callTraces), cpp' = Executed,
           UNCHANGED <<isUnwinding, shouldUnwind, expectedNativeTrapDisableCalls, error, checker>>,
           pc' = [pc EXCEPT ![v] = Last(callStack).ret]
    PROVE  IInv'
<1> DEFINE r == Last(callStack).ret
<1>1. InLoop(v, "exec")
  BY DEF At
<1>2. /\ InStep(callStack', cpp', callTraces', expectedNativeTrapDisableCalls', error')
      /\ r \in {"end", "code"} /\ (r = "end" <=> LoopOnTop')
  BY ReturnPops
<1>3. pc'[v] = r /\ isUnwinding' = FALSE
  BY Apart DEF Others
<1>4. ControlInv'
  BY <1>1, <1>2, <1>3, AtInstruction, LoopControl
<1>5. Others'
  BY <1>2, Apart DEF Others, Counters
<1> QED BY <1>2, <1>3, <1>4, <1>5, SettledCalmly

\* A function that is not the handler of the exception returns to another.
LEMMA ReturnUnwindingKeeps ==
    ASSUME IInv, StillLeft, NEW v \in VMs, FuncReturn(v), isUnwinding,
           Last(callStack).traps = 0, Last(callStack).ret # "end"
    PROVE  IInv'
<1> DEFINE r == Last(callStack).ret
<1>1. /\ At(v, "code") /\ InLoop(v, "exec") /\ callStack' = Front(callStack)
      /\ callTraces' = Front(callTraces) /\ cpp' = Executed /\ pc' = [pc EXCEPT ![v] = r]
      /\ UNCHANGED <<isUnwinding, shouldUnwind, expectedNativeTrapDisableCalls, error, checker>>
      /\ Last(callStack).context = "InDeltaFunction"
  BY DEF FuncReturn, At
<1>2. /\ InStep(callStack', cpp', callTraces', expectedNativeTrapDisableCalls', error')
      /\ r = "code" /\ ScriptOnTop(v)'
  BY <1>1, ReturnPops
<1>3. Others'
  BY <1>1, <1>2, Apart DEF Others, Counters
<1>4. ~Handles(Last(callStack))
  BY <1>1 DEF Handles
<1>5. /\ StaysInProgram => StaysInProgram'
      /\ HandlersIn(callStack) # {} => HandlersIn(callStack') # {}
  <2>1. TypeInv /\ callStack # <<>>
    BY <1>1, AtInstruction DEF IInv
  <2> QED BY <1>1, <1>4, <2>1, StaysPopped
<1>6. HandlersIn(callStack') # {}
  BY <1>5, Apart DEF ControlInv
<1> QED BY <1>1, <1>2, <1>3, <1>5, <1>6, UnwindingGoesOn

LEMMA FuncReturnKeeps ==
    ASSUME IInv, StillLeft, ~astray', NEW v \in VMs, FuncReturn(v)
    PROVE  IInv'
<1>1. /\ isUnwinding \in BOOLEAN
      /\ isUnwinding => ~(Last(callStack).traps > 0) /\ Last(callStack).ret # "end"
  BY Apart DEF FuncReturn, ReturnDiverts, Others
<1>2. CASE isUnwinding = FALSE
  BY <1>2, ReturnKeeps DEF FuncReturn
<1>3. CASE isUnwinding
  <2>1. callStack \in Seq(CallSet) /\ callStack # <<>>
    BY AtInstruction DEF FuncReturn, At
  <2>2. Last(callStack).traps = 0
    BY <1>1, <1>3, <2>1, OnTop, BoundAssumption DEF CallSet
  <2> QED BY <1>1, <1>3, <2>2, ReturnUnwindingKeeps
<1> QED BY <1>1, <1>2, <1>3

LEMMA ProgramEndKeeps ==
    ASSUME IInv, StillLeft, isUnwinding = FALSE, NEW v \in VMs, ProgramEnd(v)
    PROVE  IInv'
<1>1. InLoop(v, "exec") /\ Last(callStack).context = "InDeltaGlobalCode"
  BY DEF ProgramEnd, At
<1>2. callStack # <<>> /\ callStack \in Seq(CallSet) /\ CallsNest(callStack)
  BY <1>1, AtInstruction
<1>3. Len(callStack) \in 1..Len(callStack) /\ Last(callStack) = callStack[Len(callStack)]
  BY <1>2, OnTop
<1>4. Last(callStack).ret = "end"
  <2>1. Nests(callStack, Len(callStack))
    BY <1>2, <1>3 DEF CallsNest
  <2> QED BY <1>1, <1>3, <2>1 DEF Nests, IsDeltaCodeContext
<1> QED BY <1>4, ReturnKeeps DEF ProgramEnd

LEMMA OtherInstructionKeeps ==
    ASSUME IInv, StillLeft, NEW v \in VMs, OtherInstruction(v)
    PROVE  IInv'
<1>1. /\ InLoop(v, "exec") /\ pc[v] = "code" /\ cpp' = Executed
      /\ UNCHANGED <<callStack, isUnwinding, shouldUnwind, expectedNativeTrapDisableCalls, callTraces,
                     pc, error, checker>>
  BY DEF OtherInstruction, At, exceptionVars, vmVars
<1>2. /\ Executes(v) /\ cpp' # <<>> /\ Last(cpp').what = "loop" /\ Last(cpp').vm = v
      /\ Last(cpp').phase = "check" /\ Last(cpp').valid
      /\ InStep(callStack', cpp', callTraces', expectedNativeTrapDisableCalls', error')
  BY <1>1, AtInstruction
<1>3. Others'
  BY <1>1, Apart DEF Others
<1>4. ScriptOnTop(v)'
  BY <1>1, <1>2 DEF Executes, ScriptOnTop
<1>5. CASE isUnwinding
  <2>1. HandlersIn(callStack') # {}
    BY <1>1, <1>5, Apart DEF ControlInv
  <2>2. StaysInProgram => StaysInProgram'
    BY <1>1 DEF StaysInProgram, Handlers
  <2> QED BY <1>1, <1>2, <1>3, <1>4, <1>5, <2>1, <2>2, UnwindingGoesOn
<1>6. CASE isUnwinding = FALSE
  <2>1. ~LoopOnTop' /\ pc'[v] = "code" /\ isUnwinding' = FALSE
    BY <1>1, <1>4, <1>6 DEF LoopOnTop, ScriptOnTop, IsLoop, IsDeltaCodeContext
  <2>2. ControlInv'
    BY <1>2, <2>1, LoopControl
  <2> QED BY <1>2, <1>3, <2>1, <2>2, SettledCalmly
<1>7. isUnwinding \in BOOLEAN
  BY Apart DEF Others
<1> QED BY <1>5, <1>6, <1>7

\* A trap block more or less.
LEMMA TrapsKeep ==
    ASSUME IInv, StillLeft, NEW v \in VMs, InLoop(v, "exec"), isUnwinding = FALSE, pc[v] \in {"code", "trap"},
           NEW k \in 0..MaxTraps, callStack' = [callStack EXCEPT ![Len(callStack)].traps = k],
           pc' = [pc EXCEPT ![v] = "code"], cpp' = Executed,
           UNCHANGED <<isUnwinding, shouldUnwind, expectedNativeTrapDisableCalls, callTraces, error,
                       checker>>
    PROVE  IInv'
<1>1. /\ cpp' # <<>> /\ Last(cpp').what = "loop" /\ Last(cpp').vm = v /\ Last(cpp').phase = "check"
      /\ Last(cpp').valid /\ Greatest(Len(cpp'), LiveIn(cpp'))
      /\ InStep(callStack, cpp', callTraces, expectedNativeTrapDisableCalls, error)
      /\ callStack # <<>> /\ IsDeltaCodeContext(Last(callStack))
  BY AtInstruction DEF Executes, ScriptOnTop
<1>2. InStep(callStack', cpp', callTraces', expectedNativeTrapDisableCalls', error')
  BY <1>1, InStepTrapped
<1>3. ~LoopOnTop'
  <2>1. Stacks(callStack, cpp', callTraces, expectedNativeTrapDisableCalls, error)
    BY <1>1 DEF InStep
  <2>2. IsDeltaCodeContext(Last(callStack'))
    BY <1>1, <2>1, StacksTrapped
  <2> QED BY <2>2 DEF LoopOnTop, IsLoop, IsDeltaCodeContext
<1>4. pc'[v] = "code" /\ isUnwinding' = FALSE /\ Others'
  BY Apart DEF Others, Counters
<1>5. ControlInv'
  BY <1>1, <1>3, <1>4, LoopControl
<1> QED BY <1>2, <1>4, <1>5, SettledCalmly

LEMMA TrapActionsKeep ==
    ASSUME IInv, StillLeft, ~astray', NEW v \in VMs, TrapEnable(v) \/ TrapDisable(v) \/ Trap(v)
    PROVE  IInv'
<1>1. /\ InLoop(v, "exec") /\ pc[v] \in {"code", "trap"} /\ cpp' = Executed
      /\ pc' = [pc EXCEPT ![v] = "code"]
      /\ UNCHANGED <<isUnwinding, shouldUnwind, expectedNativeTrapDisableCalls, callTraces, error,
                     checker>>
  <2>1. pc[v] = "code" => pc = [pc EXCEPT ![v] = "code"]
    BY Apart DEF Others
  <2> QED BY <2>1 DEF TrapEnable, TrapDisable, Trap, At, vmVars
<1>2. /\ Executes(v) /\ isUnwinding = FALSE /\ callStack # <<>>
      /\ pc[v] = "trap" => Last(callStack).traps > 0
      /\ callStack \in Seq(CallSet)
  <2>1. Executes(v)
    BY <1>1, AtInstruction
  <2>2. CASE Trap(v)
    BY <1>1, <2>1, <2>2, AtInstruction, Apart DEF Executes, Others, ScriptOnTop, Trap, At
  <2>3. CASE TrapEnable(v) \/ TrapDisable(v)
    <3>1. isUnwinding = FALSE
      BY <2>3, NotDiverted DEF TrapEnable, TrapDisable
    <3> QED BY <1>1, <2>1, <3>1, AtInstruction DEF Executes, ScriptOnTop
  <2> QED BY <2>2, <2>3
<1>3. /\ Last(callStack).traps \in 0..MaxTraps /\ Last(callStack) = callStack[Len(callStack)]
      /\ Len(callStack) \in 1..Len(callStack)
  BY <1>2, OnTop DEF CallSet
<1>4. PICK k \in 0..MaxTraps : callStack' = [callStack EXCEPT ![Len(callStack)].traps = k]
  <2>1. CASE TrapEnable(v)
    <3>1. /\ Last(callStack).traps + 1 \in 0..MaxTraps
          /\ callStack' = [callStack EXCEPT ![Len(callStack)].traps = Last(callStack).traps + 1]
      BY <1>3, <2>1, BoundAssumption DEF TrapEnable
    <3> QED BY <3>1
  <2>2. CASE TrapDisable(v) \/ Trap(v)
    <3>1. /\ Last(callStack).traps - 1 \in 0..MaxTraps
          /\ callStack' = [callStack EXCEPT ![Len(callStack)].traps = Last(callStack).traps - 1]
      BY <1>2, <1>3, <2>2, BoundAssumption DEF TrapDisable, Trap, At
    <3> QED BY <3>1
  <2> QED BY <2>1, <2>2
<1> QED BY <1>1, <1>2, <1>4, TrapsKeep

-----------------------------------------------------------------------------
(* Calls that nest.                                                        *)

LEMMA InStepLoopPushed ==
    ASSUME NEW s, NEW f, NEW ct, NEW n, NEW e, InStep(s, f, ct, n, e),
           NEW v \in VMs, ~e[v], s = <<>> \/ ~IsLoop(Last(s)), f = <<>> \/ Last(f).what # "loop",
           NEW r \in Counters \ {"idle"}, NEW d \in {"InDeltaFunction", "InDeltaGlobalCode"}
    PROVE  LET t == Append(Append(s, Call("InExecutionLoop", v, "end")), Call(d, v, "end"))
           IN  /\ InStep(t, Append(f, LoopFrame(v, r)), Append(ct, Trace(d, v)), n, e)
               /\ t # <<>> /\ IsDeltaCodeContext(Last(t)) /\ Last(t).vm = v
<1> DEFINE b == Call("InExecutionLoop", v, "end")
           c == Call(d, v, "end")
           g == LoopFrame(v, r)
           s1 == Append(s, b)
           f1 == Append(f, g)
<1>1. Stacks(s, f, ct, n, e) /\ s \in Seq(CallSet) /\ f \in Seq(FrameSet)
  BY DEF InStep, Stacks
<1>2. /\ b \in CallSet /\ IsLoop(b) /\ b.vm = v /\ b.context = "InExecutionLoop"
      /\ ~IsNative(b) /\ ~IsDeltaCodeContext(b) /\ ~IsLib(b)
  <2>1. "end" \in Counters \ {"idle"}
    BY DEF Counters
  <2> QED BY <2>1, NewCalls DEF Call, IsLoop, IsNative, IsDeltaCodeContext, IsLib
<1>3. /\ c \in CallSet /\ IsDeltaCodeContext(c) /\ c.vm = v /\ c.context = d /\ c.ret = "end"
      /\ c.traps = 0 /\ ~IsLib(c) /\ ~IsLoop(c)
  <2>1. "end" \in Counters \ {"idle"}
    BY DEF Counters
  <2> QED BY <2>1, NewCalls DEF Call, IsDeltaCodeContext, IsLib, IsLoop
<1>4. /\ g \in FrameSet /\ g.valid /\ g.what = "loop" /\ g.vm = v
      /\ ContextOf(g.what) = "InExecutionLoop"
  BY NewFrames DEF LoopFrame, ContextOf
<1> HIDE DEF b, c, g
<1>5. InStep(s1, f1, IF IsLoop(b) \/ IsNative(b) THEN ct ELSE Append(ct, Trace(b.context, b.vm)),
             IF IsNative(b) THEN n + 1 ELSE n, e)
  <2>1. MayPush(s, b)
    BY <1>2 DEF MayPush
  <2> QED BY <1>2, <1>4, <2>1, InStepBothPushed
<1>6. InStep(s1, f1, ct, n, e)
  BY <1>2, <1>5
<1>7. s1 \in Seq(CallSet) /\ s1 # <<>> /\ Last(s1) = b
  BY <1>1, <1>2, Pushing
<1> HIDE DEF s1, f1
<1>8. MayPush(s1, c)
  BY <1>2, <1>3, <1>7 DEF MayPush
<1>9. InStep(Append(s1, c), f1, Append(ct, Trace(d, v)), n, e)
  BY <1>3, <1>6, <1>8, InStepScriptPushed
<1>10. Append(s1, c) # <<>> /\ Last(Append(s1, c)) = c
  BY <1>3, <1>7, Pushing
<1> QED BY <1>3, <1>9, <1>10 DEF b, c, g, s1, f1

\* Native code.
LEMMA AtNative ==
    ASSUME IInv, StillLeft, AtNativeCode
    PROVE  /\ InStep(callStack, cpp, callTraces, expectedNativeTrapDisableCalls, error)
           /\ isUnwinding = FALSE /\ ~LoopOnTop /\ ~Top("loop")
           /\ callStack = <<>> \/ ~IsLoop(Last(callStack))
           /\ cpp = <<>> \/ Last(cpp).what # "loop"
<1>1. ~isUnwinding /\ isUnwinding = FALSE
  BY Apart DEF AtNativeCode, Others
<1>2. ~Top("loop")
  BY DEF AtNativeCode, Top
<1>3. ~LoopOnTop
  BY <1>2, Apart DEF ControlInv
<1>4. ~LibGone /\ ~LibLeft
  BY <1>1 DEF LibGone, LibLeft
<1> QED BY <1>1, <1>2, <1>3, <1>4, Normal DEF Top, LoopOnTop

LEMMA LoopEntryKeeps ==
    ASSUME IInv, StillLeft, NEW v \in VMs, isUnwinding = FALSE, ~error[v],
           NEW control, InStep(callStack, control, callTraces, expectedNativeTrapDisableCalls, error),
           callStack = <<>> \/ ~IsLoop(Last(callStack)),
           control = <<>> \/ Last(control).what # "loop",
           NEW r \in Counters \ {"idle"}, NEW d \in {"InDeltaFunction", "InDeltaGlobalCode"},
           callStack' = callStack \o <<Call("InExecutionLoop", v, "end"), Call(d, v, "end")>>,
           callTraces' = Append(callTraces, Trace(d, v)),
           cpp' = Append(control, LoopFrame(v, r)),
           pc' = [pc EXCEPT ![v] = "code"], checker' = [checker EXCEPT ![v] = FALSE],
           UNCHANGED <<isUnwinding, shouldUnwind, expectedNativeTrapDisableCalls, error>>
    PROVE  IInv'
<1>1. /\ InStep(callStack', cpp', callTraces', expectedNativeTrapDisableCalls', error')
      /\ callStack' # <<>> /\ IsDeltaCodeContext(Last(callStack')) /\ Last(callStack').vm = v
  <2> DEFINE b == Call("InExecutionLoop", v, "end")
             c == Call(d, v, "end")
             t == Append(Append(callStack, b), c)
  <2>1. /\ InStep(t, Append(control, LoopFrame(v, r)), Append(callTraces, Trace(d, v)),
                  expectedNativeTrapDisableCalls, error)
        /\ t # <<>> /\ IsDeltaCodeContext(Last(t)) /\ Last(t).vm = v
    BY InStepLoopPushed
  <2>2. callStack \in Seq(CallSet)
    BY DEF IInv, TypeInv
  <2>3. b \in CallSet /\ c \in CallSet
    <3>1. "end" \in Counters \ {"idle"}
      BY DEF Counters
    <3> QED BY <3>1, NewCalls
  <2> HIDE DEF t, b, c
  <2>4. callStack' = callStack \o <<b, c>>
    BY DEF b, c
  <2>5. callStack' = t
    BY <2>2, <2>3, <2>4, PushingTwo DEF t
  <2> QED BY <2>1, <2>5
<1>2. /\ cpp' # <<>> /\ Last(cpp').what = "loop" /\ Last(cpp').vm = v
      /\ Last(cpp').phase = "exec" /\ Last(cpp').valid
  <2>1. control \in Seq(FrameSet)
    BY DEF InStep, Stacks
  <2>2. LoopFrame(v, r) \in FrameSet
    BY NewFrames
  <2>3. cpp' # <<>> /\ Last(cpp') = LoopFrame(v, r)
    BY <2>1, <2>2, Pushing
  <2> QED BY <2>3 DEF LoopFrame
<1>3. pc'[v] = "code" /\ isUnwinding' = FALSE /\ Others'
  BY Apart DEF Others, Counters
<1>4. ScriptOnTop(v)'
  BY <1>1 DEF ScriptOnTop
<1>5. ControlInv'
  BY <1>2, <1>3, <1>4, StartControl
<1> QED BY <1>1, <1>3, <1>5, SettledCalmly

LEMMA RunKeeps ==
    ASSUME IInv, StillLeft, NEW v \in VMs, Run(v)
    PROVE  IInv'
<1>1. AtNativeCode /\ ~error[v]
  BY Apart DEF Run, Others
<1>2. "end" \in Counters \ {"idle"}
  BY DEF Counters
<1> QED BY <1>1, <1>2, AtNative, LoopEntryKeeps DEF Run

LEMMA CallInNewLoopKeeps ==
    ASSUME IInv, StillLeft, NEW v \in VMs, isUnwinding = FALSE,
           NEW control, InStep(callStack, control, callTraces, expectedNativeTrapDisableCalls, error),
           callStack = <<>> \/ ~IsLoop(Last(callStack)),
           control = <<>> \/ Last(control).what # "loop", CallInNewLoop(v, control)
    PROVE  IInv'
<1>1. pc[v] \in Counters \ {"idle"} /\ ~error[v]
  BY Apart DEF CallInNewLoop, Others
<1> QED BY <1>1, LoopEntryKeeps DEF CallInNewLoop

LEMMA ExtCallKeeps ==
    ASSUME IInv, StillLeft, NEW v \in VMs, ExtCall(v)
    PROVE  IInv'
BY AtNative, CallInNewLoopKeeps DEF ExtCall

LEMMA CallOtherKeeps ==
    ASSUME IInv, StillLeft, isUnwinding = FALSE, NEW v \in VMs, NEW w \in VMs, CallOther(v, w)
    PROVE  IInv'
<1> DEFINE control == Append(Executed, CrossFrame(v, w))
<1>1. InLoop(v, "exec") /\ pc[v] = "code" /\ CallInNewLoop(w, control)
  BY DEF CallOther, At
<1>2. /\ InStep(callStack, Executed, callTraces, expectedNativeTrapDisableCalls, error)
      /\ ~error[v] /\ Executed # <<>> /\ Last(Executed).what = "loop"
      /\ Last(Executed).phase = "check" /\ Last(Executed).vm = v /\ Executes(v)
  BY <1>1, AtInstruction
<1>3. InStep(callStack, control, callTraces, expectedNativeTrapDisableCalls, error)
  BY <1>2, InStepCrossPushed
<1>4. Last(control).what = "cross"
  <2>1. Executed \in Seq(FrameSet) /\ CrossFrame(v, w) \in FrameSet
    BY <1>2, NewFrames DEF InStep, Stacks
  <2>2. Last(control) = CrossFrame(v, w)
    BY <2>1, Pushing
  <2> QED BY <2>2 DEF CrossFrame
<1>5. ~IsLoop(Last(callStack))
  BY <1>2 DEF Executes, ScriptOnTop, IsDeltaCodeContext, IsLoop
<1> HIDE DEF control
<1> QED BY <1>1, <1>3, <1>4, <1>5, CallInNewLoopKeeps

LEMMA CallLibraryKeeps ==
    ASSUME IInv, StillLeft, isUnwinding = FALSE, NEW v \in VMs, CallLibrary(v)
    PROVE  IInv'
<1> DEFINE c == Call("InLibraryFunction", v, "code")
           g == LibFrame(v)
<1>1. InLoop(v, "exec") /\ pc[v] = "code"
  BY DEF CallLibrary, At
<1>2. /\ InStep(callStack, Executed, callTraces, expectedNativeTrapDisableCalls, error)
      /\ ~error[v] /\ Executed # <<>> /\ Last(Executed).what = "loop"
      /\ Last(Executed).phase = "check" /\ Last(Executed).vm = v /\ Executes(v)
      /\ callStack \in Seq(CallSet)
  BY <1>1, AtInstruction
<1>3. /\ c \in CallSet /\ c.vm = v /\ c.context = "InLibraryFunction" /\ c.ret = "code"
      /\ ~IsDeltaCodeContext(c) /\ ~IsLoop(c) /\ ~IsNative(c) /\ IsLib(c)
  <2>1. "code" \in Counters \ {"idle"}
    BY DEF Counters
  <2> QED BY <2>1, NewCalls DEF Call, IsDeltaCodeContext, IsLoop, IsNative, IsLib
<1>4. /\ g \in FrameSet /\ g.valid /\ g.what = "lib" /\ g.vm = v
      /\ ContextOf(g.what) = "InLibraryFunction"
  BY NewFrames DEF LibFrame, ContextOf
<1>5. /\ callStack' = Append(callStack, c) /\ cpp' = Append(Executed, g)
      /\ callTraces' = Append(callTraces, Trace(c.context, c.vm))
      /\ UNCHANGED <<isUnwinding, shouldUnwind, expectedNativeTrapDisableCalls, vmVars>>
  BY <1>3 DEF CallLibrary
<1> HIDE DEF c, g
<1>6. InStep(callStack', cpp', callTraces', expectedNativeTrapDisableCalls', error')
  <2>1. MayPush(callStack, c)
    BY <1>2, <1>3 DEF MayPush, Executes, ScriptOnTop, IsDeltaCodeContext, IsLoop
  <2>2. InStep(Append(callStack, c), Append(Executed, g),
               IF IsLoop(c) \/ IsNative(c) THEN callTraces ELSE Append(callTraces, Trace(c.context, c.vm)),
               IF IsNative(c) THEN expectedNativeTrapDisableCalls + 1
               ELSE expectedNativeTrapDisableCalls, error)
    BY <1>2, <1>3, <1>4, <2>1, InStepBothPushed
  <2> QED BY <1>3, <1>5, <2>2 DEF vmVars
<1>7. ~LoopOnTop' /\ ~Top("loop")'
  <2>1. Last(callStack') = c
    BY <1>2, <1>3, <1>5, Pushing
  <2>2. Executed \in Seq(FrameSet)
    BY <1>2 DEF InStep, Stacks
  <2>3. Last(cpp') = g
    BY <1>4, <1>5, <2>2, Pushing
  <2> QED BY <1>3, <1>4, <2>1, <2>3 DEF LoopOnTop, Top
<1>8. isUnwinding' = FALSE /\ Others'
  BY <1>5, Apart DEF Others, vmVars
<1> QED BY <1>6, <1>7, <1>8, NativeControl, SettledCalmly

-----------------------------------------------------------------------------
(* Native try blocks.                                                      *)

LEMMA NativeTryKeeps ==
    ASSUME IInv, StillLeft, NativeTry
    PROVE  IInv'
<1> DEFINE c == Call("InNativeCode", NoVM, "end")
           g == TryFrame
<1>1. AtNativeCode
  BY DEF NativeTry
<1>2. /\ InStep(callStack, cpp, callTraces, expectedNativeTrapDisableCalls, error)
      /\ isUnwinding = FALSE
      /\ callStack = <<>> \/ ~IsLoop(Last(callStack))
      /\ cpp = <<>> \/ Last(cpp).what \in {"lib", "try"}
      /\ callStack \in Seq(CallSet) /\ cpp \in Seq(FrameSet)
  BY <1>1, AtNative DEF AtNativeCode, Top, IInv, TypeInv
<1>3. /\ c \in CallSet /\ c.vm = NoVM /\ c.context = "InNativeCode" /\ IsNative(c)
      /\ ~IsDeltaCodeContext(c) /\ ~IsLoop(c) /\ ~IsLib(c)
  <2>1. c \in CallSet
    BY BoundAssumption DEF Call, CallSet, Contexts, Counters, IsNative, IsDeltaCodeContext
  <2> QED BY <2>1 DEF Call, IsDeltaCodeContext, IsLoop, IsNative, IsLib
<1>4. /\ g \in FrameSet /\ g.valid /\ g.what = "try" /\ g.vm = NoVM
      /\ ContextOf(g.what) = "InNativeCode"
  BY DEF TryFrame, ContextOf, FrameSet, TryFrames
<1>5. /\ callStack' = Append(callStack, c) /\ cpp' = Append(cpp, g)
      /\ expectedNativeTrapDisableCalls' = expectedNativeTrapDisableCalls + 1
      /\ UNCHANGED <<isUnwinding, shouldUnwind, callTraces, vmVars>>
  BY DEF NativeTry
<1> HIDE DEF c, g
<1>6. InStep(callStack', cpp', callTraces', expectedNativeTrapDisableCalls', error')
  <2>1. MayPush(callStack, c)
    BY <1>2, <1>3 DEF MayPush
  <2>2. cpp # <<>> => Last(cpp).what # "loop"
    BY <1>2
  <2>3. InStep(Append(callStack, c), Append(cpp, g),
               IF IsLoop(c) \/ IsNative(c) THEN callTraces ELSE Append(callTraces, Trace(c.context, c.vm)),
               IF IsNative(c) THEN expectedNativeTrapDisableCalls + 1
               ELSE expectedNativeTrapDisableCalls, error)
    BY <1>2, <1>3, <1>4, <2>1, <2>2, InStepBothPushed
  <2> QED BY <1>3, <1>5, <2>3 DEF vmVars
<1>7. ~LoopOnTop' /\ ~Top("loop")'
  <2>1. Last(callStack') = c /\ Last(cpp') = g
    BY <1>2, <1>3, <1>4, <1>5, Pushing
  <2> QED BY <1>3, <1>4, <2>1 DEF LoopOnTop, Top
<1>8. isUnwinding' = FALSE /\ Others'
  BY <1>2, <1>5, Apart DEF Others, vmVars
<1> QED BY <1>6, <1>7, <1>8, NativeControl, SettledCalmly

\* The newest call under a call that is not script code is not a loop.
LEMMA NoLoopUnder ==
    ASSUME NEW s \in Seq(CallSet), s # <<>>, CallsNest(s), ~IsDeltaCodeContext(Last(s))
    PROVE  Front(s) = <<>> \/ ~IsLoop(Last(Front(s)))
<1> DEFINE k == Len(s) - 1
<1>1. /\ Len(s) \in Nat \ {0} /\ Last(s) = s[Len(s)]
      /\ k > 0 => Last(Front(s)) = s[k]
      /\ k = 0 => Front(s) = <<>>
  BY OnTop, Popping
<1>2. ASSUME k > 0 PROVE ~IsLoop(s[k])
  <2>1. k \in 1..Len(s) /\ k < Len(s) /\ k + 1 = Len(s)
    BY <1>1, <1>2
  <2>2. Nests(s, k)
    BY <2>1 DEF CallsNest
  <2> QED BY <1>1, <2>1, <2>2 DEF Nests
<1>3. k \in Nat
  BY <1>1
<1> HIDE DEF k
<1> QED BY <1>1, <1>2, <1>3

\* A native try block ends.
LEMMA TryEndKeeps ==
    ASSUME IInv, StillLeft, Top("try"),
           cpp' = Front(cpp), callStack' = Front(callStack),
           expectedNativeTrapDisableCalls' = expectedNativeTrapDisableCalls - 1,
           isUnwinding' = FALSE, shouldUnwind' \in BOOLEAN, UNCHANGED <<callTraces, vmVars>>
    PROVE  IInv'
<1>1. /\ callStack \in Seq(CallSet) /\ CallsNest(callStack) /\ cpp \in Seq(FrameSet)
      /\ FramesNest(cpp) /\ cpp # <<>> /\ Last(cpp).what = "try"
  BY DEF IInv, TypeInv, Top
<1>2. Last(cpp).valid
  BY <1>1, OnTop, FrameFacts
<1>3. ~LibGone /\ ~LibLeft
  BY <1>1 DEF LibGone, LibLeft, Top
<1>4. /\ callStack # <<>> /\ IsNative(Last(callStack))
      /\ Greatest(Len(cpp), LiveIn(cpp)) /\ Greatest(Len(callStack), CallsIn(callStack))
  BY <1>2, <1>3, NativeFacts
<1>5. InStep(callStack', cpp', callTraces', expectedNativeTrapDisableCalls', error')
  <2>1. InStep(callStack, cpp, callTraces, expectedNativeTrapDisableCalls, error)
    BY <1>3, Normal
  <2>2. InStep(Front(callStack), Front(cpp),
               IF IsLoop(Last(callStack)) \/ IsNative(Last(callStack)) THEN callTraces
               ELSE Front(callTraces),
               IF IsNative(Last(callStack)) THEN expectedNativeTrapDisableCalls - 1
               ELSE expectedNativeTrapDisableCalls, error)
    BY <1>1, <1>4, <2>1, InStepBothPopped
  <2> QED BY <1>4, <2>2 DEF vmVars
<1>6. ~LoopOnTop'
  BY <1>1, <1>4, NoLoopUnder DEF LoopOnTop, IsNative, IsDeltaCodeContext
<1>7. ~Top("loop")'
  <2>1. Front(cpp) = <<>> \/ Last(Front(cpp)).what \in {"lib", "try"}
    BY <1>1, FramePopped
  <2> QED BY <2>1 DEF Top
<1>8. Others'
  BY Apart DEF Others, vmVars
<1> QED BY <1>5, <1>6, <1>7, <1>8, NativeControl, SettledCalmly

LEMMA NativeTrapDisableKeeps ==
    ASSUME IInv, StillLeft, NativeTrapDisable
    PROVE  IInv'
<1>1. Top("try") /\ ~isUnwinding /\ isUnwinding = FALSE
  BY Apart DEF NativeTrapDisable, Others
<1>2. expectedNativeTrapDisableCalls > 0
  <2>1. ~LibGone
    BY <1>1 DEF LibGone
  <2>2. Last(cpp).valid
    BY <1>1, OnTop, FrameFacts DEF IInv, TypeInv, Top
  <2>3. callStack # <<>> /\ IsNative(Last(callStack))
    BY <1>1, <2>1, <2>2, NativeFacts
  <2>4. Len(callStack) \in NativesIn(callStack) /\ Len(callStack) \in Nat
    BY <2>3, OnTop DEF IInv, TypeInv, NativesIn
  <2>5. IsFiniteSet(NativesIn(callStack))
    BY <2>4, PositionTypes
  <2>6. Cardinality(NativesIn(callStack)) \in Nat /\ Cardinality(NativesIn(callStack)) # 0
    BY <2>4, <2>5, FS_CardinalityType, FS_EmptySet
  <2> QED BY <2>6 DEF IInv, NativeInv
<1> QED BY <1>1, <1>2, TryEndKeeps, Apart DEF NativeTrapDisable, Others

LEMMA NativeTrapKeeps ==
    ASSUME IInv, StillLeft, NativeTrap
    PROVE  IInv'
BY TryEndKeeps DEF NativeTrap

-----------------------------------------------------------------------------
(* The execution loop between the instructions.                            *)

\* The newest loop in another phase.
LEMMA AtLoop ==
    ASSUME IInv, StillLeft, NEW v \in VMs, NEW p, InLoop(v, p), NEW q \in Phases,
           q \in {"exec", "unwound"} => Last(cpp).valid
    PROVE  LET f == [cpp EXCEPT ![Len(cpp)].phase = q]
           IN  /\ Top("loop") /\ cpp # <<>> /\ Last(cpp).what = "loop" /\ Last(cpp).vm = v
               /\ f # <<>> /\ Last(f).what = "loop" /\ Last(f).vm = v /\ Last(f).phase = q
               /\ Last(f).valid = Last(cpp).valid
               /\ Len(f) = Len(cpp) /\ LiveIn(f) = LiveIn(cpp)
               /\ \A j \in 1..Len(cpp) : /\ f[j].what = cpp[j].what /\ f[j].vm = cpp[j].vm
                                         /\ f[j].valid = cpp[j].valid
               /\ Stacks(callStack, f, callTraces, expectedNativeTrapDisableCalls, error)
               /\ Matches(LiveIn(cpp), MatchedCalls, callStack, f)
               /\ Last(cpp).valid <=> ~error[v]
<1> DEFINE f == [cpp EXCEPT ![Len(cpp)].phase = q]
<1>1. /\ Top("loop") /\ cpp # <<>> /\ Last(cpp).what = "loop" /\ Last(cpp).vm = v
      /\ cpp \in Seq(FrameSet) /\ FramesNest(cpp) /\ v # NoVM
  BY NoVMAssumption DEF InLoop, Top, IInv, TypeInv
<1>2. Last(cpp).valid <=> ~error[v]
  BY <1>1, OnTop DEF IInv, ErrorInv
<1>3. /\ f # <<>> /\ Last(f).what = "loop" /\ Last(f).vm = v /\ Last(f).phase = q
      /\ Last(f).valid = Last(cpp).valid
      /\ Len(f) = Len(cpp) /\ LiveIn(f) = LiveIn(cpp)
  BY <1>1, FramePhased
<1>4. \A j \in 1..Len(cpp) : /\ f[j].what = cpp[j].what /\ f[j].vm = cpp[j].vm
                             /\ f[j].valid = cpp[j].valid
  BY <1>1, FramePhased
<1>5. Stacks(callStack, f, callTraces, expectedNativeTrapDisableCalls, error)
  BY <1>1, Apart, StacksPhased DEF StacksNow
<1> HIDE DEF f
<1>6. Matches(LiveIn(cpp), MatchedCalls, callStack, f)
  <2>1. MatchedFrames = LiveIn(cpp) /\ Matches(MatchedFrames, MatchedCalls, callStack, cpp)
    BY <1>1, Apart DEF MatchedFrames, LibGone, Top
  <2>2. /\ LiveIn(cpp) \in SUBSET Int /\ MatchedCalls \in SUBSET Int
        /\ \A j \in MatchedFrames : j \in 1..Len(cpp)
    BY MatchedTypes DEF IInv
  <2>3. SameFramesAt(LiveIn(cpp), cpp, f) /\ NoneExpired(cpp, f)
    BY <1>3, <1>4, <2>1, <2>2 DEF SameFramesAt, NoneExpired
  <2> QED BY <2>1, <2>2, <2>3, SameFrames
<1> QED BY <1>1, <1>2, <1>3, <1>4, <1>5, <1>6 DEF f

LEMMA LoopPhaseKeeps ==
    ASSUME IInv, StillLeft, NEW v \in VMs, NEW p, InLoop(v, p), NEW q \in Phases \ {"check"},
           q \in {"exec", "unwound"} => Last(cpp).valid,
           cpp' = [cpp EXCEPT ![Len(cpp)].phase = q],
           UNCHANGED <<callStack, isUnwinding, expectedNativeTrapDisableCalls, callTraces, pc, error>>,
           shouldUnwind' \in BOOLEAN, checker' \in [VMs -> BOOLEAN],
           isUnwinding => checker' = checker,
           Last(cpp).valid /\ q = "exec" => Executes(v)',
           Last(cpp).valid /\ q = "unwound" => Unwound(v)',
           Last(cpp).valid /\ q = "exit" => Exits'
    PROVE  IInv'
<1>1. /\ Top("loop") /\ cpp' # <<>> /\ Last(cpp').what = "loop" /\ Last(cpp').vm = v
      /\ Last(cpp').phase = q /\ Last(cpp').valid = Last(cpp).valid
      /\ Len(cpp') = Len(cpp) /\ LiveIn(cpp') = LiveIn(cpp)
  BY AtLoop
<1>2. \A j \in 1..Len(cpp) : /\ cpp'[j].what = cpp[j].what /\ cpp'[j].vm = cpp[j].vm
                             /\ cpp'[j].valid = cpp[j].valid
  BY AtLoop
<1>3. /\ Stacks(callStack, cpp', callTraces, expectedNativeTrapDisableCalls, error)
      /\ Matches(LiveIn(cpp), MatchedCalls, callStack, cpp')
  BY AtLoop
<1>4. Stacks(callStack', cpp', callTraces', expectedNativeTrapDisableCalls', error')
  BY <1>3
<1>5. MatchedFrames' = LiveIn(cpp) /\ MatchedCalls' = MatchedCalls
  BY <1>1 DEF MatchedFrames, MatchedCalls, LibGone, LibLeft, Top
<1>6. Matches(MatchedFrames', MatchedCalls', callStack', cpp')
  BY <1>3, <1>5
<1>7. Others'
  BY Apart DEF Others
<1>8. AllChecked => AllChecked'
  BY <1>1, <1>2 DEF AllChecked
<1>9. (StaysInProgram' <=> StaysInProgram) /\ (LoopOnTop' <=> LoopOnTop) /\ Top("loop")'
  BY <1>1 DEF StaysInProgram, Handlers, LoopOnTop, Top
<1>10. LoopInv'
  BY <1>1 DEF LoopInv
<1>11. ControlInv'
  BY <1>1, <1>8, <1>9, <1>10, Apart DEF ControlInv, StillLeft
<1> QED BY <1>4, <1>6, <1>7, <1>11, Together

LEMMA LoopFailedKeeps ==
    ASSUME IInv, StillLeft, NEW v \in VMs, LoopFailed(v)
    PROVE  IInv'
<1>1. /\ InLoop(v, "check") /\ (error[v] \/ ~Last(cpp).valid) /\ "exit" \in Phases \ {"check"}
      /\ cpp' = [cpp EXCEPT ![Len(cpp)].phase = "exit"]
      /\ UNCHANGED <<exceptionVars, expectedNativeTrapDisableCalls, callTraces, vmVars>>
  BY DEF LoopFailed, Proceed, Phases
<1>2. ~Last(cpp).valid
  BY <1>1, AtLoop
<1>3. shouldUnwind' \in BOOLEAN /\ checker' \in [VMs -> BOOLEAN] /\ checker' = checker
  BY <1>1, Apart DEF Others, exceptionVars, vmVars
<1> QED BY <1>1, <1>2, <1>3, LoopPhaseKeeps DEF exceptionVars, vmVars

LEMMA LoopGoesOnKeeps ==
    ASSUME IInv, StillLeft, NEW v \in VMs, LoopGoesOn(v)
    PROVE  IInv'
<1> DEFINE q == IF pc[v] = "end" THEN "exit" ELSE "exec"
<1>1. /\ InLoop(v, "check") /\ Last(cpp).valid /\ ~(checker[v] /\ isUnwinding)
      /\ q \in Phases \ {"check"} /\ checker' = [checker EXCEPT ![v] = FALSE]
      /\ cpp' = [cpp EXCEPT ![Len(cpp)].phase = q]
      /\ UNCHANGED <<callStack, isUnwinding, shouldUnwind, expectedNativeTrapDisableCalls, callTraces,
                     pc, error>>
  BY DEF LoopGoesOn, Proceed, Phases, exceptionVars
<1>2. /\ Top("loop") /\ cpp # <<>> /\ Last(cpp).vm = v /\ Last(cpp).phase = "check"
      /\ cpp \in Seq(FrameSet)
  BY <1>1 DEF InLoop, Top, IInv, TypeInv
<1>3. ~isUnwinding
  <2>1. Len(cpp) \in 1..Len(cpp) /\ Last(cpp) = cpp[Len(cpp)]
    BY <1>2, OnTop
  <2> QED BY <1>1, <1>2, <2>1, Apart DEF ControlInv, AllChecked, Top
<1>4. Checks(v)
  BY <1>1, <1>2, Apart DEF ControlInv, LoopInv
<1>5. pc[v] \in Counters /\ callStack # <<>> /\ (LoopOnTop \/ ScriptOnTop(v))
  BY <1>1, <1>2, <1>3, LoopFacts, Apart DEF Others
<1>6. shouldUnwind' \in BOOLEAN /\ checker' \in [VMs -> BOOLEAN]
  BY <1>1, Apart DEF Others
<1>7. q = "exec" => Executes(v)'
  BY <1>1, <1>3, <1>4, <1>5 DEF Executes, Checks, ScriptOnTop, Counters
<1>8. q = "exit" => Exits'
  BY <1>1, <1>3, <1>4 DEF Exits, Checks, LoopOnTop
<1>9. q # "unwound"
  OBVIOUS
<1> HIDE DEF q
<1> QED BY <1>1, <1>3, <1>6, <1>7, <1>8, <1>9, LoopPhaseKeeps

LEMMA LoopUnwoundKeeps ==
    ASSUME IInv, StillLeft, NEW v \in VMs, LoopUnwound(v)
    PROVE  IInv'
<1>1. /\ InLoop(v, "unwound")
      /\ UNCHANGED <<callStack, isUnwinding, expectedNativeTrapDisableCalls, callTraces, pc, error, checker>>
  BY DEF LoopUnwound, vmVars
<1>2. /\ Top("loop") /\ cpp # <<>> /\ Last(cpp).vm = v /\ Last(cpp).phase = "unwound"
      /\ Last(cpp).valid
  BY <1>1, OnTop, FrameFacts DEF InLoop, Top, IInv, TypeInv
<1>3. Unwound(v)
  BY <1>2, Apart DEF ControlInv, LoopInv
<1>4. checker' \in [VMs -> BOOLEAN] /\ checker' = checker /\ isUnwinding \in BOOLEAN
      /\ shouldUnwind \in BOOLEAN
  BY <1>1, Apart DEF Others
<1>5. CASE isUnwinding /\ ~shouldUnwind
  <2>1. /\ shouldUnwind' = TRUE /\ cpp' = [cpp EXCEPT ![Len(cpp)].phase = "exit"]
        /\ "exit" \in Phases \ {"check"}
    BY <1>5 DEF LoopUnwound, Proceed, Phases
  <2>2. Exits'
    BY <1>1, <1>3, <1>5, <2>1 DEF Exits, Unwound, LoopOnTop
  <2> QED BY <1>1, <1>2, <1>4, <2>1, <2>2, LoopPhaseKeeps
<1>6. CASE ~(isUnwinding /\ ~shouldUnwind)
  <2>1. pc[v] # "end" /\ ScriptOnTop(v) /\ pc[v] \in {"trap", "code"}
        /\ (pc[v] = "trap" => Last(callStack).traps > 0)
        /\ (isUnwinding => shouldUnwind /\ pc[v] = "code")
    BY <1>3, <1>6 DEF Unwound
  <2>2. /\ shouldUnwind' = shouldUnwind /\ cpp' = [cpp EXCEPT ![Len(cpp)].phase = "exec"]
        /\ "exec" \in Phases \ {"check"}
    BY <1>6, <2>1 DEF LoopUnwound, Proceed, Phases
  <2>3. Executes(v)'
    BY <1>1, <2>1, <2>2 DEF Executes, ScriptOnTop
  <2> QED BY <1>1, <1>2, <1>4, <2>2, <2>3, LoopPhaseKeeps
<1> QED BY <1>5, <1>6

\* The loop is told to unwind, but the unwinding has come to it already.
LEMMA LoopIsUnwoundKeeps ==
    ASSUME IInv, StillLeft, NEW v \in VMs, LoopUnwinds(v), ~shouldUnwind
    PROVE  IInv'
<1>1. /\ InLoop(v, "check") /\ Last(cpp).valid /\ isUnwinding
      /\ "unwound" \in Phases \ {"check"}
      /\ cpp' = [cpp EXCEPT ![Len(cpp)].phase = "unwound"]
      /\ UNCHANGED <<exceptionVars, expectedNativeTrapDisableCalls, callTraces, vmVars>>
  BY DEF LoopUnwinds, Proceed, Phases, vmVars
<1>2. Top("loop") /\ Last(cpp).vm = v /\ Last(cpp).phase = "check"
  BY <1>1 DEF InLoop
<1>3. Checks(v)
  BY <1>1, <1>2, Apart DEF ControlInv, LoopInv
<1>4. Unwound(v)'
  BY <1>1, <1>3 DEF Unwound, Checks, LoopOnTop, exceptionVars
<1>5. shouldUnwind' \in BOOLEAN /\ checker' \in [VMs -> BOOLEAN] /\ checker' = checker
  BY <1>1, Apart DEF Others, exceptionVars, vmVars
<1> QED BY <1>1, <1>4, <1>5, LoopPhaseKeeps DEF exceptionVars, vmVars

-----------------------------------------------------------------------------
(* C++ calls that return.                                                  *)

\* An exception is as checked, and as far from global code, as before.
LEMMA CheckedPopped ==
    ASSUME TypeInv, FramesNest(cpp), cpp # <<>>, cpp' = Front(cpp), checker' = checker,
           isUnwinding' = isUnwinding, AllChecked
    PROVE  AllChecked'
<1>1. /\ Len(cpp) \in Nat \ {0} /\ Len(cpp') = Len(cpp) - 1
      /\ \A j \in 1..Len(cpp') : cpp'[j] = cpp[j]
  BY FramePopped DEF TypeInv
<1>2. \A j \in 1..Len(cpp') : j \in 1..Len(cpp)
  BY <1>1
<1> QED BY <1>1, <1>2 DEF AllChecked

LEMMA LoopExitKeeps ==
    ASSUME IInv, StillLeft, NEW v \in VMs, LoopExit(v)
    PROVE  IInv'
<1>1. /\ Top("loop") /\ cpp # <<>> /\ Last(cpp).what = "loop" /\ Last(cpp).vm = v
      /\ Last(cpp).phase = "exit" /\ cpp' = Front(cpp)
      /\ cpp \in Seq(FrameSet) /\ FramesNest(cpp) /\ callStack \in Seq(CallSet)
      /\ CallsNest(callStack) /\ v # NoVM
      /\ UNCHANGED <<isUnwinding, shouldUnwind, expectedNativeTrapDisableCalls, callTraces,
                     error, checker>>
  BY NoVMAssumption DEF LoopExit, InLoop, Top, IInv, TypeInv
<1>2. Last(cpp).valid <=> ~error[v]
  BY <1>1, OnTop DEF IInv, ErrorInv
<1>3. ~Top("loop")'
  <2>1. Front(cpp) = <<>> \/ Last(Front(cpp)).what # "loop"
    BY <1>1, FramePopped
  <2> QED BY <1>1, <2>1 DEF Top
<1>4. ~LibGone
  BY <1>1 DEF LibGone, Top
<1>5. CASE Last(cpp).valid
  <2>1. Exits
    BY <1>1, <1>5, Apart DEF ControlInv, LoopInv
  <2>2. callStack # <<>> /\ IsLoop(Last(callStack)) /\ ~IsDeltaCodeContext(Last(callStack))
        /\ ~IsLib(Last(callStack)) /\ ~IsNative(Last(callStack)) /\ ~Handles(Last(callStack))
    BY <2>1 DEF Exits, LoopOnTop, IsLoop, IsDeltaCodeContext, IsLib, IsNative, Handles
  <2>3. InStep(callStack, cpp, callTraces, expectedNativeTrapDisableCalls, error)
    BY <1>4, <2>2, Normal DEF LibLeft
  <2>4. Greatest(Len(cpp), LiveIn(cpp))
    BY <1>1, <1>5, LoopFacts
  <2>5. Greatest(Len(callStack), CallsIn(callStack))
    <3>1. Len(callStack) \in CallsIn(callStack)
      BY <1>1, <2>2, OnTop DEF CallsIn
    <3>2. \A i \in CallsIn(callStack) : i <= Len(callStack)
      BY <2>3, Positions DEF InStep
    <3> QED BY <3>1, <3>2 DEF Greatest
  <2>6. callStack' = Front(callStack) /\ pc' = [pc EXCEPT ![v] = Last(cpp).saved]
    BY <1>2, <1>5 DEF LoopExit
  <2>7. InStep(callStack', cpp', callTraces', expectedNativeTrapDisableCalls', error')
    <3>1. InStep(Front(callStack), Front(cpp),
                 IF IsLoop(Last(callStack)) \/ IsNative(Last(callStack)) THEN callTraces
                 ELSE Front(callTraces),
                 IF IsNative(Last(callStack)) THEN expectedNativeTrapDisableCalls - 1
                 ELSE expectedNativeTrapDisableCalls, error)
      BY <1>1, <2>2, <2>3, <2>4, <2>5, InStepBothPopped
    <3> QED BY <1>1, <2>2, <2>6, <3>1
  <2>8. ~LoopOnTop'
    BY <1>1, <2>2, <2>6, NoLoopUnder DEF LoopOnTop
  <2>9. Others'
    <3>1. Last(cpp).saved \in Counters \ {"idle"}
      BY <1>1, OnTop, FrameFacts
    <3> QED BY <1>1, <2>6, <3>1, Apart DEF Others
  <2>10. isUnwinding => /\ HandlersIn(callStack') # {} /\ shouldUnwind' /\ AllChecked'
                        /\ (leftProgram' \/ StaysInProgram')
    <3>1. isUnwinding => HandlersIn(callStack) # {} /\ (leftProgram' \/ StaysInProgram)
                         /\ AllChecked
      BY Apart DEF ControlInv, StillLeft
    <3>2. TypeInv
      BY DEF IInv
    <3>3. isUnwinding => AllChecked'
      BY <1>1, <3>1, <3>2, CheckedPopped
    <3>4. /\ StaysInProgram => StaysInProgram'
          /\ HandlersIn(callStack) # {} => HandlersIn(callStack') # {}
      BY <2>2, <2>6, <3>2, StaysPopped
    <3> QED BY <1>1, <2>1, <3>1, <3>3, <3>4 DEF Exits
  <2>11. ControlInv'
    BY <1>1, <1>3, <2>8, <2>10 DEF ControlInv, LoopInv
  <2>12. ~LibGone' /\ ~LibLeft'
    BY <1>1, <1>3, <2>7, <2>10, LibIsMatched DEF LibGone, LibLeft, Top
  <2> QED BY <2>7, <2>9, <2>11, <2>12, Settled
<1>6. CASE ~Last(cpp).valid
  <2>1. isUnwinding = FALSE
    BY <1>6, UnwindingFacts, Apart DEF Others
  <2>2. ~LoopOnTop
    BY <1>6, Apart DEF ControlInv
  <2>3. callStack' = callStack /\ pc' = pc
    BY <1>2, <1>6 DEF LoopExit
  <2>4. InStep(callStack, cpp, callTraces, expectedNativeTrapDisableCalls, error)
    BY <1>4, <2>1, Normal DEF LibLeft
  <2>5. InStep(callStack', cpp', callTraces', expectedNativeTrapDisableCalls', error')
    BY <1>1, <1>6, <2>3, <2>4, InStepFramePopped
  <2>6. ~LoopOnTop' /\ isUnwinding' = FALSE
    BY <1>1, <2>1, <2>2, <2>3 DEF LoopOnTop
  <2>7. Others'
    BY <1>1, <2>3, Apart DEF Others
  <2> QED BY <1>3, <2>5, <2>6, <2>7, NativeControl, SettledCalmly
<1> QED BY <1>5, <1>6

\* The call of another virtual machine's function returns to its loop.
LEMMA CrossReturnKeeps ==
    ASSUME IInv, StillLeft, Top("cross"),
           ~(~isUnwinding /\ error[Last(cpp).callee] /\ ~error[Last(cpp).vm]), CrossReturn
    PROVE  IInv'
<1> DEFINE v == Last(cpp).vm
           back == ~isUnwinding /\ ~error[v] /\ Last(cpp).valid
<1>1. /\ cpp' = Front(cpp) /\ pc' = IF back THEN [pc EXCEPT ![v] = "code"] ELSE pc
      /\ UNCHANGED <<callStack, isUnwinding, shouldUnwind, expectedNativeTrapDisableCalls,
                     callTraces, error, checker>>
  BY DEF CrossReturn, exceptionVars
<1>2. /\ cpp # <<>> /\ Last(cpp).what = "cross" /\ cpp \in Seq(FrameSet) /\ FramesNest(cpp)
      /\ ~Top("loop")
  BY DEF Top, IInv, TypeInv
<1>3. v \in VMs /\ v # NoVM
  BY <1>2, OnTop, FrameFacts, NoVMAssumption
<1>4. Last(cpp).valid <=> ~error[v]
  BY <1>2, <1>3, OnTop DEF IInv, ErrorInv
<1>5. /\ cpp' # <<>> /\ Last(cpp').what = "loop" /\ Last(cpp').vm = v /\ Last(cpp').phase = "check"
      /\ Top("loop")'
  BY <1>1, <1>2, FramePopped DEF Top
<1>6. InStep(callStack', cpp', callTraces', expectedNativeTrapDisableCalls', error')
  <2>1. ~LibGone /\ ~LibLeft
    BY <1>2 DEF LibGone, LibLeft, Top
  <2> QED BY <1>1, <1>2, <2>1, Normal, InStepFramePopped
<1>7. Last(cpp').valid <=> ~error[v]
  <2>1. cpp' \in Seq(FrameSet) /\ FramesExpire(cpp', error)
    BY <1>1, <1>6 DEF InStep, Stacks
  <2>2. Len(cpp') \in 1..Len(cpp') /\ Last(cpp') = cpp'[Len(cpp')]
    BY <1>5, <2>1, OnTop
  <2> QED BY <1>3, <1>5, <2>1, <2>2 DEF FramesExpire
<1>8. Others'
  BY <1>1, <1>3, Apart DEF Others, Counters
<1>9. /\ Last(cpp).valid => ScriptOnTop(v)
      /\ ~LoopOnTop /\ ~LoopOnTop'
  BY <1>1, <1>2, CrossFacts, Apart DEF ControlInv, LoopOnTop
<1>10. isUnwinding => Last(cpp).valid
  BY UnwindingFacts
<1>11. ~LibGone' /\ ~LibLeft'
  BY <1>1, <1>5, <1>9, <1>10 DEF LibGone, LibLeft, Top, ScriptOnTop, IsDeltaCodeContext, IsLib
<1>12. Last(cpp').valid => Checks(v)'
  <2>1. ASSUME Last(cpp').valid, ~isUnwinding
        PROVE  pc'[v] = "code"
    BY <1>1, <1>3, <1>4, <1>7, <2>1, Apart DEF Others
  <2>2. isUnwinding => shouldUnwind
    BY <1>2, Apart DEF ControlInv
  <2>3. isUnwinding' = isUnwinding /\ shouldUnwind' = shouldUnwind /\ ~LoopOnTop'
    BY <1>1, <1>9
  <2>4. CASE isUnwinding
    BY <1>5, <2>2, <2>3, <2>4 DEF Checks
  <2>5. CASE ~isUnwinding
    BY <1>5, <2>1, <2>3, <2>5 DEF Checks
  <2> QED BY <2>4, <2>5
<1>13. LoopInv'
  BY <1>5, <1>12 DEF LoopInv
<1>14. isUnwinding => AllChecked'
  <2>1. isUnwinding => AllChecked
    BY Apart DEF ControlInv
  <2>2. TypeInv
    BY DEF IInv
  <2> QED BY <1>1, <1>2, <2>1, <2>2, CheckedPopped
<1>15. StaysInProgram' <=> StaysInProgram
  BY <1>1 DEF StaysInProgram, Handlers
<1>16. ControlInv'
  BY <1>1, <1>5, <1>9, <1>13, <1>14, <1>15, Apart DEF ControlInv, StillLeft
<1> QED BY <1>6, <1>8, <1>11, <1>16, Settled

-----------------------------------------------------------------------------
(* Library functions that return, and errors that are reset.               *)

LEMMA LibReturnKeeps ==
    ASSUME IInv, StillLeft, LibReturn
    PROVE  IInv'
<1> DEFINE v == Last(cpp).vm
<1>1. /\ cpp' = Front(cpp) /\ cpp # <<>> /\ Last(cpp).what = "lib" /\ Top("lib") /\ ~Top("loop")
      /\ cpp \in Seq(FrameSet) /\ FramesNest(cpp)
      /\ callStack \in Seq(CallSet) /\ CallsNest(callStack)
      /\ UNCHANGED <<isUnwinding, shouldUnwind, expectedNativeTrapDisableCalls, error, checker>>
  BY DEF LibReturn, Top, IInv, TypeInv
<1>2. v \in VMs /\ v # NoVM
  BY <1>1, OnTop, FrameFacts, NoVMAssumption
<1>3. Last(cpp).valid <=> ~error[v]
  BY <1>1, <1>2, OnTop DEF IInv, ErrorInv
<1>4. /\ cpp' # <<>> /\ Last(cpp').what = "loop" /\ Last(cpp').vm = v /\ Last(cpp').phase = "check"
      /\ Top("loop")'
  BY <1>1, FramePopped DEF Top
<1>5. ~LibLeft /\ ~LibGone' /\ ~LoopOnTop
  BY <1>1, <1>4, Apart DEF LibLeft, LibGone, Top, ControlInv
<1>6. isUnwinding => Last(cpp).valid
  BY UnwindingFacts
<1>7. CASE Last(cpp).valid /\ ~isUnwinding
  <2>1. /\ callStack' = Front(callStack) /\ callTraces' = Front(callTraces)
        /\ pc' = [pc EXCEPT ![v] = Last(callStack).ret]
    BY <1>3, <1>7 DEF LibReturn
  <2>2. ~LibGone
    BY <1>7 DEF LibGone
  <2>3. /\ callStack # <<>> /\ IsLib(Last(callStack)) /\ Last(callStack).ret = "code"
        /\ Greatest(Len(cpp), LiveIn(cpp)) /\ Greatest(Len(callStack), CallsIn(callStack))
    BY <1>1, <1>7, <2>2, NativeFacts
  <2>4. ~IsLoop(Last(callStack)) /\ ~IsNative(Last(callStack)) /\ ~IsDeltaCodeContext(Last(callStack))
    BY <2>3 DEF IsLib, IsLoop, IsNative, IsDeltaCodeContext
  <2>5. InStep(callStack', cpp', callTraces', expectedNativeTrapDisableCalls', error')
    <3>1. InStep(callStack, cpp, callTraces, expectedNativeTrapDisableCalls, error)
      BY <1>5, <2>2, Normal
    <3>2. InStep(Front(callStack), Front(cpp),
                 IF IsLoop(Last(callStack)) \/ IsNative(Last(callStack)) THEN callTraces
                 ELSE Front(callTraces),
                 IF IsNative(Last(callStack)) THEN expectedNativeTrapDisableCalls - 1
                 ELSE expectedNativeTrapDisableCalls, error)
      BY <1>1, <2>3, <3>1, InStepBothPopped
    <3> QED BY <1>1, <2>1, <2>4, <3>2
  <2>6. ~LoopOnTop'
    BY <1>1, <2>1, <2>3, <2>4, NoLoopUnder DEF LoopOnTop
  <2>7. pc'[v] = "code" /\ isUnwinding' = FALSE /\ Others'
    BY <1>1, <1>2, <1>7, <2>1, <2>3, Apart DEF Others, Counters
  <2>8. Last(cpp').valid
    <3>1. cpp' \in Seq(FrameSet) /\ FramesExpire(cpp', error)
      BY <1>1, <2>5 DEF InStep, Stacks
    <3>2. Len(cpp') \in 1..Len(cpp') /\ Last(cpp') = cpp'[Len(cpp')]
      BY <1>4, <3>1, OnTop
    <3> QED BY <1>2, <1>3, <1>4, <1>7, <3>1, <3>2 DEF FramesExpire
  <2>9. ControlInv'
    <3> HIDE DEF v
    <3> QED BY <1>4, <2>6, <2>7, <2>8, LoopControl
  <2> QED BY <2>5, <2>7, <2>9, SettledCalmly
<1>8. CASE ~(Last(cpp).valid /\ ~isUnwinding)
  <2>1. callStack' = callStack /\ callTraces' = callTraces /\ pc' = pc
    BY <1>8 DEF LibReturn
  <2>2. ~LoopOnTop' /\ Others' /\ (StaysInProgram' <=> StaysInProgram)
    BY <1>1, <1>5, <2>1, Apart DEF LoopOnTop, Others, StaysInProgram, Handlers
  <2>3. isUnwinding => AllChecked'
    <3>1. isUnwinding => AllChecked
      BY Apart DEF ControlInv
    <3>2. TypeInv
      BY DEF IInv
    <3> QED BY <1>1, <3>1, <3>2, CheckedPopped
  <2>4. isUnwinding => shouldUnwind
    BY <1>1, Apart DEF ControlInv
  <2>5. CASE isUnwinding
    <3>1. Checks(v)'
      <4>1. isUnwinding' /\ shouldUnwind' /\ ~LoopOnTop'
        BY <1>1, <2>2, <2>4, <2>5
      <4> QED BY <4>1 DEF Checks
    <3>2. LoopInv'
      BY <1>4, <3>1 DEF LoopInv
    <3>3. ControlInv'
      BY <1>1, <1>4, <2>1, <2>2, <2>3, <2>5, <3>2, Apart DEF ControlInv, StillLeft
    <3>4. Stacks(callStack', cpp', callTraces', expectedNativeTrapDisableCalls', error')
      BY <1>1, <2>1, Apart, StacksFramePopped DEF StacksNow
    <3>5. /\ Len(cpp) \in Nat \ {0} /\ Len(cpp') = Len(cpp) - 1
          /\ LiveIn(cpp') = LiveIn(cpp) \ {Len(cpp)}
          /\ \A j \in 1..Len(cpp') : cpp'[j] = cpp[j]
      BY <1>1, FramePopped
    <3>6. SameFramesAt(LiveIn(cpp) \ {Len(cpp)}, cpp, cpp') /\ NoneExpired(cpp, cpp')
      <4>1. \A j \in LiveIn(cpp) \ {Len(cpp)} : j \in 1..Len(cpp')
        BY <3>5, Apart, Positions DEF StacksNow
      <4> QED BY <3>5, <4>1 DEF SameFramesAt, NoneExpired
    <3>7. LiveIn(cpp) \in SUBSET Int /\ CallsIn(callStack) \in SUBSET Int
          /\ LiveIn(cpp) \ {Len(cpp)} \in SUBSET Int
      BY Apart, Positions DEF StacksNow
    <3>8. MatchedFrames' = LiveIn(cpp) \ {Len(cpp)}
      BY <1>5, <3>5 DEF MatchedFrames
    <3>9. MatchedCalls = CallsIn(callStack)
      BY <1>5 DEF MatchedCalls
    <3>10. Matches(MatchedFrames', MatchedCalls', callStack', cpp')
      <4>1. CASE LibGone
        <5>1. MatchedFrames = LiveIn(cpp) \ {Len(cpp)}
          BY <4>1 DEF MatchedFrames
        <5>2. MatchedCalls' = CallsIn(callStack)
          BY <2>1, <4>1 DEF MatchedCalls, LibLeft, LibGone
        <5>3. Matches(LiveIn(cpp) \ {Len(cpp)}, CallsIn(callStack), callStack, cpp)
          BY <3>9, <5>1, Apart
        <5>4. Matches(LiveIn(cpp) \ {Len(cpp)}, CallsIn(callStack), callStack, cpp')
          BY <3>6, <3>7, <5>3, SameFrames
        <5> QED BY <2>1, <3>8, <5>2, <5>4
      <4>2. CASE ~LibGone
        <5>1. /\ callStack # <<>> /\ IsLib(Last(callStack))
              /\ Greatest(Len(cpp), LiveIn(cpp)) /\ Greatest(Len(callStack), CallsIn(callStack))
          BY <1>1, <1>6, <2>5, <4>2, NativeFacts
        <5>2. Matches(LiveIn(cpp), CallsIn(callStack), callStack, cpp)
          BY <3>9, <4>2, Apart DEF MatchedFrames
        <5>3. MatchedCalls' = CallsIn(callStack) \ {Len(callStack)}
          BY <1>1, <1>4, <2>1, <2>5, <5>1 DEF MatchedCalls, LibLeft
        <5>4. SameCallsAt(CallsIn(callStack) \ {Len(callStack)}, callStack, callStack)
          BY DEF SameCallsAt
        <5>5. HandlersUnder(Len(callStack), callStack, callStack)
          <6>1. Len(callStack) \notin HandlersIn(callStack)
            BY <1>1, <5>1, OnTop DEF HandlersIn, Handles, IsLib, IsDeltaCodeContext
          <6>2. \A i \in HandlersIn(callStack) : i \in Nat /\ i <= Len(callStack) /\ i # Len(callStack)
            BY <6>1, Apart, Positions DEF StacksNow
          <6>3. Len(callStack) \in Nat
            BY <1>1, OnTop
          <6>4. \A i \in HandlersIn(callStack) : i \in Int /\ i < Len(callStack)
            BY <6>2, <6>3
          <6> QED BY <6>4 DEF HandlersUnder
        <5>6. Matches(LiveIn(cpp) \ {Len(cpp)}, CallsIn(callStack) \ {Len(callStack)}, callStack, cpp')
          BY <3>6, <3>7, <5>1, <5>2, <5>4, <5>5, MatchesPopped
        <5> QED BY <2>1, <3>8, <5>3, <5>6
      <4> QED BY <4>1, <4>2
    <3> QED BY <2>2, <3>3, <3>4, <3>10, Together
  <2>6. CASE ~isUnwinding
    <3>1. ~Last(cpp).valid /\ isUnwinding' = FALSE /\ ~LibGone /\ isUnwinding = FALSE
      BY <1>1, <1>8, <2>6, Apart DEF Others, LibGone
    <3>2. InStep(callStack, cpp, callTraces, expectedNativeTrapDisableCalls, error)
      BY <1>5, <3>1, Normal
    <3>3. InStep(callStack', cpp', callTraces', expectedNativeTrapDisableCalls', error')
      BY <1>1, <2>1, <3>1, <3>2, InStepFramePopped
    <3>4. ~Last(cpp').valid
      <4>1. cpp' \in Seq(FrameSet) /\ FramesExpire(cpp', error)
        BY <1>1, <3>3 DEF InStep, Stacks
      <4>2. Len(cpp') \in 1..Len(cpp') /\ Last(cpp') = cpp'[Len(cpp')]
        BY <1>4, <4>1, OnTop
      <4> QED BY <1>2, <1>3, <1>4, <3>1, <4>1, <4>2 DEF FramesExpire
    <3>5. ControlInv'
      BY <2>2, <3>1, <3>4 DEF ControlInv, LoopInv
    <3> QED BY <2>2, <3>1, <3>3, <3>5, SettledCalmly
  <2> QED BY <2>5, <2>6
<1> QED BY <1>7, <1>8

LEMMA ResetRunTimeErrorsKeeps ==
    ASSUME IInv, StillLeft, ~astray', ResetRunTimeErrors
    PROVE  IInv'
<1>1. /\ AtNativeCode /\ \A i \in 1..Len(cpp) : cpp[i].vm # NoVM => ~error[cpp[i].vm]
      /\ error' = [v \in VMs |-> FALSE]
      /\ UNCHANGED <<callStack, isUnwinding, shouldUnwind, expectedNativeTrapDisableCalls, callTraces,
                     pc, checker, cpp>>
  BY DEF ResetRunTimeErrors, ResetDiverts, exceptionVars
<1>2. /\ InStep(callStack, cpp, callTraces, expectedNativeTrapDisableCalls, error)
      /\ isUnwinding = FALSE /\ ~LoopOnTop /\ ~Top("loop")
  BY <1>1, AtNative
<1>3. InStep(callStack', cpp', callTraces', expectedNativeTrapDisableCalls', error')
  <2>1. InStep(callStack, cpp, callTraces, expectedNativeTrapDisableCalls, [v \in VMs |-> FALSE])
    BY <1>1, <1>2, InStepReset
  <2> QED BY <1>1, <2>1
<1>4. ~LoopOnTop' /\ ~Top("loop")' /\ isUnwinding' = FALSE
  BY <1>1, <1>2 DEF LoopOnTop, Top
<1>5. Others'
  BY <1>1, Apart DEF Others
<1> QED BY <1>3, <1>4, <1>5, NativeControl, SettledCalmly

-----------------------------------------------------------------------------
(* Exceptions.                                                             *)

\* Every loop that can go on has its entry on the stack of calls.
LEMMA CheckersCover ==
    ASSUME NEW f, NEW ct, NEW n, NEW e, InStep(callStack, f, ct, n, e)
    PROVE  \A j \in 1..Len(f) : f[j].what = "loop" /\ f[j].valid => UnwindingCheckers[f[j].vm]
<1>1. Stacks(callStack, f, ct, n, e) /\ Matches(LiveIn(f), CallsIn(callStack), callStack, f)
  BY DEF InStep
<1>2. PICK m : Agrees(m, LiveIn(f), CallsIn(callStack), callStack, f)
  BY <1>1 DEF Matches
<1>3. ASSUME NEW j \in 1..Len(f), f[j].what = "loop", f[j].valid
      PROVE  UnwindingCheckers[f[j].vm]
  <2>1. j \in LiveIn(f)
    BY <1>3 DEF LiveIn
  <2>2. m[j] \in CallsIn(callStack) /\ callStack[m[j]].vm = f[j].vm
    BY <1>2, <2>1 DEF Agrees, Increasing
  <2>3. m[j] \in 1..Len(callStack)
    BY <2>2 DEF CallsIn
  <2>4. f[j].vm \in VMs
    <3>1. f[j] \in FrameSet
      BY <1>1, OnTop DEF Stacks
    <3> QED BY <1>3, <3>1, FrameFacts
  <2> QED BY <2>2, <2>3, <2>4 DEF UnwindingCheckers
<1> QED BY <1>3

\* What unwinding of script code leaves: the calls up to the k-th, which is a
\* trap block of the virtual machine or its loop.
CutAt(k, v, checkers) ==
    /\ k \in 1..Len(callStack) /\ callStack' = SubSeq(callStack, 1, k) /\ callStack[k].vm = v
    /\ \A i \in k + 1..Len(callStack) : IsDeltaCodeContext(callStack[i])
    /\ \A h \in HandlersIn(callStack) : h <= k
    /\ callTraces' \in Seq(TraceSet)
    /\ leftProgram' \/ Traces(callTraces', SubSeq(callStack, 1, k))
    /\ shouldUnwind' = FALSE /\ pc' \in [VMs -> Counters] /\ checker' \in [VMs -> BOOLEAN]
    /\ \A u \in VMs : pc'[u] = "idle" => pc[u] = "idle"
    /\ \/ /\ IsLoop(callStack[k]) /\ k \notin HandlersIn(callStack)
          /\ isUnwinding' = TRUE /\ checker' = checkers
       \/ /\ IsDeltaCodeContext(callStack[k]) /\ callStack[k].traps > 0
          /\ isUnwinding' = FALSE /\ pc'[v] = "trap"

LEMMA UnwindCuts ==
    ASSUME NEW f, NEW n, Stacks(callStack, f, callTraces, n, error), pc \in [VMs -> Counters],
           leftProgram' \/ StaysInProgram, NEW v \in VMs, ScriptOnTop(v),
           NEW checkers \in [VMs -> BOOLEAN], UnwindDeltaCode(v, checkers)
    PROVE  \E k : CutAt(k, v, checkers)
<1> DEFINE s == callStack
           T == {i \in 1..Len(s) : Handles(s[i]) \/ s[i].context = "InExecutionLoop"}
           stop == Max(T)
           Fs == {i \in stop + 1..Len(s) : s[i].context = "InDeltaFunction"}
           functions == Cardinality(Fs)
           trapped == s[stop].context # "InExecutionLoop"
           left == IF functions = 0 THEN "end" ELSE s[Len(s) - functions + 1].ret
<1>1. /\ s \in Seq(CallSet) /\ CallsNest(s) /\ callTraces \in Seq(TraceSet)
      /\ Len(s) \in Nat /\ Len(s) \in 1..Len(s) /\ Last(s) = s[Len(s)]
      /\ IsDeltaCodeContext(s[Len(s)]) /\ s[Len(s)].vm = v
      /\ Len(callTraces) \in Nat
  BY OnTop DEF Stacks, ScriptOnTop
<1>2. PICK l \in 1..Len(s) - 1 :
         /\ IsLoop(s[l]) /\ s[l].vm = v
         /\ \A i \in l + 1..Len(s) : IsDeltaCodeContext(s[i]) /\ s[i].vm = v
  BY <1>1, ScriptRuns
<1>3. stop \in T /\ \A i \in T : i <= stop
  <2>1. T \in SUBSET (0..Len(s))
    OBVIOUS
  <2>2. l \in T
    BY <1>1, <1>2 DEF IsLoop
  <2> HIDE DEF T
  <2> QED BY <1>1, <2>1, <2>2, MaxIsGreatest
<1>4. stop \in 1..Len(s) /\ stop \in Nat /\ l <= stop /\ stop <= Len(s)
  <2>1. l \in T
    BY <1>1, <1>2 DEF IsLoop
  <2>2. stop \in 1..Len(s) /\ l <= stop
    BY <1>3, <2>1
  <2> QED BY <1>1, <2>2
<1>5. /\ callStack' = SubSeq(s, 1, stop) /\ callTraces' = Drop(callTraces, functions)
      /\ pc' = [pc EXCEPT ![v] = "end", ![v] = IF trapped THEN "trap" ELSE left]
      /\ checker' = [checkers EXCEPT ![v] = @ /\ ~trapped]
      /\ isUnwinding' = ~trapped /\ shouldUnwind' = FALSE
  BY <1>1 DEF UnwindDeltaCode
<1>6. \A h \in HandlersIn(s) : h <= stop
  BY <1>3 DEF HandlersIn
<1>7. stop = l \/ stop \in l + 1..Len(s)
  BY <1>1, <1>4
<1>8. \A i \in stop + 1..Len(s) : i \in 1..Len(s) /\ i > stop /\ i \in l + 1..Len(s)
  BY <1>1, <1>2, <1>4
<1>9. s[stop].vm = v /\ \A i \in stop + 1..Len(s) : IsDeltaCodeContext(s[i])
  BY <1>2, <1>7, <1>8
<1>10. \/ IsLoop(s[stop]) /\ stop \notin HandlersIn(s) /\ ~trapped
       \/ IsDeltaCodeContext(s[stop]) /\ s[stop].traps > 0 /\ trapped
  <2>1. IsLoop(s[stop]) => stop \notin HandlersIn(s) /\ ~trapped
    BY DEF HandlersIn, Handles, IsLoop, IsDeltaCodeContext
  <2>2. stop = l => IsLoop(s[stop])
    BY <1>2
  <2>3. ASSUME stop \in l + 1..Len(s)
        PROVE  IsDeltaCodeContext(s[stop]) /\ s[stop].traps > 0 /\ trapped
    <3>1. IsDeltaCodeContext(s[stop])
      BY <1>2, <2>3
    <3>2. trapped
      BY <3>1 DEF IsDeltaCodeContext
    <3>3. Handles(s[stop])
      BY <1>3, <3>2
    <3> QED BY <3>1, <3>2, <3>3 DEF Handles, IsDeltaCodeContext
  <2> QED BY <1>7, <2>1, <2>2, <2>3
<1>11. IsFiniteSet(stop + 1..Len(s)) /\ Cardinality(stop + 1..Len(s)) = Len(s) - stop
  <2>1. stop + 1 \in Int /\ Len(s) \in Int
    BY <1>1, <1>4
  <2> HIDE DEF stop, s
  <2>2. /\ IsFiniteSet(stop + 1..Len(s))
        /\ Cardinality(stop + 1..Len(s)) = IF stop + 1 > Len(s) THEN 0 ELSE Len(s) - (stop + 1) + 1
    BY <2>1, FS_Interval
  <2> QED BY <1>1, <1>4, <2>2
<1>12. functions \in Nat /\ functions <= Len(s) - stop
  <2>1. Fs \in SUBSET (stop + 1..Len(s))
    OBVIOUS
  <2>2. IsFiniteSet(Fs) /\ Cardinality(Fs) <= Cardinality(stop + 1..Len(s))
    <3> HIDE DEF Fs, stop, s
    <3> QED BY <1>11, <2>1, FS_Subset
  <2> QED BY <1>11, <2>2, FS_CardinalityType
<1>13. callTraces' \in Seq(TraceSet)
  <2>1. callTraces' = SubSeq(callTraces, 1, Len(callTraces) - functions)
    BY <1>5 DEF Drop
  <2> HIDE DEF functions
  <2>2. Len(callTraces) - functions \in Int /\ Len(callTraces) - functions <= Len(callTraces)
    BY <1>1, <1>12
  <2> QED BY <1>1, <2>1, <2>2, Cutting
<1>14. left \in Counters \ {"idle"}
  <2>1. CASE functions = 0
    BY <2>1 DEF Counters
  <2>2. CASE functions # 0
    <3>1. Len(s) - functions + 1 \in 1..Len(s)
      <4> HIDE DEF functions, s
      <4> QED BY <1>1, <1>4, <1>12, <2>2
    <3>2. s[Len(s) - functions + 1].ret \in Counters \ {"idle"}
      <4> HIDE DEF functions
      <4>1. s[Len(s) - functions + 1] \in CallSet
        BY <1>1, <3>1, OnTop
      <4> QED BY <4>1 DEF CallSet
    <3> QED BY <2>2, <3>2
  <2> QED BY <2>1, <2>2
<1>15. /\ pc' \in [VMs -> Counters] /\ (trapped => pc'[v] = "trap")
       /\ \A u \in VMs : pc'[u] = "idle" => pc[u] = "idle"
  <2> HIDE DEF trapped, left
  <2> QED BY <1>5, <1>14 DEF Counters
<1>16. /\ checker' \in [VMs -> BOOLEAN] /\ (~trapped => checker' = checkers)
  <2> HIDE DEF trapped
  <2> QED BY <1>5
<1>17. leftProgram' \/ Traces(callTraces', SubSeq(s, 1, stop))
  <2>1. SUFFICES ASSUME ~leftProgram' PROVE Traces(callTraces', SubSeq(s, 1, stop))
    OBVIOUS
  <2>2. Traces(callTraces, s) /\ StaysInProgram
    BY <2>1 DEF Stacks
  <2>3. \A i \in stop + 1..Len(s) : s[i].context = "InDeltaFunction"
    <3>1. SUFFICES ASSUME NEW i \in stop + 1..Len(s), s[i].context = "InDeltaGlobalCode" PROVE FALSE
      BY <1>9 DEF IsDeltaCodeContext
    <3>2. i \in 1..Len(s) /\ i > stop /\ i \in Nat
      BY <1>4, <1>8
    <3>3. PICK h \in HandlersIn(s) : h >= i
      BY <2>2, <3>1, <3>2 DEF StaysInProgram, Handlers, HandlersIn
    <3>4. h \in Nat /\ h <= stop
      BY <1>1, <1>6, <3>3, PositionTypes
    <3> QED BY <1>4, <3>2, <3>3, <3>4
  <2>4. Fs = stop + 1..Len(s)
    BY <2>3
  <2>5. functions = Len(s) - stop
    BY <1>11, <2>4
  <2>6. stop \in 0..Len(s)
    BY <1>1, <1>4
  <2> HIDE DEF stop, functions, s
  <2>7. PICK c \in 0..Len(callTraces) :
           /\ c = Cardinality(UpTo(TracedIn(s), stop))
           /\ Traces(SubSeq(callTraces, 1, c), SubSeq(s, 1, stop))
    BY <1>1, <2>2, <2>6, TracesKept DEF s
  <2>8. Cardinality(TracedIn(s)) = Len(callTraces)
    BY <1>1, <2>2, TracesCount DEF s
  <2>9. TracedIn(s) = UpTo(TracedIn(s), stop) \cup (stop + 1..Len(s))
    <3>1. \A i \in stop + 1..Len(s) : i \in TracedIn(s)
      BY <1>8, <2>3 DEF TracedIn, IsLoop, IsNative, s
    <3>2. \A i \in TracedIn(s) : i \in 1..Len(s) /\ i \in Nat /\ i <= Len(s)
      BY <1>1, PositionTypes
    <3>3. \A i \in TracedIn(s) : i <= stop \/ i \in stop + 1..Len(s)
      BY <1>1, <1>4, <3>2
    <3> QED BY <3>1, <3>3 DEF UpTo
  <2>10. UpTo(TracedIn(s), stop) \cap (stop + 1..Len(s)) = {}
    BY <1>4, <1>8 DEF UpTo
  <2>11. IsFiniteSet(UpTo(TracedIn(s), stop))
    <3>1. IsFiniteSet(TracedIn(s))
      BY <1>1, PositionTypes
    <3>2. UpTo(TracedIn(s), stop) \in SUBSET TracedIn(s)
      BY DEF UpTo
    <3> QED BY <3>1, <3>2, FS_Subset
  <2>12. Len(callTraces) = c + (Len(s) - stop)
    <3>1. Cardinality(TracedIn(s)) = c + (Len(s) - stop) - Cardinality({})
      BY <1>11, <2>7, <2>9, <2>10, <2>11, FS_Union, ZenonT(60)
    <3>2. Cardinality({}) = 0
      BY FS_EmptySet
    <3> QED BY <1>1, <1>4, <2>7, <2>8, <3>1, <3>2
  <2>13. callTraces' = SubSeq(callTraces, 1, c)
    <3>1. Len(callTraces) - functions = c
      BY <1>1, <1>4, <2>5, <2>7, <2>12
    <3> QED BY <1>5, <3>1 DEF Drop
  <2> QED BY <2>7, <2>13 DEF s
<1>18. CutAt(stop, v, checkers)
  <2> HIDE DEF stop, functions, trapped, left
  <2> QED BY <1>4, <1>5, <1>6, <1>9, <1>10, <1>13, <1>15, <1>16, <1>17 DEF CutAt
<1> HIDE DEF stop
<1> QED BY <1>18

LEMMA CutKeeps ==
    ASSUME IInv, StillLeft, NEW v \in VMs, NEW f,
           InStep(callStack, f, callTraces, expectedNativeTrapDisableCalls, error),
           f # <<>>, Last(f).what = "loop", Last(f).vm = v, Last(f).valid,
           Last(f).phase \in {"check", "unwound"},
           ScriptOnTop(v), HandlersIn(callStack) # {}, leftProgram' \/ StaysInProgram,
           NEW checkers \in [VMs -> BOOLEAN],
           \A j \in 1..Len(f) : f[j].what = "loop" /\ f[j].valid => checkers[f[j].vm],
           UnwindDeltaCode(v, checkers), cpp' = f, UNCHANGED <<expectedNativeTrapDisableCalls, error>>
    PROVE  IInv'
<1>1. /\ Stacks(callStack, f, callTraces, expectedNativeTrapDisableCalls, error)
      /\ pc \in [VMs -> Counters] /\ callStack \in Seq(CallSet)
  BY Apart DEF InStep, Stacks, Others
<1>2. PICK k : CutAt(k, v, checkers)
  BY <1>1, UnwindCuts
<1>3. /\ k \in 1..Len(callStack) /\ callStack' = SubSeq(callStack, 1, k) /\ k \in 0..Len(callStack)
      /\ k \in Nat /\ Len(callStack') = k /\ callStack' # <<>> /\ Last(callStack') = callStack[k]
      /\ \A i \in 1..k : callStack'[i] = callStack[i]
      /\ Len(callStack) \in Nat
  <2>1. k \in 1..Len(callStack) /\ callStack' = SubSeq(callStack, 1, k) /\ Len(callStack) \in Nat
    BY <1>1, <1>2, OnTop DEF CutAt
  <2>2. k \in 0..Len(callStack) /\ k > 0
    BY <2>1
  <2> QED BY <1>1, <2>1, <2>2, Keeping
<1>4. InStep(callStack', cpp', callTraces', expectedNativeTrapDisableCalls', error')
  <2>1. /\ \A i \in k + 1..Len(callStack) : IsDeltaCodeContext(callStack[i])
        /\ callTraces' \in Seq(TraceSet)
        /\ leftProgram' \/ Traces(callTraces', SubSeq(callStack, 1, k))
    BY <1>2 DEF CutAt
  <2>2. InStep(SubSeq(callStack, 1, k), f, callTraces', expectedNativeTrapDisableCalls, error)
    BY <1>3, <2>1, InStepCut
  <2> QED BY <1>3, <2>2
<1>5. isUnwinding' \in BOOLEAN /\ shouldUnwind' = FALSE /\ Others'
  <2>1. isUnwinding' \in BOOLEAN
    BY <1>2 DEF CutAt
  <2>2. \A u \in VMs : pc[u] = "idle" => ~error[u]
    BY Apart DEF Others
  <2> QED BY <1>2, <2>1, <2>2 DEF CutAt, Others
<1>6. Top("loop")'
  BY DEF Top
<1>7. CASE IsDeltaCodeContext(callStack[k])
  <2>1. /\ callStack[k].traps > 0 /\ isUnwinding' = FALSE /\ pc'[v] = "trap" /\ callStack[k].vm = v
    BY <1>2, <1>7 DEF CutAt, IsLoop, IsDeltaCodeContext
  <2>2. ScriptOnTop(v)' /\ ~LoopOnTop' /\ Last(callStack').traps > 0
    BY <1>3, <1>7, <2>1 DEF ScriptOnTop, LoopOnTop, IsLoop, IsDeltaCodeContext
  <2>3. LoopInv'
    BY <2>1, <2>2 DEF LoopInv, Checks, Unwound
  <2>4. ControlInv'
    BY <2>1, <2>2, <2>3 DEF ControlInv
  <2> QED BY <1>4, <1>5, <2>1, <2>4, SettledCalmly
<1>8. CASE IsLoop(callStack[k])
  <2>1. isUnwinding' = TRUE /\ checker' = checkers /\ \A h \in HandlersIn(callStack) : h <= k
    BY <1>2, <1>8 DEF CutAt, IsLoop, IsDeltaCodeContext
  <2>2. LoopOnTop' /\ ~IsLib(Last(callStack'))
    BY <1>3, <1>8 DEF LoopOnTop, IsLoop, IsLib
  <2>3. LoopInv'
    BY <1>5, <2>1, <2>2 DEF LoopInv, Checks, Unwound
  <2>4. HandlersIn(callStack') = HandlersIn(callStack)
    <3>1. HandlersIn(callStack') = UpTo(HandlersIn(callStack), k)
      BY <1>1, <1>3, KeptPositions
    <3> QED BY <2>1, <3>1 DEF UpTo
  <2>5. StaysInProgram => StaysInProgram'
    <3>1. \A i \in 1..Len(callStack') : i \in 1..Len(callStack)
      BY <1>3
    <3> QED BY <1>3, <2>4, <3>1 DEF StaysInProgram, Handlers, HandlersIn
  <2>6. AllChecked'
    BY <2>1 DEF AllChecked
  <2>7. ControlInv'
    BY <1>6, <2>1, <2>2, <2>3, <2>4, <2>5, <2>6 DEF ControlInv
  <2>8. ~LibGone' /\ ~LibLeft'
    BY <2>2 DEF LibGone, LibLeft, Top
  <2> QED BY <1>4, <1>5, <2>7, <2>8, Settled
<1> QED BY <1>2, <1>7, <1>8 DEF CutAt

\* What is under a library function.
LEMMA ScriptUnderLib ==
    ASSUME NEW s \in Seq(CallSet), CallsNest(s), s # <<>>, IsLib(Last(s))
    PROVE  /\ Front(s) # <<>> /\ IsDeltaCodeContext(Last(Front(s)))
           /\ Last(Front(s)).vm = Last(s).vm /\ Last(s).ret = "code"
<1>1. Len(s) \in 1..Len(s) /\ Last(s) = s[Len(s)] /\ Len(s) \in Nat
  BY OnTop
<1>2. Nests(s, Len(s))
  BY <1>1 DEF CallsNest
<1>3. /\ Len(s) > 1 /\ s[Len(s) - 1].vm = Last(s).vm /\ IsDeltaCodeContext(s[Len(s) - 1])
      /\ Last(s).ret = "code"
  BY <1>1, <1>2 DEF Nests
<1> QED BY <1>3, Popping

\* A library function that throws is popped.
LEMMA LibThrowKeeps ==
    ASSUME IInv, StillLeft, isUnwinding = FALSE, Top("lib"), Last(cpp).valid,
           HandlersIn(callStack) # {}, leftProgram' \/ StaysInProgram,
           UnwindLibraryFunction(Last(cpp).vm, UnwindingCheckers),
           UNCHANGED <<cpp, expectedNativeTrapDisableCalls, error>>
    PROVE  IInv'
<1> DEFINE v == Last(cpp).vm
<1>1. /\ cpp # <<>> /\ Last(cpp).what = "lib" /\ ~Top("loop")
      /\ cpp \in Seq(FrameSet) /\ FramesNest(cpp)
      /\ callStack \in Seq(CallSet) /\ CallsNest(callStack)
      /\ ~LibGone /\ ~LibLeft
  BY DEF Top, IInv, TypeInv, LibGone, LibLeft
<1>2. /\ callStack # <<>> /\ Last(callStack).vm = v /\ IsLib(Last(callStack))
      /\ Greatest(Len(cpp), LiveIn(cpp)) /\ Greatest(Len(callStack), CallsIn(callStack))
  BY <1>1, NativeFacts
<1>3. /\ callStack' = Front(callStack) /\ callTraces' = Front(callTraces)
      /\ pc' = [pc EXCEPT ![v] = "end", ![Last(callStack).vm] = Last(callStack).ret]
      /\ checker' = UnwindingCheckers /\ isUnwinding' = TRUE /\ shouldUnwind' = TRUE
  BY DEF UnwindLibraryFunction
<1>4. ~IsLoop(Last(callStack)) /\ ~IsNative(Last(callStack)) /\ ~Handles(Last(callStack))
  BY <1>2 DEF IsLib, IsLoop, IsNative, Handles, IsDeltaCodeContext
<1>5. InStep(callStack, cpp, callTraces, expectedNativeTrapDisableCalls, error)
  BY <1>1, Normal
<1>6. Stacks(callStack', cpp', callTraces', expectedNativeTrapDisableCalls', error')
  <2>1. Stacks(Front(callStack), cpp,
               IF IsLoop(Last(callStack)) \/ IsNative(Last(callStack)) THEN callTraces
               ELSE Front(callTraces),
               IF IsNative(Last(callStack)) THEN expectedNativeTrapDisableCalls - 1
               ELSE expectedNativeTrapDisableCalls, error)
    BY <1>2, <1>5, StacksPopped DEF InStep
  <2> QED BY <1>3, <1>4, <2>1
<1>7. /\ callStack' # <<>> /\ IsDeltaCodeContext(Last(callStack'))
      /\ ~LoopOnTop' /\ ~IsLib(Last(callStack'))
  BY <1>1, <1>2, <1>3, ScriptUnderLib DEF LoopOnTop, IsLoop, IsLib, IsDeltaCodeContext
<1>8. ~Top("loop")' /\ Top("lib")'
  BY <1>1 DEF Top
<1>9. /\ MatchedFrames' = LiveIn(cpp) \ {Len(cpp)}
      /\ MatchedCalls' = CallsIn(callStack')
  BY <1>3, <1>7, <1>8 DEF MatchedFrames, MatchedCalls, LibGone, LibLeft
<1>10. Matches(MatchedFrames', MatchedCalls', callStack', cpp')
  <2>1. /\ CallsIn(callStack') = CallsIn(callStack) \ {Len(callStack)}
        /\ HandlersUnder(Len(callStack), callStack, callStack')
        /\ SameCallsAt(CallsIn(callStack) \ {Len(callStack)}, callStack, callStack')
    BY <1>1, <1>2, <1>3, CallsPopped
  <2>2. SameFramesAt(LiveIn(cpp) \ {Len(cpp)}, cpp, cpp) /\ NoneExpired(cpp, cpp)
    BY DEF SameFramesAt, NoneExpired
  <2>3. LiveIn(cpp) \in SUBSET Int /\ CallsIn(callStack) \in SUBSET Int
    BY <1>5, Positions DEF InStep
  <2>4. Matches(LiveIn(cpp) \ {Len(cpp)}, CallsIn(callStack) \ {Len(callStack)}, callStack', cpp)
    BY <1>2, <1>5, <2>1, <2>2, <2>3, MatchesPopped DEF InStep
  <2> QED BY <1>9, <2>1, <2>4
<1>11. UnwindingCheckers \in [VMs -> BOOLEAN]
  BY Apart DEF UnwindingCheckers, Others
<1>12. Others'
  <2>1. Last(callStack).ret = "code"
    BY <1>1, <1>2, ScriptUnderLib
  <2> QED BY <1>3, <1>11, <2>1, Apart DEF Others, Counters
<1>13. AllChecked'
  BY <1>3, <1>5, CheckersCover DEF AllChecked
<1>14. HandlersIn(callStack') # {} /\ (leftProgram' \/ StaysInProgram')
  <2>1. TypeInv
    BY DEF IInv
  <2> QED BY <1>2, <1>3, <1>4, <2>1, StaysPopped
<1>15. ControlInv'
  BY <1>3, <1>7, <1>8, <1>13, <1>14 DEF ControlInv, LoopInv
<1> QED BY <1>6, <1>10, <1>12, <1>15, Together

\* The loop pops a library function that threw natively.
LEMMA LibUnwoundKeeps ==
    ASSUME IInv, StillLeft, NEW v \in VMs, InLoop(v, "check"), Last(cpp).valid, isUnwinding,
           UnwindLibraryFunction(v, checker), Proceed("unwound"),
           UNCHANGED <<expectedNativeTrapDisableCalls, error>>
    PROVE  IInv'
<1>1. /\ Top("loop") /\ Last(cpp).vm = v /\ cpp # <<>>
      /\ callStack \in Seq(CallSet) /\ CallsNest(callStack)
      /\ "unwound" \in Phases /\ cpp' = [cpp EXCEPT ![Len(cpp)].phase = "unwound"]
  BY DEF InLoop, Top, IInv, TypeInv, Phases, Proceed
<1>2. /\ cpp' # <<>> /\ Last(cpp').what = "loop" /\ Last(cpp').vm = v
      /\ Last(cpp').phase = "unwound" /\ Last(cpp').valid = Last(cpp).valid
      /\ Len(cpp') = Len(cpp) /\ LiveIn(cpp') = LiveIn(cpp)
  BY <1>1, AtLoop
<1>3. \A j \in 1..Len(cpp) : /\ cpp'[j].what = cpp[j].what /\ cpp'[j].vm = cpp[j].vm
                             /\ cpp'[j].valid = cpp[j].valid
  BY <1>1, AtLoop
<1>4. /\ Stacks(callStack, cpp', callTraces, expectedNativeTrapDisableCalls, error)
      /\ Matches(LiveIn(cpp), MatchedCalls, callStack, cpp')
  BY <1>1, AtLoop
<1>5. /\ callStack # <<>> /\ Last(callStack).vm = v
  BY <1>1, LoopFacts
<1>6. /\ IsLib(Last(callStack)) /\ callStack' = Front(callStack) /\ callTraces' = Front(callTraces)
      /\ pc' = [pc EXCEPT ![v] = "end", ![Last(callStack).vm] = Last(callStack).ret]
      /\ checker' = checker /\ isUnwinding' = TRUE /\ shouldUnwind' = TRUE
  BY DEF UnwindLibraryFunction, IsLib
<1>7. ~IsLoop(Last(callStack)) /\ ~IsNative(Last(callStack)) /\ ~Handles(Last(callStack))
  BY <1>6 DEF IsLib, IsLoop, IsNative, Handles, IsDeltaCodeContext
<1>8. Stacks(callStack', cpp', callTraces', expectedNativeTrapDisableCalls', error')
  <2>1. Stacks(Front(callStack), cpp',
               IF IsLoop(Last(callStack)) \/ IsNative(Last(callStack)) THEN callTraces
               ELSE Front(callTraces),
               IF IsNative(Last(callStack)) THEN expectedNativeTrapDisableCalls - 1
               ELSE expectedNativeTrapDisableCalls, error)
    BY <1>4, <1>5, StacksPopped
  <2> QED BY <1>6, <1>7, <2>1
<1>9. /\ callStack' # <<>> /\ IsDeltaCodeContext(Last(callStack')) /\ Last(callStack').vm = v
      /\ Last(callStack).ret = "code"
  BY <1>1, <1>5, <1>6, ScriptUnderLib
<1>10. ~LoopOnTop' /\ ~IsLib(Last(callStack')) /\ Top("loop")'
  BY <1>2, <1>9 DEF LoopOnTop, IsLoop, IsLib, IsDeltaCodeContext, Top
<1>11. MatchedFrames' = LiveIn(cpp) /\ MatchedCalls' = CallsIn(callStack')
  BY <1>2, <1>10 DEF MatchedFrames, MatchedCalls, LibGone, LibLeft, Top
<1>12. MatchedCalls = CallsIn(callStack) \ {Len(callStack)}
  BY <1>1, <1>6 DEF MatchedCalls, LibLeft
<1>13. Matches(MatchedFrames', MatchedCalls', callStack', cpp')
  <2>1. /\ CallsIn(callStack') = CallsIn(callStack) \ {Len(callStack)}
        /\ HandlersUnder(Len(callStack), callStack, callStack')
        /\ SameCallsAt(CallsIn(callStack) \ {Len(callStack)}, callStack, callStack')
    BY <1>1, <1>5, <1>6, CallsPopped
  <2>2. OldHandlers(callStack, callStack')
    BY <2>1 DEF OldHandlers, HandlersUnder
  <2>3. LiveIn(cpp) \in SUBSET Int /\ CallsIn(callStack) \ {Len(callStack)} \in SUBSET Int
        /\ Len(cpp') \in Nat
    BY <1>2, <1>4, Positions
  <2>4. Matches(LiveIn(cpp), CallsIn(callStack) \ {Len(callStack)}, callStack', cpp')
    BY <1>4, <1>12, <2>1, <2>2, <2>3, SameCallStack
  <2> QED BY <1>11, <2>1, <2>4
<1>14. Others' /\ pc'[v] = "code"
  BY <1>5, <1>6, <1>9, Apart DEF Others, Counters
<1>15. AllChecked'
  <2>1. AllChecked
    BY Apart DEF ControlInv
  <2> QED BY <1>2, <1>3, <1>6, <2>1 DEF AllChecked
<1>16. HandlersIn(callStack') # {} /\ (leftProgram' \/ StaysInProgram')
  <2>1. TypeInv /\ HandlersIn(callStack) # {} /\ (leftProgram' \/ StaysInProgram)
    BY Apart DEF IInv, ControlInv, StillLeft
  <2> QED BY <1>5, <1>6, <1>7, <2>1, StaysPopped
<1>17. LoopInv'
  <2>1. Unwound(v)'
    BY <1>6, <1>9, <1>14 DEF Unwound, ScriptOnTop
  <2> QED BY <1>2, <2>1 DEF LoopInv
<1>18. ControlInv'
  BY <1>6, <1>10, <1>15, <1>16, <1>17 DEF ControlInv
<1> QED BY <1>8, <1>13, <1>14, <1>18, Together

\* A library function that throws natively is popped later.
LEMMA NativeThrowKeeps ==
    ASSUME IInv, StillLeft, NativeThrow
    PROVE  IInv'
<1>1. /\ Top("lib") /\ isUnwinding = FALSE /\ Last(cpp).valid /\ IsThereAnyTrapBlock
      /\ leftProgram' \/ StaysInProgram
      /\ isUnwinding' = TRUE /\ shouldUnwind' = TRUE /\ checker' = UnwindingCheckers
      /\ UNCHANGED <<callStack, expectedNativeTrapDisableCalls, callTraces, pc, error, cpp>>
  <2>1. isUnwinding \in BOOLEAN
    BY Apart DEF Others
  <2> QED BY <2>1 DEF NativeThrow, Thrown
<1>2. ~LibGone /\ ~LibLeft /\ ~Top("loop")
  BY <1>1 DEF LibGone, LibLeft, Top
<1>3. callStack # <<>> /\ IsLib(Last(callStack))
  BY <1>1, <1>2, NativeFacts
<1>4. InStep(callStack, cpp, callTraces, expectedNativeTrapDisableCalls, error)
  BY <1>2, Normal
<1>5. InStep(callStack', cpp', callTraces', expectedNativeTrapDisableCalls', error')
  BY <1>1, <1>4
<1>6. ~LoopOnTop' /\ ~Top("loop")' /\ ~LibGone' /\ ~LibLeft'
  BY <1>1, <1>2, <1>3 DEF LoopOnTop, IsLoop, IsLib, Top, LibGone, LibLeft
<1>7. UnwindingCheckers \in [VMs -> BOOLEAN]
  BY Apart DEF UnwindingCheckers, Others
<1>8. Others'
  BY <1>1, <1>7, Apart DEF Others
<1>9. AllChecked'
  BY <1>1, <1>4, CheckersCover DEF AllChecked
<1>10. HandlersIn(callStack') # {}
  BY <1>1 DEF IsThereAnyTrapBlock, Handlers, HandlersIn
<1>11. leftProgram' \/ StaysInProgram'
  BY <1>1 DEF StaysInProgram, Handlers
<1>12. ControlInv'
  BY <1>1, <1>6, <1>9, <1>10, <1>11 DEF ControlInv, LoopInv
<1> QED BY <1>5, <1>6, <1>8, <1>12, Settled

\* The loop unwinds the script code on top.
LEMMA ScriptUnwoundKeeps ==
    ASSUME IInv, StillLeft, NEW v \in VMs, InLoop(v, "check"), Last(cpp).valid, isUnwinding,
           UnwindDeltaCode(v, checker), Proceed("unwound"),
           UNCHANGED <<expectedNativeTrapDisableCalls, error>>
    PROVE  IInv'
<1>1. /\ Top("loop") /\ Last(cpp).vm = v /\ cpp # <<>>
      /\ "unwound" \in Phases /\ cpp' = [cpp EXCEPT ![Len(cpp)].phase = "unwound"]
  BY DEF InLoop, Top, Phases, Proceed
<1>2. /\ cpp' # <<>> /\ Last(cpp').what = "loop" /\ Last(cpp').vm = v
      /\ Last(cpp').phase = "unwound" /\ Last(cpp').valid
      /\ Len(cpp') = Len(cpp) /\ LiveIn(cpp') = LiveIn(cpp)
  BY <1>1, AtLoop
<1>3. \A j \in 1..Len(cpp) : /\ cpp'[j].what = cpp[j].what /\ cpp'[j].vm = cpp[j].vm
                             /\ cpp'[j].valid = cpp[j].valid
  BY <1>1, AtLoop
<1>4. /\ Stacks(callStack, cpp', callTraces, expectedNativeTrapDisableCalls, error)
      /\ Matches(LiveIn(cpp), MatchedCalls, callStack, cpp')
  BY <1>1, AtLoop
<1>5. IsDeltaCodeContext(Last(callStack))
  BY DEF UnwindDeltaCode
<1>6. ScriptOnTop(v) /\ ~LibLeft
  BY <1>1, <1>5, LoopFacts DEF ScriptOnTop, IsLib, IsDeltaCodeContext, LibLeft
<1>7. InStep(callStack, cpp', callTraces, expectedNativeTrapDisableCalls, error)
  BY <1>2, <1>4, <1>6 DEF InStep, MatchedCalls
<1>8. /\ HandlersIn(callStack) # {} /\ (leftProgram' \/ StaysInProgram)
      /\ AllChecked /\ checker \in [VMs -> BOOLEAN]
  BY Apart DEF ControlInv, Others, StillLeft
<1>9. \A j \in 1..Len(cpp') : cpp'[j].what = "loop" /\ cpp'[j].valid => checker[cpp'[j].vm]
  BY <1>2, <1>3, <1>8 DEF AllChecked
<1> QED BY <1>2, <1>6, <1>7, <1>8, <1>9, CutKeeps

LEMMA LoopUnwindsKeeps ==
    ASSUME IInv, StillLeft, NEW v \in VMs, LoopUnwinds(v)
    PROVE  IInv'
<1>1. CASE ~shouldUnwind
  BY <1>1, LoopIsUnwoundKeeps
<1>2. CASE shouldUnwind
  <2>1. /\ InLoop(v, "check") /\ Last(cpp).valid /\ isUnwinding /\ Proceed("unwound")
        /\ UNCHANGED <<expectedNativeTrapDisableCalls, error>>
        /\ Unwind(v, checker)
    BY <1>2 DEF LoopUnwinds
  <2>2. CASE UnwindLibraryFunction(v, checker)
    BY <2>1, <2>2, LibUnwoundKeeps
  <2>3. CASE UnwindDeltaCode(v, checker)
    BY <2>1, <2>3, ScriptUnwoundKeeps
  <2> QED BY <2>1, <2>2, <2>3 DEF Unwind
<1> QED BY <1>1, <1>2

\* An exception that is caught somewhere, thrown by the script code on top.
LEMMA ScriptThrowKeeps ==
    ASSUME IInv, StillLeft, NEW v \in VMs, isUnwinding = FALSE, ScriptOnTop(v),
           NEW control, InStep(callStack, control, callTraces, expectedNativeTrapDisableCalls, error),
           control # <<>>, Last(control).what = "loop", Last(control).vm = v, Last(control).valid,
           Last(control).phase = "check",
           IsThereAnyTrapBlock, leftProgram' \/ StaysInProgram, Unwind(v, UnwindingCheckers),
           cpp' = control, UNCHANGED <<expectedNativeTrapDisableCalls, error>>
    PROVE  IInv'
<1>1. UnwindDeltaCode(v, UnwindingCheckers)
  BY DEF Unwind, UnwindLibraryFunction, ScriptOnTop, IsDeltaCodeContext
<1>2. UnwindingCheckers \in [VMs -> BOOLEAN]
  BY Apart DEF UnwindingCheckers, Others
<1>3. \A j \in 1..Len(control) :
         control[j].what = "loop" /\ control[j].valid => UnwindingCheckers[control[j].vm]
  BY CheckersCover
<1>4. HandlersIn(callStack) # {}
  BY DEF IsThereAnyTrapBlock, Handlers, HandlersIn
<1> QED BY <1>1, <1>2, <1>3, <1>4, CutKeeps

-----------------------------------------------------------------------------
(* Errors.                                                                 *)

\* The calls above a position are of other virtual machines than those below.
CutsApart(s, n) == \A j \in 1..n, i \in n + 1..Len(s) : s[i].vm # s[j].vm
VMsAbove(s, n) == {s[i].vm : i \in n + 1..Len(s)}

LEMMA CallsCutApart ==
    ASSUME NEW S, NEW s \in Seq(S), s # <<>>, NEW v, Last(s).vm = v
    PROVE  LET n == Len(s) - CallsToPop(s, v)
           IN  /\ n \in 0..Len(s) - 1 /\ CutsApart(s, n)
               /\ \A k \in 0..Len(s) - 1 : CutsApart(s, k) => k <= n
<1> DEFINE T == {n \in 1..Len(s) :
                    \A j \in 1..Len(s) - n :
                        /\ s[j].vm # v
                        /\ \A i \in Len(s) - n + 1..Len(s) - 1 : s[i].vm # s[j].vm}
<1>1. Len(s) \in Nat /\ Len(s) \in 1..Len(s) /\ s[Len(s)].vm = v
  BY OnTop
<1>2. ASSUME NEW n \in 1..Len(s) PROVE n \in T <=> CutsApart(s, Len(s) - n)
  <2> DEFINE k == Len(s) - n
  <2>1. k \in Nat /\ k + 1 \in Nat /\ Len(s) \in k + 1..Len(s)
    BY <1>1
  <2>2. \A i \in k + 1..Len(s) : i = Len(s) \/ i \in k + 1..Len(s) - 1
    BY <1>1, <2>1
  <2>3. \A i \in k + 1..Len(s) - 1 : i \in k + 1..Len(s)
    BY <1>1, <2>1
  <2>4. n \in T <=> \A j \in 1..k : /\ s[j].vm # v
                                    /\ \A i \in k + 1..Len(s) - 1 : s[i].vm # s[j].vm
    OBVIOUS
  <2> HIDE DEF k, T
  <2> QED BY <1>1, <2>1, <2>2, <2>3, <2>4 DEF CutsApart, k
<1>3. Len(s) \in T
  <2>1. 1..Len(s) - Len(s) = {}
    BY <1>1
  <2> QED BY <1>1, <2>1
<1>4. T \in SUBSET Nat /\ \A n \in T : n \in 1..Len(s)
  BY <1>1
<1>5. CallsToPop(s, v) = Min(T)
  BY DEF CallsToPop
<1> HIDE DEF T
<1>6. Min(T) \in T /\ \A n \in T : Min(T) <= n
  BY <1>3, <1>4, MinIsLeast
<1>7. Min(T) \in 1..Len(s) /\ CutsApart(s, Len(s) - Min(T))
  BY <1>2, <1>4, <1>6
<1>8. ASSUME NEW k \in 0..Len(s) - 1, CutsApart(s, k) PROVE k <= Len(s) - Min(T)
  <2>1. Len(s) - k \in 1..Len(s) /\ Len(s) - (Len(s) - k) = k
    BY <1>1
  <2>2. Len(s) - k \in T
    BY <1>2, <1>8, <2>1
  <2>3. Min(T) <= Len(s) - k
    BY <1>6, <2>2
  <2>4. Min(T) \in Nat /\ k \in Nat
    BY <1>7
  <2> QED BY <1>1, <2>3, <2>4
<1>9. Len(s) - Min(T) \in 0..Len(s) - 1
  BY <1>1, <1>7
<1> QED BY <1>5, <1>7, <1>8, <1>9

\* Stacks of calls without native code, whose newest call is not a loop.
NoNatives(s) ==
    /\ s \in Seq(CallSet) /\ CallsNest(s) /\ s # <<>> /\ ~IsLoop(Last(s))
    /\ \A i \in 1..Len(s) : ~IsNative(s[i])

\* A call trace of the same virtual machine is near every call.
LEMMA TraceNear ==
    ASSUME NEW s, NoNatives(s), NEW i \in 1..Len(s)
    PROVE  \/ i \in TracedIn(s)
           \/ IsLoop(s[i]) /\ i + 1 \in TracedIn(s) /\ s[i + 1].vm = s[i].vm
<1>1. /\ Len(s) \in Nat /\ Len(s) \in 1..Len(s) /\ Last(s) = s[Len(s)]
      /\ Nests(s, i) /\ ~IsNative(s[i]) /\ i \in Nat /\ i <= Len(s)
  BY OnTop DEF NoNatives, CallsNest
<1>2. CASE ~IsLoop(s[i])
  BY <1>1, <1>2 DEF TracedIn
<1>3. CASE IsLoop(s[i])
  <2>1. i # Len(s)
    BY <1>1, <1>3 DEF NoNatives
  <2>2. i < Len(s) /\ i + 1 \in 1..Len(s)
    BY <1>1, <2>1
  <2>3. IsDeltaCodeContext(s[i + 1]) /\ s[i + 1].vm = s[i].vm
    BY <1>1, <1>3, <2>2 DEF Nests
  <2> QED BY <1>3, <2>2, <2>3 DEF TracedIn, IsLoop, IsNative, IsDeltaCodeContext
<1> QED BY <1>2, <1>3

\* Virtual machines only change at a loop.
LEMMA ApartAtLoop ==
    ASSUME NEW s, NoNatives(s), NEW n \in 0..Len(s) - 1, CutsApart(s, n)
    PROVE  /\ IsLoop(s[n + 1])
           /\ n > 0 => ~IsLoop(s[n])
<1>1. /\ Len(s) \in Nat /\ n + 1 \in 1..Len(s) /\ n \in Nat /\ n < Len(s)
      /\ Nests(s, n + 1) /\ ~IsNative(s[n + 1]) /\ s[n + 1] \in CallSet
      /\ n + 1 - 1 = n
  BY OnTop DEF NoNatives, CallsNest
<1>2. n > 0 => s[n + 1].vm # s[n].vm
  <2>1. n > 0 => n \in 1..n /\ n + 1 \in n + 1..Len(s)
    BY <1>1
  <2> QED BY <2>1 DEF CutsApart
<1>3. IsLoop(s[n + 1])
  <2>1. ~IsDeltaCodeContext(s[n + 1]) /\ ~IsLib(s[n + 1])
    BY <1>1, <1>2 DEF Nests
  <2> QED BY <1>1, <2>1 DEF CallSet, Contexts, IsDeltaCodeContext, IsLib, IsNative, IsLoop
<1>4. n > 0 => ~IsLoop(s[n])
  <2>1. n > 0 => n \in 1..Len(s)
    BY <1>1
  <2>2. n > 0 => Nests(s, n)
    BY <2>1 DEF NoNatives, CallsNest
  <2> QED BY <1>1, <1>3, <2>2 DEF IsLoop, Nests, IsDeltaCodeContext
<1> QED BY <1>3, <1>4

\* The traces are cut apart where the calls are.
LEMMA TracesCutApart ==
    ASSUME NEW s, NoNatives(s), NEW ct, Len(ct) \in Nat, NEW t,
           Increasing(t, 1..Len(ct), TracedIn(s)),
           \A k \in 1..Len(ct) : ct[k].vm = s[t[k]].vm,
           NEW n \in 0..Len(s) - 1, CutsApart(s, n),
           \A k \in 0..Len(s) - 1 : CutsApart(s, k) => k <= n,
           NEW c \in 0..Len(ct) - 1, CutsApart(ct, c),
           \A k \in 0..Len(ct) - 1 : CutsApart(ct, k) => k <= c
    PROVE  \A k \in 1..Len(ct) : k <= c <=> t[k] <= n
<1>1. /\ Len(s) \in Nat /\ n \in Nat /\ Len(s) \in 1..Len(s) /\ Last(s) = s[Len(s)]
      /\ Len(ct) \in Nat /\ c \in Nat /\ n < Len(s) /\ c < Len(ct)
  BY OnTop DEF NoNatives
<1>2. /\ TracedIn(s) \in SUBSET Int /\ 1..Len(ct) \in SUBSET Int
      /\ \A i \in TracedIn(s) : i \in 1..Len(s) /\ i \in Nat /\ i <= Len(s)
  <2>1. 1..Len(ct) \in SUBSET Int
    OBVIOUS
  <2> QED BY <1>1, <2>1, PositionTypes
<1>3. \A k \in 1..Len(ct) : /\ t[k] \in TracedIn(s) /\ t[k] \in 1..Len(s) /\ t[k] \in Nat
                            /\ ct[k].vm = s[t[k]].vm
  <2>1. \A k \in 1..Len(ct) : t[k] \in TracedIn(s)
    BY DEF Increasing
  <2> QED BY <1>2, <2>1
<1>4. \A k1, k2 \in 1..Len(ct) : /\ k1 <= k2 <=> t[k1] <= t[k2]
                                 /\ k1 < k2 <=> t[k1] < t[k2]
  BY <1>2, IncreasingMirrors
<1>5. \A i \in TracedIn(s) : \E k \in 1..Len(ct) : t[k] = i
  BY DEF Increasing
<1>6. \A i \in TracedIn(s) : ~IsLoop(s[i])
  BY DEF TracedIn
<1> DEFINE d == t[c + 1]
<1>7. /\ c + 1 \in 1..Len(ct) /\ d \in TracedIn(s) /\ d \in 1..Len(s) /\ d \in Nat
      /\ Nests(s, d) /\ ~IsLoop(s[d]) /\ ~IsNative(s[d]) /\ s[d] \in CallSet
  <2>1. c + 1 \in 1..Len(ct)
    BY <1>1
  <2>2. d \in TracedIn(s) /\ d \in 1..Len(s) /\ d \in Nat
    BY <1>3, <2>1
  <2> HIDE DEF d
  <2> QED BY <1>6, <2>1, <2>2, OnTop DEF NoNatives, CallsNest
<1> HIDE DEF d
\* The oldest trace that goes is of the call above a loop.
<1>8. d > 1 /\ IsLoop(s[d - 1])
  <2>1. IsDeltaCodeContext(s[d]) \/ IsLib(s[d])
    BY <1>7 DEF CallSet, Contexts, IsDeltaCodeContext, IsLib, IsNative, IsLoop
  <2>2. d > 1 /\ s[d - 1].vm = s[d].vm /\ (IsLoop(s[d - 1]) \/ IsDeltaCodeContext(s[d - 1]))
    BY <1>7, <2>1 DEF Nests
  <2>3. SUFFICES ASSUME IsDeltaCodeContext(s[d - 1]) PROVE FALSE
    BY <2>2
  <2>4. d - 1 \in TracedIn(s)
    <3>1. d - 1 \in 1..Len(s)
      BY <1>1, <1>7, <2>2
    <3> QED BY <2>3, <3>1 DEF TracedIn, IsDeltaCodeContext, IsLoop, IsNative
  <2>5. PICK k \in 1..Len(ct) : t[k] = d - 1
    BY <1>5, <2>4
  <2>6. k < c + 1
    <3>1. t[k] < t[c + 1]
      BY <1>7, <2>5 DEF d
    <3> QED BY <1>4, <1>7, <3>1
  <2>7. k \in 1..c /\ c + 1 \in c + 1..Len(ct)
    BY <1>1, <2>6
  <2>8. ct[k].vm = s[d - 1].vm /\ ct[c + 1].vm = s[d].vm
    BY <1>3, <1>7, <2>5 DEF d
  <2> QED BY <2>2, <2>7, <2>8 DEF CutsApart
<1>9. d - 2 \in 0..Len(s) - 1 /\ d - 2 + 1 = d - 1 /\ d - 2 \in Nat /\ d - 1 \in Nat
  BY <1>1, <1>7, <1>8
\* A trace near a call is on its side.
<1>10. ASSUME NEW i \in 1..Len(s)
       PROVE  \E k \in 1..Len(ct) : ct[k].vm = s[i].vm /\ t[k] \in {i, i + 1} /\ (IsLoop(s[i]) <=> t[k] = i + 1)
  <2>1. i \in Nat /\ i # i + 1
    OBVIOUS
  <2>2. CASE i \in TracedIn(s)
    BY <1>3, <1>5, <1>6, <2>1, <2>2, ZenonT(60)
  <2>3. CASE IsLoop(s[i]) /\ i + 1 \in TracedIn(s) /\ s[i + 1].vm = s[i].vm
    BY <1>3, <1>5, <2>3
  <2> QED BY <2>2, <2>3, TraceNear
<1>11. CutsApart(s, d - 2)
  <2> SUFFICES ASSUME NEW j \in 1..d - 2, NEW i \in d - 2 + 1..Len(s) PROVE s[i].vm # s[j].vm
    BY DEF CutsApart
  <2>1. j \in 1..Len(s) /\ i \in 1..Len(s) /\ j \in Nat /\ i \in Nat /\ j <= d - 2 /\ i >= d - 1
    BY <1>1, <1>7, <1>9
  <2>2. PICK a \in 1..Len(ct) : ct[a].vm = s[j].vm /\ t[a] \in {j, j + 1}
    BY <1>10, <2>1
  <2>3. PICK b \in 1..Len(ct) : ct[b].vm = s[i].vm /\ t[b] \in {i, i + 1} /\ (IsLoop(s[i]) <=> t[b] = i + 1)
    BY <1>10, <2>1
  <2>4. t[a] < d
    BY <1>7, <2>1, <2>2
  <2>5. t[b] >= d
    <3>1. CASE i = d - 1
      BY <1>7, <1>8, <2>3, <3>1
    <3>2. CASE i # d - 1
      BY <1>7, <2>1, <2>3, <3>2
    <3> QED BY <3>1, <3>2
  <2>6. a < c + 1 /\ c + 1 <= b
    BY <1>4, <1>7, <2>4, <2>5 DEF d
  <2>7. a \in 1..c /\ b \in c + 1..Len(ct)
    BY <1>1, <2>6
  <2> QED BY <2>2, <2>3, <2>7 DEF CutsApart
<1>12. d - 2 <= n
  BY <1>9, <1>11
<1>13. n < d
  <2> SUFFICES ASSUME d <= n PROVE FALSE
    BY <1>1, <1>7
  <2> DEFINE K == {k \in 0..Len(ct) : k \in 1..Len(ct) /\ t[k] <= n}
  <2>1. K \in SUBSET (0..Len(ct)) /\ c + 1 \in K
    BY <1>1, <1>7 DEF d
  <2>2. PICK g \in K : \A k \in K : k <= g
    <3> HIDE DEF K
    <3> QED BY <1>1, <2>1, GreatestNumber
  <2>3. g \in 1..Len(ct) /\ t[g] <= n /\ g \in Nat /\ c + 1 <= g
    BY <2>1, <2>2
  <2>4. \A k \in 1..Len(ct) : k <= g <=> t[k] <= n
    <3>1. ASSUME NEW k \in 1..Len(ct), t[k] <= n PROVE k <= g
      <4>1. k \in K
        BY <3>1
      <4> QED BY <2>2, <4>1
    <3>2. ASSUME NEW k \in 1..Len(ct), k <= g PROVE t[k] <= n
      <4>1. t[k] <= t[g] /\ t[k] \in Nat /\ t[g] \in Nat
        BY <1>3, <1>4, <2>3, <3>2
      <4> QED BY <1>1, <2>3, <4>1
    <3> QED BY <3>1, <3>2
  <2>5. g # Len(ct)
    <3>1. Len(s) \in TracedIn(s)
      BY <1>1 DEF NoNatives, TracedIn
    <3>2. PICK k \in 1..Len(ct) : t[k] = Len(s)
      BY <1>5, <3>1
    <3>3. ~(k <= g) /\ k \in Nat /\ k <= Len(ct)
      BY <1>1, <2>4, <3>2
    <3> QED BY <2>3, <3>3
  <2>6. g \in 0..Len(ct) - 1
    BY <1>1, <2>3, <2>5
  <2>7. CutsApart(ct, g)
    <3> SUFFICES ASSUME NEW j \in 1..g, NEW i \in g + 1..Len(ct) PROVE ct[i].vm # ct[j].vm
      BY DEF CutsApart
    <3>1. j \in 1..Len(ct) /\ i \in 1..Len(ct) /\ j <= g /\ ~(i <= g)
      BY <1>1, <2>3
    <3>2. t[j] <= n /\ ~(t[i] <= n)
      BY <2>4, <3>1
    <3>3. t[j] \in 1..n /\ t[i] \in n + 1..Len(s)
      BY <1>1, <1>3, <3>1, <3>2
    <3>4. s[t[i]].vm # s[t[j]].vm
      BY <3>3 DEF CutsApart
    <3> QED BY <1>3, <3>1, <3>4
  <2>8. g <= c
    BY <2>6, <2>7
  <2> QED BY <1>1, <2>3, <2>8
<1>14. ASSUME NEW k \in 1..Len(ct), k <= c PROVE t[k] <= n
  <2>1. k < c + 1
    BY <1>1, <1>14
  <2>2. t[k] < d
    BY <1>4, <1>7, <2>1 DEF d
  <2>3. t[k] # d - 1 /\ t[k] \in Nat
    BY <1>3, <1>6, <1>8
  <2> QED BY <1>1, <1>7, <1>12, <2>2, <2>3
<1>15. ASSUME NEW k \in 1..Len(ct), ~(k <= c) PROVE ~(t[k] <= n)
  <2>1. c + 1 <= k
    BY <1>1, <1>15
  <2>2. d <= t[k] /\ t[k] \in Nat
    BY <1>3, <1>4, <1>7, <2>1 DEF d
  <2> QED BY <1>1, <1>7, <1>13, <2>2
<1> QED BY <1>14, <1>15

\* What an error leaves.
FailsAt(n, v, control) ==
    LET failing == VMsAbove(callStack, n)
    IN  /\ n \in 0..Len(callStack) - 1
        /\ callStack' = SubSeq(callStack, 1, n)
        /\ callTraces' \in Seq(TraceSet) /\ Traces(callTraces', SubSeq(callStack, 1, n))
        /\ CutsApart(callStack, n) /\ \A k \in 0..Len(callStack) - 1 : CutsApart(callStack, k) => k <= n
        /\ failing \in SUBSET VMs /\ v \in failing
        /\ error' = [u \in VMs |-> error[u] \/ u \in failing]
        /\ pc' = [u \in VMs |-> IF u \in failing THEN "end" ELSE pc[u]]
        /\ cpp' = [i \in DOMAIN control |->
                      [control[i] EXCEPT !.valid = @ /\ control[i].vm \notin failing]]
        /\ UNCHANGED <<checker, isUnwinding, shouldUnwind, expectedNativeTrapDisableCalls>>

LEMMA ErrorTakes ==
    ASSUME NoNatives(callStack), callTraces \in Seq(TraceSet), Traces(callTraces, callStack),
           expectedNativeTrapDisableCalls \in Nat,
           NEW v \in VMs, Last(callStack).vm = v, NEW control, InvalidateExecution(v, control)
    PROVE  \E n : FailsAt(n, v, control)
<1> DEFINE s == callStack
           ct == callTraces
           n == Len(s) - CallsToPop(s, v)
           c == Len(ct) - CallsToPop(ct, v)
           failing == {v} \cup {ct[i].vm : i \in c + 1..Len(ct) - 1}
           gone == {i \in Len(s) - CallsToPop(s, v) + 1..Len(s) : s[i].context = "InNativeCode"}
<1>1. /\ s \in Seq(CallSet) /\ CallsNest(s) /\ s # <<>> /\ Len(s) \in Nat /\ Len(s) \in 1..Len(s)
      /\ Last(s) = s[Len(s)] /\ ~IsLoop(s[Len(s)]) /\ ~IsNative(s[Len(s)])
      /\ Len(ct) \in Nat
  BY OnTop DEF NoNatives
<1>2. PICK t : /\ Increasing(t, 1..Len(ct), TracedIn(s))
               /\ \A k \in 1..Len(ct) : ct[k] = Trace(s[t[k]].context, s[t[k]].vm)
  BY DEF Traces
<1>3. /\ TracedIn(s) \in SUBSET Int /\ 1..Len(ct) \in SUBSET Int
      /\ \A i \in TracedIn(s) : i \in 1..Len(s) /\ i \in Nat /\ i <= Len(s)
  <2>1. 1..Len(ct) \in SUBSET Int
    OBVIOUS
  <2> QED BY <1>1, <2>1, PositionTypes
<1>4. \A k \in 1..Len(ct) : t[k] \in TracedIn(s) /\ ct[k].vm = s[t[k]].vm
  <2>1. \A k \in 1..Len(ct) : t[k] \in TracedIn(s)
    BY <1>2 DEF Increasing
  <2>2. ASSUME NEW k \in 1..Len(ct) PROVE ct[k].vm = s[t[k]].vm
    <3>1. ct[k] = Trace(s[t[k]].context, s[t[k]].vm)
      BY <1>2
    <3> QED BY <3>1 DEF Trace
  <2> QED BY <2>1, <2>2
<1>5. \A i \in TracedIn(s) : \E k \in 1..Len(ct) : t[k] = i
  BY <1>2 DEF Increasing
<1>6. Len(s) \in TracedIn(s)
  BY <1>1 DEF TracedIn
\* The newest trace is of the newest call.
<1>7. ct # <<>> /\ Last(ct) = ct[Len(ct)] /\ Len(ct) \in 1..Len(ct) /\ Last(ct).vm = v
  <2>1. PICK k \in 1..Len(ct) : t[k] = Len(s)
    BY <1>5, <1>6
  <2>2. Len(ct) \in 1..Len(ct) /\ ct # <<>> /\ Last(ct) = ct[Len(ct)]
    <3>1. Len(ct) # 0
      BY <1>1, <2>1
    <3> QED BY <3>1, OnTop
  <2>3. t[Len(ct)] = Len(s)
    <3>1. \A x \in 1..Len(ct) : x <= Len(ct)
      BY <1>1
    <3>2. \A i \in TracedIn(s) : i <= t[Len(ct)]
      BY <1>2, <1>3, <2>2, <3>1, IncreasingTopImage
    <3>3. Len(s) <= t[Len(ct)] /\ t[Len(ct)] \in Nat /\ t[Len(ct)] <= Len(s)
      BY <1>3, <1>4, <1>6, <2>2, <3>2
    <3> QED BY <1>1, <3>3
  <2> QED BY <1>1, <1>4, <2>2, <2>3
<1>8. /\ n \in 0..Len(s) - 1 /\ CutsApart(s, n)
      /\ \A k \in 0..Len(s) - 1 : CutsApart(s, k) => k <= n
  BY <1>1, CallsCutApart
<1>9. /\ c \in 0..Len(ct) - 1 /\ CutsApart(ct, c)
      /\ \A k \in 0..Len(ct) - 1 : CutsApart(ct, k) => k <= c
  BY <1>7, CallsCutApart
<1>10. /\ callTraces' = SubSeq(ct, 1, c) /\ callStack' = SubSeq(s, 1, n)
       /\ expectedNativeTrapDisableCalls' = expectedNativeTrapDisableCalls - Cardinality(gone)
  <2>1. /\ callTraces' = Drop(ct, CallsToPop(ct, v)) /\ callStack' = Drop(s, CallsToPop(s, v))
        /\ expectedNativeTrapDisableCalls' = expectedNativeTrapDisableCalls - Cardinality(gone)
    BY DEF InvalidateExecution
  <2> QED BY <2>1 DEF Drop
<1>11. /\ error' = [u \in VMs |-> error[u] \/ u \in failing]
       /\ pc' = [u \in VMs |-> IF u \in failing THEN "end" ELSE pc[u]]
       /\ cpp' = [i \in DOMAIN control |->
                      [control[i] EXCEPT !.valid = @ /\ control[i].vm \notin failing]]
       /\ UNCHANGED <<checker, isUnwinding, shouldUnwind>>
  BY DEF InvalidateExecution
<1> HIDE DEF n, c
<1>12. /\ n \in Nat /\ n < Len(s) /\ n \in 0..Len(s) /\ c \in Nat /\ c < Len(ct) /\ c \in 0..Len(ct)
       /\ Len(s) \in n + 1..Len(s) /\ Len(ct) \in c + 1..Len(ct)
  BY <1>1, <1>8, <1>9
<1>13. \A k \in 1..Len(ct) : k <= c <=> t[k] <= n
  BY <1>1, <1>2, <1>4, <1>8, <1>9, TracesCutApart
<1>14. Traces(callTraces', SubSeq(s, 1, n)) /\ callTraces' \in Seq(TraceSet)
  BY <1>1, <1>2, <1>10, <1>12, <1>13, TracesCut, Keeping
\* What fails is what was above.
<1>15. failing = VMsAbove(s, n)
  <2>1. ASSUME NEW u \in failing PROVE u \in VMsAbove(s, n)
    <3>1. v \in VMsAbove(s, n)
      BY <1>1, <1>12 DEF VMsAbove
    <3>2. CASE u # v
      <4>1. PICK i \in c + 1..Len(ct) - 1 : u = ct[i].vm
        BY <3>2
      <4>2. i \in 1..Len(ct) /\ ~(i <= c)
        BY <1>1, <1>12
      <4>3. ~(t[i] <= n) /\ t[i] \in TracedIn(s) /\ u = s[t[i]].vm
        BY <1>4, <1>13, <4>1, <4>2
      <4>4. t[i] \in n + 1..Len(s)
        BY <1>3, <1>12, <4>3
      <4> QED BY <4>3, <4>4 DEF VMsAbove
    <3> QED BY <3>1, <3>2
  <2>2. ASSUME NEW i \in n + 1..Len(s) PROVE s[i].vm \in failing
    <3>1. i \in 1..Len(s) /\ i \in Nat /\ i > n
      BY <1>12
    <3>2. PICK j \in TracedIn(s) : j \in {i, i + 1} /\ s[j].vm = s[i].vm
      BY <3>1, TraceNear
    <3>3. PICK k \in 1..Len(ct) : t[k] = j
      BY <1>5
    <3>4. ~(k <= c) /\ ct[k].vm = s[i].vm
      <4>1. ~(j <= n)
        BY <1>3, <1>12, <3>1, <3>2
      <4> QED BY <1>4, <1>13, <3>2, <3>3, <4>1
    <3>5. k = Len(ct) \/ k \in c + 1..Len(ct) - 1
      BY <1>1, <1>12, <3>4
    <3> QED BY <1>7, <3>4, <3>5
  <2> HIDE DEF failing
  <2> QED BY <2>1, <2>2 DEF VMsAbove
<1> HIDE DEF failing
<1>16. VMsAbove(s, n) \in SUBSET VMs /\ v \in VMsAbove(s, n)
  <2>1. ASSUME NEW i \in n + 1..Len(s) PROVE s[i].vm \in VMs
    <3>1. i \in 1..Len(s)
      BY <1>12
    <3>2. s[i] \in CallSet /\ ~IsNative(s[i])
      BY <1>1, <3>1, OnTop DEF NoNatives
    <3> QED BY <3>2 DEF CallSet
  <2> QED BY <1>1, <1>12, <2>1 DEF VMsAbove
<1>17. UNCHANGED expectedNativeTrapDisableCalls
  <2>1. gone = {}
    <3>1. \A i \in Len(s) - CallsToPop(s, v) + 1..Len(s) : i \in 1..Len(s)
      BY <1>12 DEF n
    <3> QED BY <3>1 DEF NoNatives, IsNative
  <2> HIDE DEF gone
  <2>2. Cardinality(gone) = 0
    BY <2>1, FS_EmptySet
  <2> QED BY <1>10, <2>2
<1>18. FailsAt(n, v, control)
  BY <1>8, <1>10, <1>11, <1>14, <1>15, <1>16, <1>17 DEF FailsAt
<1> QED BY <1>18

\* The errors after virtual machines failed.
Failed(e, X) == [u \in VMs |-> e[u] \/ u \in X]

\* The calls above a position and their C++ calls are gone.
LEMMA InStepFailed ==
    ASSUME NEW s, NEW f, NEW ct, NEW n, NEW e, InStep(s, f, ct, n, e), HandlersIn(s) = {},
           NEW k \in 0..Len(s), CutsApart(s, k), NEW X \in SUBSET VMs, X = VMsAbove(s, k),
           f # <<>> /\ Last(f).what = "loop" => Last(f).phase = "check",
           NEW ct2 \in Seq(TraceSet), Traces(ct2, SubSeq(s, 1, k))
    PROVE  InStep(SubSeq(s, 1, k), Expired(f, X), ct2, n, Failed(e, X))
<1> DEFINE s2 == SubSeq(s, 1, k)
           f2 == Expired(f, X)
           e2 == Failed(e, X)
<1>1. /\ s \in Seq(CallSet) /\ CallsNest(s) /\ f \in Seq(FrameSet) /\ FramesNest(f)
      /\ n = Cardinality(NativesIn(s)) /\ e \in [VMs -> BOOLEAN]
      /\ FramesExpire(f, e) /\ CallsOfOthers(s, e)
      /\ Stacks(s, f, ct, n, e) /\ Matches(LiveIn(f), CallsIn(s), s, f)
  BY DEF InStep, Stacks
<1>2. /\ Len(s) \in Nat /\ k \in Nat /\ Len(s2) = k /\ s2 \in Seq(CallSet)
      /\ \A i \in 1..k : s2[i] = s[i] /\ i \in 1..Len(s)
      /\ CallsIn(s2) = UpTo(CallsIn(s), k) /\ HandlersIn(s2) = {}
      /\ NativesIn(s2) = UpTo(NativesIn(s), k) /\ CallsNest(s2)
  <2>1. Len(s) \in Nat /\ k \in Nat /\ \A i \in 1..k : i \in 1..Len(s)
    BY <1>1, OnTop
  <2>2. HandlersIn(s2) = UpTo(HandlersIn(s), k)
    BY <1>1, KeptPositions
  <2>3. UpTo({}, k) = {}
    BY DEF UpTo
  <2> QED BY <1>1, <2>1, <2>2, <2>3, Keeping, KeptPositions, NestKept
<1>3. /\ f2 \in Seq(FrameSet) /\ Len(f2) = Len(f) /\ Len(f) \in Nat /\ FramesNest(f2)
      /\ \A j \in 1..Len(f) : /\ f2[j].what = f[j].what /\ f2[j].vm = f[j].vm
                              /\ f2[j].valid = (f[j].valid /\ f[j].vm \notin X)
  BY <1>1, FramesExpired
<1>4. e2 \in [VMs -> BOOLEAN] /\ \A u \in VMs : e2[u] <=> e[u] \/ u \in X
  BY <1>1 DEF Failed
<1> HIDE DEF s2, f2, e2
\* Whose calls are above, has none below.
<1>5. \A i \in 1..Len(s) : s[i].vm \in X <=> k < i
  <2>1. ASSUME NEW i \in 1..Len(s), k < i PROVE s[i].vm \in X
    <3>1. i \in k + 1..Len(s)
      BY <1>2, <2>1
    <3> QED BY <3>1 DEF VMsAbove
  <2>2. ASSUME NEW i \in 1..Len(s), ~(k < i), s[i].vm \in X PROVE FALSE
    <3>1. i \in 1..k
      BY <1>2, <2>2
    <3>2. PICK a \in k + 1..Len(s) : s[i].vm = s[a].vm
      BY <2>2 DEF VMsAbove
    <3> QED BY <3>1, <3>2 DEF CutsApart
  <2> QED BY <2>1, <2>2
<1>6. FramesExpire(f2, e2)
  <2>1. ASSUME NEW j \in 1..Len(f2), f2[j].vm # NoVM
        PROVE  f2[j].valid <=> ~e2[f2[j].vm]
    <3>1. j \in 1..Len(f) /\ f[j] \in FrameSet
      BY <1>1, <1>3, OnTop
    <3>2. f[j].vm \in VMs /\ f[j].valid \in BOOLEAN /\ f2[j].vm = f[j].vm
      BY <1>3, <2>1, <3>1, FrameFacts
    <3>3. f[j].valid <=> ~e[f[j].vm]
      BY <1>1, <2>1, <3>1, <3>2 DEF FramesExpire
    <3> QED BY <1>3, <1>4, <3>1, <3>2, <3>3
  <2> QED BY <2>1 DEF FramesExpire
<1>7. CallsOfOthers(s2, e2)
  <2>1. ASSUME NEW i \in 1..Len(s2), s2[i].vm # NoVM PROVE ~e2[s2[i].vm]
    <3>1. i \in 1..Len(s) /\ s2[i] = s[i] /\ ~(k < i) /\ s[i] \in CallSet
      BY <1>1, <1>2, OnTop
    <3>2. s[i].vm \in VMs
      BY <2>1, <3>1 DEF CallSet
    <3>3. ~e[s[i].vm]
      BY <1>1, <2>1, <3>1 DEF CallsOfOthers
    <3> QED BY <1>4, <1>5, <3>1, <3>2, <3>3
  <2> QED BY <2>1 DEF CallsOfOthers
<1>8. n = Cardinality(NativesIn(s2))
  <2>1. NativesIn(s) = {}
    BY DEF NativesIn, HandlersIn, Handles, IsNative
  <2>2. NativesIn(s2) = {}
    BY <1>2, <2>1 DEF UpTo
  <2> QED BY <1>1, <2>1, <2>2
<1>9. Stacks(s2, f2, ct2, n, e2)
  BY <1>2, <1>3, <1>4, <1>6, <1>7, <1>8 DEF Stacks, s2
<1>10. PICK m : Agrees(m, LiveIn(f), CallsIn(s), s, f)
  BY <1>1 DEF Matches
<1>11. /\ Increasing(m, LiveIn(f), CallsIn(s))
       /\ \A j \in LiveIn(f) : s[m[j]].vm = f[j].vm /\ s[m[j]].context = ContextOf(f[j].what)
  BY <1>10 DEF Agrees
<1>12. \A j \in LiveIn(f) : m[j] \in CallsIn(s)
  BY <1>11 DEF Increasing
<1>13. /\ LiveIn(f) \in SUBSET Int /\ CallsIn(s) \in SUBSET Int
       /\ \A j \in LiveIn(f) : j \in 1..Len(f)
       /\ \A i \in CallsIn(s) : i \in 1..Len(s) /\ i \in Nat
  BY <1>1, Positions
<1>14. LiveIn(f2) \in SUBSET LiveIn(f)
  BY <1>3 DEF LiveIn
<1>15. \A j \in LiveIn(f) : j \in LiveIn(f2) <=> m[j] \in UpTo(CallsIn(s), k)
  <2>1. ASSUME NEW j \in LiveIn(f) PROVE j \in LiveIn(f2) <=> m[j] \in UpTo(CallsIn(s), k)
    <3>1. m[j] \in CallsIn(s) /\ m[j] \in 1..Len(s) /\ m[j] \in Nat /\ s[m[j]].vm = f[j].vm
      BY <1>11, <1>12, <1>13
    <3>2. j \in LiveIn(f2) <=> f[j].vm \notin X
      BY <1>3, <1>13 DEF LiveIn
    <3>3. f[j].vm \notin X <=> m[j] <= k
      BY <1>2, <1>5, <3>1
    <3> QED BY <3>1, <3>2, <3>3 DEF UpTo
  <2> QED BY <2>1
<1>16. /\ Increasing(On(m, LiveIn(f2)), LiveIn(f2), UpTo(CallsIn(s), k))
       /\ \A j \in LiveIn(f2) : On(m, LiveIn(f2))[j] = m[j]
  <2> DEFINE A == LiveIn(f)
             B == CallsIn(s)
             A2 == LiveIn(f2)
             B2 == UpTo(CallsIn(s), k)
  <2>1. B2 \in SUBSET B
    BY DEF UpTo
  <2>2. /\ A \in SUBSET Int /\ B \in SUBSET Int /\ Increasing(m, A, B)
        /\ A2 \in SUBSET A /\ B2 \in SUBSET B
        /\ \A a \in A : a \in A2 <=> m[a] \in B2
    BY <1>11, <1>13, <1>14, <1>15, <2>1
  <2> HIDE DEF A, B, A2, B2
  <2>3. Increasing(On(m, A2), A2, B2) /\ \A a \in A2 : On(m, A2)[a] = m[a]
    BY <2>2, IncreasingOn
  <2> QED BY <2>3 DEF A2, B2
<1>17. Agrees(On(m, LiveIn(f2)), LiveIn(f2), CallsIn(s2), s2, f2)
  <2>1. ASSUME NEW j \in LiveIn(f2)
        PROVE  /\ s2[On(m, LiveIn(f2))[j]].vm = f2[j].vm
               /\ s2[On(m, LiveIn(f2))[j]].context = ContextOf(f2[j].what)
    <3>1. j \in LiveIn(f) /\ j \in 1..Len(f) /\ m[j] \in UpTo(CallsIn(s), k)
      BY <1>13, <1>14, <1>15
    <3>2. m[j] \in 1..k
      BY <1>2, <1>13, <3>1 DEF UpTo
    <3>3. s2[m[j]] = s[m[j]] /\ f2[j].vm = f[j].vm /\ f2[j].what = f[j].what
      BY <1>2, <1>3, <3>1, <3>2
    <3> QED BY <1>11, <1>16, <3>1, <3>3
  <2> QED BY <1>2, <1>16, <2>1 DEF Agrees
<1>18. Matches(LiveIn(f2), CallsIn(s2), s2, f2)
  BY <1>17 DEF Matches
<1>19. InStep(s2, f2, ct2, n, e2)
  BY <1>9, <1>18 DEF InStep
<1> QED BY <1>19 DEF s2, f2, e2

\* An error that no exception handler catches.
LEMMA InvalidateKeeps ==
    ASSUME IInv, StillLeft, NEW v \in VMs, isUnwinding = FALSE, ~leftProgram',
           NEW control, InStep(callStack, control, callTraces, expectedNativeTrapDisableCalls, error),
           control # <<>>, Last(control).vm = v,
           Last(control).what = "loop" => Last(control).phase = "check",
           callStack # <<>>, Last(callStack).vm = v, ~IsLoop(Last(callStack)),
           HandlersIn(callStack) = {}, InvalidateExecution(v, control)
    PROVE  IInv'
<1>1. /\ callStack \in Seq(CallSet) /\ CallsNest(callStack) /\ callTraces \in Seq(TraceSet)
      /\ Traces(callTraces, callStack) /\ expectedNativeTrapDisableCalls = Cardinality(NativesIn(callStack))
      /\ control \in Seq(FrameSet) /\ FramesNest(control) /\ Len(callStack) \in Nat
      /\ pc \in [VMs -> Counters] /\ checker \in [VMs -> BOOLEAN] /\ shouldUnwind \in BOOLEAN
      /\ \A u \in VMs : pc[u] = "idle" => ~error[u]
  <2>1. Stacks(callStack, control, callTraces, expectedNativeTrapDisableCalls, error)
    BY DEF InStep
  <2> QED BY <2>1, Apart, OnTop DEF Stacks, Others
<1>2. NoNatives(callStack)
  BY <1>1 DEF NoNatives, HandlersIn, Handles, IsNative
<1>3. expectedNativeTrapDisableCalls \in Nat
  BY <1>1, PositionTypes, FS_CardinalityType
<1>4. PICK n : FailsAt(n, v, control)
  BY <1>1, <1>2, <1>3, ErrorTakes
<1> DEFINE X == VMsAbove(callStack, n)
<1>5. /\ n \in 0..Len(callStack) - 1 /\ callStack' = SubSeq(callStack, 1, n)
      /\ callTraces' \in Seq(TraceSet) /\ Traces(callTraces', SubSeq(callStack, 1, n))
      /\ CutsApart(callStack, n) /\ X \in SUBSET VMs /\ v \in X
      /\ error' = Failed(error, X)
      /\ pc' = [u \in VMs |-> IF u \in X THEN "end" ELSE pc[u]]
      /\ cpp' = Expired(control, X)
      /\ checker' = checker /\ isUnwinding' = FALSE /\ shouldUnwind' = shouldUnwind
      /\ expectedNativeTrapDisableCalls' = expectedNativeTrapDisableCalls
  BY <1>4 DEF FailsAt, Failed, Expired
<1>6. n \in 0..Len(callStack) /\ n \in Nat
  BY <1>1, <1>5
<1> HIDE DEF X
<1>7. InStep(callStack', cpp', callTraces', expectedNativeTrapDisableCalls', error')
  <2>1. X = VMsAbove(callStack, n)
    BY DEF X
  <2>2. InStep(SubSeq(callStack, 1, n), Expired(control, X), callTraces',
               expectedNativeTrapDisableCalls, Failed(error, X))
    BY <1>5, <1>6, <2>1, InStepFailed
  <2> QED BY <1>5, <2>2
<1>8. Others'
  <2>1. pc' \in [VMs -> Counters]
    BY <1>1, <1>5 DEF Counters
  <2>2. \A u \in VMs : pc'[u] = "idle" => ~error'[u]
    BY <1>1, <1>5 DEF Failed
  <2> QED BY <1>1, <1>5, <2>1, <2>2 DEF Others
<1>9. ~LoopOnTop'
  <2>1. n > 0 => ~IsLoop(callStack[n])
    BY <1>2, <1>5, ApartAtLoop
  <2>2. /\ n > 0 => Last(callStack') = callStack[n]
        /\ n = 0 => callStack' = <<>>
    BY <1>1, <1>5, <1>6, Keeping
  <2> QED BY <1>6, <2>1, <2>2 DEF LoopOnTop
<1>10. cpp' # <<>> /\ Last(cpp').vm = v /\ ~Last(cpp').valid
  <2>1. /\ Len(control) \in 1..Len(control) /\ Last(control) = control[Len(control)]
    BY <1>1, OnTop
  <2>2. /\ Expired(control, X) \in Seq(FrameSet) /\ Len(Expired(control, X)) = Len(control)
        /\ Len(control) \in Nat
    BY <1>1, <1>5, FramesExpired
  <2>3. /\ Expired(control, X)[Len(control)].vm = control[Len(control)].vm
        /\ Expired(control, X)[Len(control)].valid
              = (control[Len(control)].valid /\ control[Len(control)].vm \notin X)
    BY <1>1, <1>5, <2>1, FramesExpired, ZenonT(60)
  <2>4. cpp' # <<>> /\ Last(cpp') = cpp'[Len(control)]
    <3>1. Len(Expired(control, X)) # 0
      BY <2>1, <2>2
    <3> QED BY <1>5, <2>2, <3>1, OnTop
  <2> QED BY <1>5, <2>1, <2>3, <2>4
<1>11. LoopInv'
  BY <1>10 DEF LoopInv
<1>12. ControlInv'
  BY <1>5, <1>9, <1>11 DEF ControlInv
<1> QED BY <1>5, <1>7, <1>8, <1>12, SettledCalmly

-----------------------------------------------------------------------------
(* Every step.                                                             *)

\* A throw that does not lead astray.
LEMMA ThrowFacts ==
    ASSUME IInv, ~astray', NEW v, NEW control, Throw(v, control)
    PROVE  /\ isUnwinding = FALSE
           /\ IsThereAnyTrapBlock => /\ leftProgram' \/ StaysInProgram
                                     /\ Unwind(v, UnwindingCheckers) /\ cpp' = control
                                     /\ UNCHANGED <<expectedNativeTrapDisableCalls, error>>
           /\ ~IsThereAnyTrapBlock => InvalidateExecution(v, control) /\ ~leftProgram'
<1>1. isUnwinding \in BOOLEAN
  BY DEF IInv, TypeInv
<1>2. CASE IsThereAnyTrapBlock
  BY <1>1, <1>2 DEF Throw, Thrown
<1>3. CASE ~IsThereAnyTrapBlock
  <2>1. InvalidateExecution(v, control)
    BY <1>3 DEF Throw
  <2>2. FailureDiverts
    BY <2>1 DEF InvalidateExecution
  <2> QED BY <1>1, <1>3, <2>1, <2>2 DEF FailureDiverts
<1> QED BY <1>2, <1>3

\* Script code throws or fails.
LEMMA ScriptThrows ==
    ASSUME IInv, StillLeft, ~astray', NEW v \in VMs, isUnwinding = FALSE, ScriptOnTop(v),
           NEW control, InStep(callStack, control, callTraces, expectedNativeTrapDisableCalls, error),
           control # <<>>, Last(control).what = "loop", Last(control).vm = v, Last(control).valid,
           Last(control).phase = "check", Throw(v, control)
    PROVE  IInv'
<1>1. CASE IsThereAnyTrapBlock
  <2>1. /\ leftProgram' \/ StaysInProgram
        /\ Unwind(v, UnwindingCheckers) /\ cpp' = control
        /\ UNCHANGED <<expectedNativeTrapDisableCalls, error>>
    BY <1>1, ThrowFacts
  <2> QED BY <1>1, <2>1, ScriptThrowKeeps
<1>2. CASE ~IsThereAnyTrapBlock
  <2>1. InvalidateExecution(v, control) /\ ~leftProgram'
    BY <1>2, ThrowFacts
  <2>3. HandlersIn(callStack) = {}
    BY <1>2 DEF IsThereAnyTrapBlock, Handlers, HandlersIn
  <2>4. callStack # <<>> /\ Last(callStack).vm = v /\ ~IsLoop(Last(callStack))
    BY DEF ScriptOnTop, IsLoop, IsDeltaCodeContext
  <2> QED BY <2>1, <2>3, <2>4, InvalidateKeeps
<1> QED BY <1>1, <1>2

LEMMA ThrowOrFailKeeps ==
    ASSUME IInv, StillLeft, ~astray', NEW v \in VMs, ThrowOrFail(v)
    PROVE  IInv'
<1>1. InLoop(v, "exec") /\ pc[v] = "code" /\ Throw(v, Executed)
  BY DEF ThrowOrFail, At
<1>2. /\ InStep(callStack, Executed, callTraces, expectedNativeTrapDisableCalls, error)
      /\ Executed # <<>> /\ Last(Executed).what = "loop" /\ Last(Executed).vm = v
      /\ Last(Executed).phase = "check" /\ Last(Executed).valid /\ Executes(v)
  BY <1>1, AtInstruction
<1>3. ScriptOnTop(v) /\ isUnwinding = FALSE
  BY <1>1, <1>2, ThrowFacts DEF Executes
<1> QED BY <1>1, <1>2, <1>3, ScriptThrows

\* The error of the callee becomes one of the caller.
LEMMA CrossThrowKeeps ==
    ASSUME IInv, StillLeft, ~astray', Top("cross"),
           ~isUnwinding /\ error[Last(cpp).callee] /\ ~error[Last(cpp).vm], CrossReturn
    PROVE  IInv'
<1> DEFINE v == Last(cpp).vm
           f == Front(cpp)
<1>1. Throw(v, f)
  BY DEF CrossReturn
<1>2. /\ cpp # <<>> /\ Last(cpp).what = "cross" /\ cpp \in Seq(FrameSet) /\ FramesNest(cpp)
      /\ ~Top("loop") /\ ~LibGone /\ ~LibLeft
  BY DEF Top, IInv, TypeInv, LibGone, LibLeft
<1>3. v \in VMs /\ v # NoVM
  BY <1>2, OnTop, FrameFacts, NoVMAssumption
<1>4. Last(cpp).valid
  BY <1>2, <1>3, OnTop DEF IInv, ErrorInv
<1>5. ScriptOnTop(v) /\ isUnwinding = FALSE
  <2>1. isUnwinding \in BOOLEAN
    BY Apart DEF Others
  <2> QED BY <1>4, <2>1, CrossFacts
<1>6. InStep(callStack, cpp, callTraces, expectedNativeTrapDisableCalls, error)
  BY <1>2, Normal
<1>7. InStep(callStack, f, callTraces, expectedNativeTrapDisableCalls, error)
  BY <1>2, <1>6, InStepFramePopped
<1>8. f # <<>> /\ Last(f).what = "loop" /\ Last(f).vm = v /\ Last(f).phase = "check"
  BY <1>2, FramePopped
<1>9. Last(f).valid
  <2>1. f \in Seq(FrameSet) /\ FramesExpire(f, error)
    BY <1>7 DEF InStep, Stacks
  <2> HIDE DEF f, v
  <2>2. Len(f) \in 1..Len(f) /\ Last(f) = f[Len(f)] /\ Last(f) \in FrameSet
    BY <1>8, <2>1, OnTop
  <2>3. Last(f).valid <=> ~error[v]
    BY <1>3, <1>8, <2>1, <2>2 DEF FramesExpire
  <2> QED BY <2>3 DEF v
<1> HIDE DEF f, v
<1> QED BY <1>1, <1>3, <1>5, <1>7, <1>8, <1>9, ScriptThrows

\* A library function throws or fails.
LEMMA LibThrowOrFailKeeps ==
    ASSUME IInv, StillLeft, ~astray', LibThrow
    PROVE  IInv'
<1>1. Top("lib") /\ isUnwinding = FALSE /\ Last(cpp).valid /\ Throw(Last(cpp).vm, cpp)
  <2>1. isUnwinding \in BOOLEAN
    BY Apart DEF Others
  <2> QED BY <2>1 DEF LibThrow
<1>2. cpp # <<>> /\ Last(cpp).what = "lib" /\ ~LibGone /\ ~LibLeft /\ cpp \in Seq(FrameSet)
  BY <1>1 DEF Top, LibGone, LibLeft, IInv, TypeInv
<1>3. Last(cpp).vm \in VMs
  BY <1>2, OnTop, FrameFacts
<1>4. callStack # <<>> /\ Last(callStack).vm = Last(cpp).vm /\ IsLib(Last(callStack))
  BY <1>1, <1>2, NativeFacts
<1>5. InStep(callStack, cpp, callTraces, expectedNativeTrapDisableCalls, error)
  BY <1>2, Normal
<1>6. CASE IsThereAnyTrapBlock
  <2>1. /\ leftProgram' \/ StaysInProgram
        /\ Unwind(Last(cpp).vm, UnwindingCheckers) /\ cpp' = cpp
        /\ UNCHANGED <<expectedNativeTrapDisableCalls, error>>
    BY <1>1, <1>6, ThrowFacts
  <2>2. UnwindLibraryFunction(Last(cpp).vm, UnwindingCheckers)
    BY <1>4, <2>1 DEF Unwind, UnwindDeltaCode, IsLib, IsDeltaCodeContext
  <2>3. HandlersIn(callStack) # {}
    BY <1>6 DEF IsThereAnyTrapBlock, Handlers, HandlersIn
  <2> QED BY <1>1, <2>1, <2>2, <2>3, LibThrowKeeps
<1>7. CASE ~IsThereAnyTrapBlock
  <2>1. InvalidateExecution(Last(cpp).vm, cpp) /\ ~leftProgram'
    BY <1>1, <1>7, ThrowFacts
  <2>3. HandlersIn(callStack) = {}
    BY <1>7 DEF IsThereAnyTrapBlock, Handlers, HandlersIn
  <2>4. ~IsLoop(Last(callStack))
    BY <1>4 DEF IsLib, IsLoop
  <2> QED BY <1>1, <1>2, <1>3, <1>4, <1>5, <2>1, <2>3, <2>4, InvalidateKeeps
<1> QED BY <1>6, <1>7

LEMMA StutterKeeps ==
    ASSUME IInv, StillLeft, UNCHANGED vars
    PROVE  IInv'
<1>1. /\ UNCHANGED <<callStack, isUnwinding, shouldUnwind, expectedNativeTrapDisableCalls, callTraces>>
      /\ UNCHANGED <<pc, error, checker, cpp>>
  BY DEF vars, exceptionVars, vmVars
<1>2. Stacks(callStack', cpp', callTraces', expectedNativeTrapDisableCalls', error') /\ Others'
  BY <1>1, Apart DEF StacksNow, Others
<1>3. Matches(MatchedFrames', MatchedCalls', callStack', cpp')
  BY <1>1, Apart DEF MatchedFrames, MatchedCalls, LibGone, LibLeft, Top
<1>4. ControlInv'
  <2>1. leftProgram => leftProgram'
    BY DEF StillLeft
  <2>2. /\ LoopOnTop' = LoopOnTop /\ LoopInv' = LoopInv /\ AllChecked' = AllChecked
        /\ StaysInProgram' = StaysInProgram /\ Top("loop")' = Top("loop")
    BY <1>1 DEF LoopInv, LoopOnTop, Top, Executes, Checks, Unwound, Exits, ScriptOnTop,
          AllChecked, StaysInProgram, Handlers
  <2> QED BY <1>1, <2>1, <2>2, Apart DEF ControlInv
<1> QED BY <1>2, <1>3, <1>4, Together

\* What the history says is never forgotten.
HistoryTyped == leftProgram \in BOOLEAN /\ astray \in BOOLEAN
HistoryGrows == /\ leftProgram => leftProgram'
                /\ astray => astray'
                /\ HistoryTyped => HistoryTyped'

LEMMA HistoryStep ==
    ASSUME [Next]_vars
    PROVE  HistoryGrows
<1>1. CASE UNCHANGED vars
  BY <1>1 DEF vars, history, HistoryGrows, HistoryTyped
<1>2. UNCHANGED history => HistoryGrows
  BY DEF history, HistoryGrows, HistoryTyped
<1>a. ASSUME NEW p \in BOOLEAN, astray' = p, astray => p, UNCHANGED leftProgram PROVE HistoryGrows
  BY <1>a DEF HistoryGrows, HistoryTyped
<1>3. Diverts => HistoryGrows
  <2>1. (astray \/ isUnwinding) \in BOOLEAN
    OBVIOUS
  <2> QED BY <1>a, <2>1, Zenon DEF Diverts
<1>4. Thrown => HistoryGrows
  BY DEF Thrown, HistoryGrows, HistoryTyped
<1>5. ReturnDiverts \/ FailureDiverts \/ ResetDiverts => HistoryGrows
  <2>1. ReturnDiverts => HistoryGrows
    <3>1. (astray \/ (isUnwinding /\ (Last(callStack).traps > 0
                                    \/ Last(callStack).ret = "end"))) \in BOOLEAN
      OBVIOUS
    <3> QED BY <1>a, <3>1, Zenon DEF ReturnDiverts
  <2>2. FailureDiverts => HistoryGrows
    <3>1. (astray \/ isUnwinding \/ leftProgram) \in BOOLEAN
      OBVIOUS
    <3> QED BY <1>a, <3>1, Zenon DEF FailureDiverts
  <2>3. ResetDiverts => HistoryGrows
    <3>1. (astray \/ \E i \in 1..Len(cpp) : cpp[i].vm # NoVM /\ error[cpp[i].vm]) \in BOOLEAN
      OBVIOUS
    <3> QED BY <1>a, <3>1, Zenon DEF ResetDiverts
  <2> QED BY <2>1, <2>2, <2>3
<1>6. ASSUME NEW v, NEW control, Throw(v, control) PROVE HistoryGrows
  <2>1. Thrown \/ FailureDiverts
    BY <1>6 DEF Throw, InvalidateExecution
  <2> QED BY <1>4, <1>5, <2>1
<1>7. ASSUME NEW v, NEW control, CallInNewLoop(v, control) PROVE HistoryGrows
  BY <1>3, <1>7 DEF CallInNewLoop
<1>8. CASE CrossReturn
  <2>1. Throw(Last(cpp).vm, Front(cpp)) \/ UNCHANGED history
    BY <1>8 DEF CrossReturn
  <2> QED BY <1>2, <1>6, <2>1
<1>9. CASE NativeCode
  <2>1. ASSUME NEW v \in VMs, Run(v) \/ ExtCall(v) PROVE HistoryGrows
    BY <1>2, <1>7, <2>1 DEF Run, ExtCall
  <2>2. CASE NativeTry \/ NativeTrapDisable \/ NativeTrap \/ LibReturn
    BY <1>2, <2>2 DEF NativeTry, NativeTrapDisable, NativeTrap, LibReturn
  <2>3. CASE LibThrow \/ NativeThrow \/ ResetRunTimeErrors
    BY <1>4, <1>5, <1>6, <2>3 DEF LibThrow, NativeThrow, ResetRunTimeErrors
  <2> QED BY <1>9, <2>1, <2>2, <2>3 DEF NativeCode
<1>10. ASSUME NEW v \in VMs, Instruction(v) PROVE HistoryGrows
  <2>1. CASE CallFunction(v) \/ OtherInstruction(v) \/ Trap(v)
    BY <1>2, <2>1 DEF CallFunction, OtherInstruction, Trap
  <2>2. CASE CallLibrary(v) \/ ProgramEnd(v) \/ TrapEnable(v) \/ TrapDisable(v)
    BY <1>3, <2>2 DEF CallLibrary, ProgramEnd, TrapEnable, TrapDisable
  <2>3. CASE FuncReturn(v) \/ ThrowOrFail(v)
    BY <1>5, <1>6, <2>3 DEF FuncReturn, ThrowOrFail
  <2>4. ASSUME NEW w \in VMs, CallOther(v, w) PROVE HistoryGrows
    BY <1>7, <2>4 DEF CallOther
  <2> QED BY <1>10, <2>1, <2>2, <2>3, <2>4 DEF Instruction
<1>11. ASSUME NEW v \in VMs, ExecutionLoop(v) PROVE HistoryGrows
  <2>1. UNCHANGED history
    BY <1>11 DEF ExecutionLoop, LoopFailed, LoopGoesOn, LoopUnwinds, LoopUnwound, LoopExit
  <2> QED BY <1>2, <2>1
<1> QED BY <1>1, <1>8, <1>9, <1>10, <1>11 DEF Next

LEMMA NextKeeps ==
    ASSUME IInv, ~astray', [Next]_vars
    PROVE  IInv'
<1>0. StillLeft
  BY HistoryStep DEF StillLeft, HistoryGrows
<1>1. CASE UNCHANGED vars
  BY <1>0, <1>1, StutterKeeps
<1>2. CASE CrossReturn
  <2>1. Top("cross")
    BY <1>2 DEF CrossReturn
  <2>2. CASE ~isUnwinding /\ error[Last(cpp).callee] /\ ~error[Last(cpp).vm]
    BY <1>0, <1>2, <2>1, <2>2, CrossThrowKeeps
  <2>3. CASE ~(~isUnwinding /\ error[Last(cpp).callee] /\ ~error[Last(cpp).vm])
    BY <1>0, <1>2, <2>1, <2>3, CrossReturnKeeps
  <2> QED BY <2>2, <2>3
<1>3. CASE NativeCode
  <2>1. ASSUME NEW v \in VMs, Run(v) \/ ExtCall(v) PROVE IInv'
    BY <1>0, <2>1, RunKeeps, ExtCallKeeps
  <2>2. CASE NativeTry \/ NativeTrapDisable \/ NativeTrap
    BY <1>0, <2>2, NativeTryKeeps, NativeTrapDisableKeeps, NativeTrapKeeps
  <2>3. CASE LibThrow \/ NativeThrow \/ LibReturn
    BY <1>0, <2>3, LibThrowOrFailKeeps, NativeThrowKeeps, LibReturnKeeps
  <2>4. CASE ResetRunTimeErrors
    BY <1>0, <2>4, ResetRunTimeErrorsKeeps
  <2> QED BY <1>3, <2>1, <2>2, <2>3, <2>4 DEF NativeCode
<1>4. ASSUME NEW v \in VMs, Instruction(v) PROVE IInv'
  <2>1. CASE CallFunction(v) \/ OtherInstruction(v)
    BY <1>0, <2>1, CallFunctionKeeps, OtherInstructionKeeps
  <2>2. ASSUME NEW w \in VMs, CallOther(v, w) PROVE IInv'
    <3>1. isUnwinding = FALSE
      BY <2>2, NotDiverted DEF CallOther, CallInNewLoop
    <3> QED BY <1>0, <2>2, <3>1, CallOtherKeeps
  <2>3. CASE FuncReturn(v)
    BY <1>0, <2>3, FuncReturnKeeps
  <2>4. CASE TrapEnable(v) \/ TrapDisable(v) \/ Trap(v)
    BY <1>0, <2>4, TrapActionsKeep
  <2>5. CASE ThrowOrFail(v)
    BY <1>0, <2>5, ThrowOrFailKeeps
  <2>6. CASE CallLibrary(v) \/ ProgramEnd(v)
    <3>1. isUnwinding = FALSE
      BY <2>6, NotDiverted DEF CallLibrary, ProgramEnd
    <3> QED BY <1>0, <2>6, <3>1, CallLibraryKeeps, ProgramEndKeeps
  <2> QED BY <1>4, <2>1, <2>2, <2>3, <2>4, <2>5, <2>6 DEF Instruction
<1>5. ASSUME NEW v \in VMs, ExecutionLoop(v) PROVE IInv'
  <2>1. CASE LoopFailed(v) \/ LoopGoesOn(v) \/ LoopUnwinds(v)
    BY <1>0, <2>1, LoopFailedKeeps, LoopGoesOnKeeps, LoopUnwindsKeeps
  <2>2. CASE LoopUnwound(v) \/ LoopExit(v)
    BY <1>0, <2>2, LoopUnwoundKeeps, LoopExitKeeps
  <2> QED BY <1>5, <2>1, <2>2 DEF ExecutionLoop
<1> QED BY <1>1, <1>2, <1>3, <1>4, <1>5 DEF Next

LEMMA InitEstablishes ==
    ASSUME Init
    PROVE  IInv
<1>1. /\ callStack = <<>> /\ callTraces = <<>> /\ cpp = <<>> /\ isUnwinding = FALSE
      /\ shouldUnwind = FALSE /\ expectedNativeTrapDisableCalls = 0
      /\ pc = [v \in VMs |-> "idle"] /\ error = [v \in VMs |-> FALSE]
      /\ checker = [v \in VMs |-> FALSE]
  BY DEF Init
<1>2. Len(callStack) = 0 /\ Len(cpp) = 0 /\ Len(callTraces) = 0 /\ 1..0 = {}
  BY <1>1
<1>3. TypeInv
  <2>1. \A S : <<>> \in Seq(S)
    OBVIOUS
  <2>2. pc \in [VMs -> Counters] /\ error \in [VMs -> BOOLEAN] /\ checker \in [VMs -> BOOLEAN]
    BY <1>1 DEF Counters
  <2> QED BY <1>1, <2>1, <2>2 DEF TypeInv
<1>4. CallsNest(callStack) /\ FramesNest(cpp)
  BY <1>2 DEF CallsNest, FramesNest
<1>5. ErrorInv
  BY <1>1, <1>2 DEF ErrorInv
<1>6. /\ CallsIn(callStack) = {} /\ TracedIn(callStack) = {} /\ NativesIn(callStack) = {}
      /\ HandlersIn(callStack) = {} /\ LiveIn(cpp) = {}
  BY <1>2 DEF CallsIn, TracedIn, NativesIn, HandlersIn, LiveIn
<1>7. NativeInv
  BY <1>1, <1>6, FS_EmptySet DEF NativeInv
<1>8. \A m \in [{} -> {}] : Increasing(m, {}, {})
  BY DEF Increasing
<1>9. [x \in {} |-> x] \in [{} -> {}]
  OBVIOUS
<1>10. MatchInv
  <2>1. ~LibGone /\ ~LibLeft
    BY <1>1 DEF LibGone, LibLeft
  <2>2. Agrees([x \in {} |-> x], {}, {}, callStack, cpp)
    BY <1>2, <1>8, <1>9 DEF Agrees
  <2> QED BY <1>6, <2>1, <2>2 DEF MatchInv, Matches
<1>11. TraceInv
  BY <1>2, <1>6, <1>8, <1>9 DEF TraceInv, Traces
<1>12. ControlInv
  BY <1>1 DEF ControlInv, LoopOnTop, LoopInv, Top
<1> QED BY <1>3, <1>4, <1>5, <1>7, <1>10, <1>11, <1>12 DEF IInv

\* The stacks stay in step in every execution until the code goes astray.
THEOREM StacksStayInStep == Spec => [](OnCourse => IInv)
<1>1. Init => (OnCourse => IInv)
  BY InitEstablishes
<1>2. (OnCourse => IInv) /\ [Next]_vars => (OnCourse => IInv)'
  BY HistoryStep, NextKeeps DEF OnCourse, HistoryGrows
<1> QED BY <1>1, <1>2, PTL DEF Spec

LEMMA HistoryIsTyped == Spec => []HistoryTyped
<1>1. Init => HistoryTyped
  BY DEF Init, HistoryTyped
<1>2. HistoryTyped /\ [Next]_vars => HistoryTyped'
  BY HistoryStep DEF HistoryGrows
<1> QED BY <1>1, <1>2, PTL DEF Spec

-----------------------------------------------------------------------------
(* What the runs check.                                                    *)

LEMMA ImpliesTypeOK ==
    ASSUME IInv, HistoryTyped
    PROVE  TypeOK
<1>1. TypeInv /\ NativeInv
  BY DEF IInv
<1>2. CallSet \subseteq [context : Contexts, vm : VMs \cup {NoVM}, traps : 0..MaxTraps, ret : Counters]
  BY DEF CallSet
<1>3. FrameSet \subseteq Frames
  BY DEF FrameSet, Frames, LoopFrames, LibFrames, CrossFrames, TryFrames, Phases
<1>4. callStack \in Seq([context : Contexts, vm : VMs \cup {NoVM}, traps : 0..MaxTraps, ret : Counters])
  <2> DEFINE T == [context : Contexts, vm : VMs \cup {NoVM}, traps : 0..MaxTraps, ret : Counters]
  <2>1. callStack \in Seq(CallSet) /\ CallSet \subseteq T
    BY <1>1, <1>2 DEF TypeInv
  <2> HIDE DEF T
  <2>2. callStack \in Seq(T)
    BY <2>1
  <2> QED BY <2>2 DEF T
<1>5. cpp \in Seq(Frames)
  BY <1>1, <1>3 DEF TypeInv
<1>6. expectedNativeTrapDisableCalls \in Nat
  BY <1>1, OnTop, PositionTypes, FS_CardinalityType DEF TypeInv, NativeInv
<1> QED BY <1>1, <1>4, <1>5, <1>6 DEF TypeOK, TypeInv, HistoryTyped

LEMMA ImpliesControlAgrees ==
    ASSUME IInv
    PROVE  ControlAgrees
<1> SUFFICES ASSUME ~isUnwinding PROVE Cardinality(CppCalls) = Cardinality(Live) /\ SameCalls
  BY DEF ControlAgrees
<1> DEFINE A == LiveIn(cpp)
           B == CallsIn(callStack)
<1>1. Live = A /\ CppCalls = B
  BY DEF Live, LiveIn, CppCalls, CallsIn
<1>2. MatchInv /\ ~LibGone /\ ~LibLeft
  BY DEF LibGone, LibLeft, IInv
<1>3. PICK m : Agrees(m, A, B, callStack, cpp)
  BY <1>2 DEF MatchInv, Matches
<1>4. A \in SUBSET Int /\ B \in SUBSET Int /\ IsFiniteSet(A)
  <2>1. Len(cpp) \in Nat /\ TypeInv
    BY OnTop DEF IInv, TypeInv
  <2> QED BY <2>1, MatchedTypes, LivePositions
<1>5. /\ Increasing(m, A, B)
      /\ \A j \in A : callStack[m[j]].vm = cpp[j].vm /\ callStack[m[j]].context = ContextOf(cpp[j].what)
  BY <1>3 DEF Agrees
<1>6. \A j \in A : m[j] \in B
  BY <1>5 DEF Increasing
<1> HIDE DEF A, B
<1>7. /\ IsFiniteSet(B) /\ Cardinality(B) = Cardinality(A)
      /\ \A j \in A : Cardinality(UpTo(B, m[j])) = Cardinality(UpTo(A, j))
  BY <1>4, <1>5, IncreasingRank
<1>8. \A I, i : Rank(I, i) = Cardinality(UpTo(I, i))
  BY DEF Rank, UpTo
<1>9. ASSUME NEW i \in B, NEW j \in A, Rank(B, i) = Rank(A, j)
      PROVE  callStack[i].vm = cpp[j].vm /\ callStack[i].context = ContextOf(cpp[j].what)
  <2>1. Cardinality(UpTo(B, i)) = Cardinality(UpTo(B, m[j])) /\ m[j] \in B
    BY <1>6, <1>7, <1>8, <1>9
  <2>2. \A b1, b2 \in B : Cardinality(UpTo(B, b1)) = Cardinality(UpTo(B, b2)) => b1 = b2
    BY <1>4, <1>7, RankMirrors
  <2>3. i = m[j]
    BY <2>1, <2>2
  <2> QED BY <1>5, <2>3
<1> QED BY <1>1, <1>7, <1>9 DEF SameCalls

LEMMA ImpliesStacksAgree ==
    ASSUME IInv, ~leftProgram
    PROVE  StacksAgree
<1> DEFINE B == TracedIn(callStack)
           n == Len(callTraces)
<1>1. Traced = B
  BY DEF Traced, TracedIn, IsLoop, IsNative
<1>2. n \in Nat /\ Len(callStack) \in Nat
  BY OnTop DEF IInv, TypeInv
<1>3. PICK t : /\ Increasing(t, 1..n, B)
               /\ \A k \in 1..n : callTraces[k] = Trace(callStack[t[k]].context, callStack[t[k]].vm)
  BY DEF IInv, TraceInv, Traces
<1>4. B \in SUBSET Int
  BY <1>2, PositionTypes
<1>5. \A i \in B : \E k \in 1..n : t[k] = i
  BY <1>3 DEF Increasing
<1> HIDE DEF B, n
<1>6. \A k \in 0..n : IsFiniteSet(1..k) /\ Cardinality(1..k) = k
  <2>1. ASSUME NEW k \in 0..n PROVE IsFiniteSet(1..k) /\ Cardinality(1..k) = k
    <3>1. 1 \in Int /\ k \in Int /\ k \in Nat
      BY <1>2
    <3>2. IsFiniteSet(1..k) /\ Cardinality(1..k) = IF 1 > k THEN 0 ELSE k - 1 + 1
      BY <3>1, FS_Interval
    <3> QED BY <3>1, <3>2
  <2> QED BY <2>1
<1>7. IsFiniteSet(1..n) /\ Cardinality(1..n) = n /\ 1..n \in SUBSET Int
  <2>1. n \in 0..n
    BY <1>2
  <2> QED BY <1>6, <2>1
<1>8. /\ Cardinality(B) = n
      /\ \A k \in 1..n : Cardinality(UpTo(B, t[k])) = Cardinality(UpTo(1..n, k))
  <2> DEFINE A == 1..n
  <2>1. Increasing(t, A, B) /\ IsFiniteSet(A) /\ Cardinality(A) = n /\ A \in SUBSET Int
    BY <1>3, <1>7
  <2> HIDE DEF A
  <2>2. Cardinality(B) = n /\ \A k \in A : Cardinality(UpTo(B, t[k])) = Cardinality(UpTo(A, k))
    BY <1>4, <2>1, IncreasingRank
  <2> QED BY <2>2 DEF A
<1>9. ASSUME NEW i \in B PROVE callTraces[Rank(B, i)] = Trace(callStack[i].context, callStack[i].vm)
  <2>1. PICK k \in 1..n : t[k] = i
    BY <1>5
  <2>2. UpTo(1..n, k) = 1..k /\ k \in 0..n
    BY <1>2 DEF UpTo
  <2>3. Rank(B, i) = Cardinality(UpTo(B, i))
    BY DEF Rank, UpTo
  <2>4. Rank(B, i) = k
    BY <1>6, <1>8, <2>1, <2>2, <2>3
  <2> QED BY <1>3, <2>1, <2>4
<1> QED BY <1>1, <1>8, <1>9 DEF StacksAgree, n

LEMMA ImpliesHostFindsNothingLeft ==
    ASSUME IInv
    PROVE  HostFindsNothingLeft
<1> SUFFICES ASSUME cpp = <<>>
             PROVE  callStack = <<>> /\ ~isUnwinding /\ expectedNativeTrapDisableCalls = 0
  BY DEF HostFindsNothingLeft
<1>1. callStack = <<>> /\ ~isUnwinding
  BY HostFacts
<1>2. NativesIn(callStack) = {}
  <2>1. Len(callStack) = 0 /\ 1..0 = {}
    BY <1>1
  <2> QED BY <2>1 DEF NativesIn
<1>3. expectedNativeTrapDisableCalls = 0
  BY <1>2, FS_EmptySet DEF IInv, NativeInv
<1> QED BY <1>1, <1>3

LEMMA ImpliesCodeRunsInItsCall ==
    ASSUME IInv
    PROVE  CodeRunsInItsCall
<1> SUFFICES ASSUME NEW v \in VMs, InLoop(v, "exec"), pc[v] \in {"code", "trap"}
             PROVE  /\ callStack # <<>> /\ Last(callStack).vm = v /\ IsDeltaCodeContext(Last(callStack))
                    /\ pc[v] = "trap" => ~isUnwinding /\ Last(callStack).traps > 0
                    /\ isUnwinding => shouldUnwind /\ checker[v] /\ IsThereAnyTrapBlock
  BY DEF CodeRunsInItsCall, At
<1>1. /\ Executes(v) /\ Len(cpp) \in 1..Len(cpp) /\ Last(cpp) = cpp[Len(cpp)]
      /\ Last(cpp).what = "loop" /\ Last(cpp).vm = v /\ Last(cpp).valid
  BY AtExec
<1>2. ASSUME isUnwinding PROVE checker[v] /\ IsThereAnyTrapBlock
  <2>1. AllChecked /\ HandlersIn(callStack) # {}
    BY <1>2 DEF IInv, ControlInv
  <2> QED BY <1>1, <1>2, <2>1 DEF AllChecked, IsThereAnyTrapBlock, Handlers, HandlersIn
<1> QED BY <1>1, <1>2 DEF Executes, ScriptOnTop

\* The variables have their types.
THEOREM TypesAreKept == Spec => [](OnCourse => TypeOK)
<1>1. IInv /\ HistoryTyped => TypeOK
  BY ImpliesTypeOK
<1> QED BY <1>1, StacksStayInStep, HistoryIsTyped, PTL

\* The call traces are the calls of script and library functions, through every
\* throw, unwinding and error, until an exception leaves a program.
THEOREM StacksAlwaysAgree == Spec => []StacksAgree
<1>1. (OnCourse => IInv) => StacksAgree
  BY ImpliesStacksAgree DEF StacksAgree
<1> QED BY <1>1, StacksStayInStep, PTL

\* The C++ calls that return are the ones the exception handler has contexts for.
THEOREM ControlAlwaysAgrees == Spec => []ControlAgrees
<1>1. (OnCourse => IInv) => ControlAgrees
  BY ImpliesControlAgrees DEF ControlAgrees
<1> QED BY <1>1, StacksStayInStep, PTL

\* No call of a virtual machine is left after its error.
THEOREM FailedMachinesLeaveTheStack == Spec => []FailedMachinesHaveNoCalls
<1>1. (OnCourse => IInv) => FailedMachinesHaveNoCalls
  BY DEF IInv, ErrorInv, FailedMachinesHaveNoCalls
<1> QED BY <1>1, StacksStayInStep, PTL

\* Every exception and error is over when the host's call returns.
THEOREM HostFindsNothing == Spec => []HostFindsNothingLeft
<1>1. (OnCourse => IInv) => HostFindsNothingLeft
  BY ImpliesHostFindsNothingLeft DEF HostFindsNothingLeft
<1> QED BY <1>1, StacksStayInStep, PTL

\* Script code runs where its own call is on top, and while an exception is
\* unwound only where the unwinding goes on afterwards.
THEOREM CodeStaysInItsCall == Spec => []CodeRunsInItsCall
<1>1. (OnCourse => IInv) => CodeRunsInItsCall
  BY ImpliesCodeRunsInItsCall DEF CodeRunsInItsCall
<1> QED BY <1>1, StacksStayInStep, PTL

\* No loop misses an exception.
THEOREM UnwindingIsAlwaysChecked == Spec => []UnwindingIsChecked
<1>1. (OnCourse => IInv) => UnwindingIsChecked
  BY DEF IInv, ControlInv, AllChecked, UnwindingIsChecked
<1> QED BY <1>1, StacksStayInStep, PTL
-----------------------------------------------------------------------------
(* The frames of the abstract specification.                               *)

\* Every set of positions can be listed in increasing order.
LEMMA EnumerationExists ==
    ASSUME NEW n \in Nat, NEW P \in SUBSET (1..n)
    PROVE  \E m, c : c \in Nat /\ Increasing(m, 1..c, P)
<1> DEFINE Listed(x) == \E m, c : c \in Nat /\ Increasing(m, 1..c, P \cap 1..x)
           T == {x \in 0..n : ~Listed(x)}
<1>1. SUFFICES T = {}
  <2>0. n \in 0..n
    OBVIOUS
  <2>1. Listed(n)
    <3> HIDE DEF Listed
    <3> QED BY <1>1, <2>0
  <2>2. P \cap 1..n = P
    OBVIOUS
  <2> QED BY <2>1, <2>2
<1>2. SUFFICES ASSUME T # {} PROVE FALSE
  OBVIOUS
<1>3. T \in SUBSET Nat
  OBVIOUS
<1>4. PICK x \in T : \A y \in T : x <= y
  <2> HIDE DEF T
  <2> QED BY <1>2, <1>3, LeastNumber
<1>5. x \in Nat /\ x \in 0..n /\ ~Listed(x)
  BY <1>4
<1>6. x # 0
  <2> SUFFICES ASSUME x = 0 PROVE FALSE
    OBVIOUS
  <2>1. 1..0 = {} /\ P \cap 1..x = {}
    OBVIOUS
  <2>2. [y \in {} |-> y] \in [{} -> {}]
    OBVIOUS
  <2>3. Increasing([y \in {} |-> y], 1..0, P \cap 1..x)
    BY <2>1, <2>2 DEF Increasing
  <2> QED BY <1>5, <2>3
<1>7. Listed(x - 1)
  <2>1. x - 1 \in 0..n /\ ~(x <= x - 1)
    BY <1>5, <1>6
  <2> QED BY <1>4, <2>1
<1>8. PICK m, c : c \in Nat /\ Increasing(m, 1..c, P \cap 1..x - 1)
  BY <1>7
<1>9. CASE x \notin P
  <2>1. P \cap 1..x = P \cap 1..x - 1
    BY <1>5, <1>9
  <2> QED BY <1>5, <1>8, <2>1
<1>10. CASE x \in P
  <2>1. P \cap 1..x = (P \cap 1..x - 1) \cup {x}
    BY <1>5, <1>6, <1>10
  <2>2. 1..c + 1 = 1..c \cup {c + 1}
    BY <1>8
  <2>3. Tops(x, P \cap 1..x - 1) /\ Tops(c + 1, 1..c)
    BY <1>5, <1>8 DEF Tops
  <2>4. 1..c \in SUBSET Int /\ P \cap 1..x - 1 \in SUBSET Int
    OBVIOUS
  <2> DEFINE A == 1..c
             B == P \cap 1..x - 1
  <2>5. Increasing(m, A, B) /\ Tops(x, B) /\ Tops(c + 1, A) /\ A \in SUBSET Int /\ B \in SUBSET Int
    BY <1>8, <2>3, <2>4
  <2> HIDE DEF A, B
  <2>6. \E e : Increasing(e, A \cup {c + 1}, B \cup {x})
    BY <2>5, IncreasingPush
  <2>7. \E e : Increasing(e, 1..c + 1, P \cap 1..x)
    BY <2>1, <2>2, <2>6 DEF A, B
  <2>8. c + 1 \in Nat
    BY <1>8
  <2> QED BY <1>5, <2>7, <2>8
<1> QED BY <1>9, <1>10

LEMMA CountTo ==
    ASSUME NEW c \in Nat
    PROVE  /\ IsFiniteSet(1..c) /\ Cardinality(1..c) = c /\ 1..c \in SUBSET Int
           /\ \A k \in 1..c : Cardinality(UpTo(1..c, k)) = k
<1>1. \A k \in 0..c : IsFiniteSet(1..k) /\ Cardinality(1..k) = k
  <2>1. ASSUME NEW k \in 0..c PROVE IsFiniteSet(1..k) /\ Cardinality(1..k) = k
    <3>1. 1 \in Int /\ k \in Int /\ k \in Nat
      OBVIOUS
    <3>2. IsFiniteSet(1..k) /\ Cardinality(1..k) = IF 1 > k THEN 0 ELSE k - 1 + 1
      BY <3>1, FS_Interval
    <3> QED BY <3>1, <3>2
  <2> QED BY <2>1
<1>2. c \in 0..c /\ 1..c \in SUBSET Int
  OBVIOUS
<1>3. ASSUME NEW k \in 1..c PROVE UpTo(1..c, k) = 1..k /\ k \in 0..c
  BY DEF UpTo
<1> QED BY <1>1, <1>2, <1>3

FrameTypes == [context : Contexts, vm : VMs \cup {NoVM}, traps : 0..MaxTraps]

\* F lists what the calls of s at the positions P are.
Lists(m, F, P, s) ==
    /\ F \in Seq(FrameTypes) /\ Increasing(m, 1..Len(F), P)
    /\ \A k \in 1..Len(F) : F[k] = FrameOf(s[m[k]])

LEMMA StayTypes ==
    ASSUME NEW s \in Seq(CallSet), NEW u
    PROVE  /\ StayIn(s, u) \in SUBSET (1..Len(s)) /\ StayIn(s, u) \in SUBSET Int /\ Len(s) \in Nat
           /\ \A i \in StayIn(s, u) : i \in 1..Len(s) /\ i \in Nat /\ i <= Len(s)
           /\ \A i \in 1..Len(s) : s[i] \in CallSet /\ FrameOf(s[i]) \in FrameTypes
<1>1. StayIn(s, u) \in SUBSET (1..Len(s)) /\ Len(s) \in Nat
  BY OnTop DEF StayIn
<1>2. \A c \in CallSet : FrameOf(c) \in FrameTypes
  BY DEF CallSet, FrameOf, FrameTypes
<1>3. \A i \in 1..Len(s) : s[i] \in CallSet
  BY OnTop
<1>4. \A i \in 1..Len(s) : i \in Nat /\ i \in Int /\ i <= Len(s)
  OBVIOUS
<1> QED BY <1>1, <1>2, <1>3, <1>4

LEMMA FramesAreListed ==
    ASSUME NEW s \in Seq(CallSet), NEW u
    PROVE  \E m : Lists(m, FramesThatStay(s, u), StayIn(s, u), s)
<1> DEFINE P == StayIn(s, u)
           F == FramesThatStay(s, u)
           frame == [i \in 1..Len(s) |-> FrameOf(s[i])]
<1>1. /\ P \in SUBSET (1..Len(s)) /\ P \in SUBSET Int /\ Len(s) \in Nat
      /\ \A i \in 1..Len(s) : FrameOf(s[i]) \in FrameTypes
  BY StayTypes
<1>2. /\ F = [n \in 1..Cardinality(P) |-> frame[CHOOSE i \in P : Rank(P, i) = n]]
      /\ \A i \in 1..Len(s) : frame[i] = FrameOf(s[i])
  BY DEF FramesThatStay
<1> HIDE DEF P, F, frame
<1>3. PICK m, c : c \in Nat /\ Increasing(m, 1..c, P)
  BY <1>1, EnumerationExists
<1>4. /\ IsFiniteSet(1..c) /\ Cardinality(1..c) = c /\ 1..c \in SUBSET Int
      /\ \A k \in 1..c : Cardinality(UpTo(1..c, k)) = k
  BY <1>3, CountTo
<1>5. /\ IsFiniteSet(P) /\ Cardinality(P) = c
      /\ \A k \in 1..c : Cardinality(UpTo(P, m[k])) = k
  <2> DEFINE A == 1..c
  <2>1. /\ Increasing(m, A, P) /\ IsFiniteSet(A) /\ Cardinality(A) = c /\ A \in SUBSET Int
        /\ \A k \in A : Cardinality(UpTo(A, k)) = k
    BY <1>3, <1>4
  <2> HIDE DEF A
  <2>2. /\ IsFiniteSet(P) /\ Cardinality(P) = c
        /\ \A k \in A : Cardinality(UpTo(P, m[k])) = Cardinality(UpTo(A, k))
    BY <1>1, <2>1, IncreasingRank
  <2> QED BY <2>1, <2>2 DEF A
<1>6. \A i : Rank(P, i) = Cardinality(UpTo(P, i))
  BY DEF Rank, UpTo
<1>7. \A k \in 1..c : m[k] \in P /\ m[k] \in 1..Len(s)
  <2>1. \A k \in 1..c : m[k] \in P
    BY <1>3 DEF Increasing
  <2> QED BY <1>1, <2>1
<1>8. \A b1, b2 \in P : Cardinality(UpTo(P, b1)) = Cardinality(UpTo(P, b2)) => b1 = b2
  BY <1>1, <1>5, RankMirrors
<1>9. ASSUME NEW k \in 1..c PROVE F[k] = FrameOf(s[m[k]])
  <2>1. Rank(P, m[k]) = k /\ m[k] \in P
    BY <1>5, <1>6, <1>7
  <2>2. \A i \in P : Rank(P, i) = k => i = m[k]
    BY <1>6, <1>8, <2>1
  <2>3. (CHOOSE i \in P : Rank(P, i) = k) = m[k]
    BY <2>1, <2>2
  <2>4. k \in 1..Cardinality(P)
    BY <1>5
  <2>5. F[k] = frame[m[k]]
    BY <1>2, <2>3, <2>4
  <2> QED BY <1>2, <1>7, <2>5
<1>10. F \in Seq(FrameTypes) /\ Len(F) = c
  <2>1. F \in [1..c -> FrameTypes]
    <3>1. \A k \in 1..c : F[k] \in FrameTypes
      BY <1>1, <1>7, <1>9
    <3>2. DOMAIN F = 1..c /\ F = [k \in 1..c |-> F[k]]
      BY <1>2, <1>5
    <3> QED BY <3>1, <3>2
  <2> QED BY <1>3, <2>1, Tabulating
<1>11. Lists(m, F, P, s)
  BY <1>3, <1>9, <1>10 DEF Lists
<1> QED BY <1>11 DEF F, P

\* There is only one list.
LEMMA ListIsUnique ==
    ASSUME NEW m, NEW F, NEW m2, NEW F2, NEW P \in SUBSET Int, NEW s, NEW s2,
           Lists(m, F, P, s), Lists(m2, F2, P, s2), \A i \in P : FrameOf(s2[i]) = FrameOf(s[i])
    PROVE  F2 = F
<1>1. /\ Increasing(m, 1..Len(F), P) /\ Increasing(m2, 1..Len(F2), P)
      /\ F \in Seq(FrameTypes) /\ F2 \in Seq(FrameTypes) /\ Len(F) \in Nat /\ Len(F2) \in Nat
      /\ \A k \in 1..Len(F) : F[k] = FrameOf(s[m[k]])
      /\ \A k \in 1..Len(F2) : F2[k] = FrameOf(s2[m2[k]])
  BY OnTop DEF Lists
<1>2. Len(F2) = Len(F)
  <2> DEFINE A == 1..Len(F)
             A2 == 1..Len(F2)
  <2>1. /\ IsFiniteSet(A) /\ Cardinality(A) = Len(F) /\ A \in SUBSET Int
        /\ IsFiniteSet(A2) /\ Cardinality(A2) = Len(F2) /\ A2 \in SUBSET Int
        /\ Increasing(m, A, P) /\ Increasing(m2, A2, P)
    BY <1>1, CountTo
  <2> HIDE DEF A, A2
  <2>2. Cardinality(P) = Cardinality(A) /\ Cardinality(P) = Cardinality(A2)
    BY <2>1, IncreasingRank
  <2> QED BY <2>1, <2>2
<1>3. \A k \in 1..Len(F) : m2[k] = m[k]
  <2> DEFINE A == 1..Len(F)
  <2>1. IsFiniteSet(A) /\ A \in SUBSET Int /\ Increasing(m, A, P) /\ Increasing(m2, A, P)
    BY <1>1, <1>2, CountTo
  <2> HIDE DEF A
  <2>2. \A k \in A : m2[k] = m[k]
    BY <2>1, IncreasingUnique
  <2> QED BY <2>2 DEF A
<1>4. ASSUME NEW k \in 1..Len(F) PROVE F2[k] = F[k]
  <2>1. m[k] \in P
    BY <1>1 DEF Increasing
  <2> QED BY <1>1, <1>2, <1>3, <2>1
<1> QED BY <1>1, <1>2, <1>4, SeqEqual

-----------------------------------------------------------------------------
(* Lists of calls that grow and shrink.                                    *)

Listing(F, P, s) == \E m : Lists(m, F, P, s)
SameAt(s2, s, P) == \A i \in P : FrameOf(s2[i]) = FrameOf(s[i])

LEMMA ListFacts ==
    ASSUME NEW m, NEW F, NEW P, NEW s, Lists(m, F, P, s)
    PROVE  /\ Increasing(m, 1..Len(F), P) /\ F \in Seq(FrameTypes) /\ Len(F) \in Nat
           /\ 1..Len(F) \in SUBSET Int
           /\ \A k \in 1..Len(F) : m[k] \in P /\ F[k] = FrameOf(s[m[k]]) /\ F[k] \in FrameTypes
           /\ \A i \in P : \E k \in 1..Len(F) : m[k] = i
<1>1. /\ Increasing(m, 1..Len(F), P) /\ F \in Seq(FrameTypes) /\ Len(F) \in Nat
      /\ \A k \in 1..Len(F) : F[k] = FrameOf(s[m[k]])
      /\ \A k \in 1..Len(F) : F[k] \in FrameTypes
  BY OnTop DEF Lists
<1>2. /\ \A k \in 1..Len(F) : m[k] \in P
      /\ \A i \in P : \E k \in 1..Len(F) : m[k] = i
  BY <1>1 DEF Increasing
<1>3. 1..Len(F) \in SUBSET Int
  OBVIOUS
<1> QED BY <1>1, <1>2, <1>3

\* One call more.
LEMMA ListPushed ==
    ASSUME NEW F, NEW P \in SUBSET Int, NEW s, Listing(F, P, s), NEW b, Tops(b, P),
           NEW s2, SameAt(s2, s, P), FrameOf(s2[b]) \in FrameTypes
    PROVE  Listing(Append(F, FrameOf(s2[b])), P \cup {b}, s2)
<1> DEFINE G == Append(F, FrameOf(s2[b]))
<1>1. PICK m : Lists(m, F, P, s)
  BY DEF Listing
<1>2. /\ Increasing(m, 1..Len(F), P) /\ F \in Seq(FrameTypes) /\ Len(F) \in Nat
      /\ 1..Len(F) \in SUBSET Int
      /\ \A k \in 1..Len(F) : m[k] \in P /\ F[k] = FrameOf(s[m[k]])
  BY <1>1, ListFacts
<1>3. /\ G \in Seq(FrameTypes) /\ Len(G) = Len(F) + 1
      /\ \A k \in 1..Len(F) : G[k] = F[k]
      /\ G[Len(F) + 1] = FrameOf(s2[b])
  BY <1>2, Pushing
<1> HIDE DEF G
<1>4. Tops(Len(F) + 1, 1..Len(F)) /\ 1..Len(F) + 1 = 1..Len(F) \cup {Len(F) + 1}
  BY <1>2 DEF Tops
<1>5. PICK e : /\ Increasing(e, 1..Len(F) \cup {Len(F) + 1}, P \cup {b})
               /\ Extends(e, m, 1..Len(F), Len(F) + 1, b)
  <2> DEFINE A == 1..Len(F)
  <2>1. A \in SUBSET Int /\ Increasing(m, A, P) /\ Tops(Len(F) + 1, A)
    BY <1>2, <1>4
  <2> HIDE DEF A
  <2>2. \E e : Increasing(e, A \cup {Len(F) + 1}, P \cup {b}) /\ Extends(e, m, A, Len(F) + 1, b)
    BY <2>1, IncreasingPush
  <2> QED BY <2>2 DEF A
<1>6. e[Len(F) + 1] = b /\ \A k \in 1..Len(F) : e[k] = m[k]
  BY <1>5 DEF Extends
<1>7. ASSUME NEW k \in 1..Len(F) + 1 PROVE G[k] = FrameOf(s2[e[k]])
  <2>1. CASE k \in 1..Len(F)
    BY <1>2, <1>3, <1>6, <2>1 DEF SameAt
  <2>2. CASE k = Len(F) + 1
    BY <1>3, <1>6, <2>2
  <2> QED BY <1>2, <2>1, <2>2
<1>8. Lists(e, G, P \cup {b}, s2)
  BY <1>3, <1>4, <1>5, <1>7 DEF Lists
<1> QED BY <1>8 DEF Listing, G

\* The calls up to a position.
LEMMA ListCut ==
    ASSUME NEW m, NEW F, NEW P \in SUBSET Int, NEW s, Lists(m, F, P, s), NEW n \in Int,
           NEW c \in 0..Len(F), \A k \in 1..Len(F) : k <= c <=> m[k] <= n,
           NEW s2, SameAt(s2, s, UpTo(P, n))
    PROVE  Listing(SubSeq(F, 1, c), UpTo(P, n), s2)
<1> DEFINE G == SubSeq(F, 1, c)
<1>1. /\ Increasing(m, 1..Len(F), P) /\ F \in Seq(FrameTypes) /\ Len(F) \in Nat
      /\ 1..Len(F) \in SUBSET Int
      /\ \A k \in 1..Len(F) : m[k] \in P /\ F[k] = FrameOf(s[m[k]])
  BY ListFacts
<1>2. /\ G \in Seq(FrameTypes) /\ Len(G) = c /\ c \in Nat
      /\ \A k \in 1..c : G[k] = F[k]
  BY <1>1, Keeping
<1> HIDE DEF G
<1>3. 1..c \in SUBSET (1..Len(F)) /\ UpTo(P, n) \in SUBSET P
  BY <1>1, <1>2 DEF UpTo
<1>4. \A k \in 1..Len(F) : k \in 1..c <=> m[k] \in UpTo(P, n)
  BY <1>1, <1>2 DEF UpTo
<1>5. /\ Increasing(On(m, 1..c), 1..c, UpTo(P, n))
      /\ \A k \in 1..c : On(m, 1..c)[k] = m[k]
  <2> DEFINE A == 1..Len(F)
             A2 == 1..c
  <2>1. /\ A \in SUBSET Int /\ Increasing(m, A, P) /\ A2 \in SUBSET A
        /\ \A k \in A : k \in A2 <=> m[k] \in UpTo(P, n)
    BY <1>1, <1>3, <1>4
  <2> HIDE DEF A, A2
  <2>2. /\ Increasing(On(m, A2), A2, UpTo(P, n))
        /\ \A k \in A2 : On(m, A2)[k] = m[k]
    BY <1>3, <2>1, IncreasingOn
  <2> QED BY <2>2 DEF A2
<1>6. ASSUME NEW k \in 1..c PROVE G[k] = FrameOf(s2[On(m, 1..c)[k]])
  <2>1. k \in 1..Len(F) /\ m[k] \in UpTo(P, n)
    BY <1>3, <1>4
  <2> QED BY <1>1, <1>2, <1>5, <2>1 DEF SameAt
<1>7. Lists(On(m, 1..c), G, UpTo(P, n), s2)
  BY <1>2, <1>5, <1>6 DEF Lists
<1> QED BY <1>7 DEF Listing, G

\* They are the first of the list.
LEMMA CutExists ==
    ASSUME NEW m, NEW F, NEW P \in SUBSET Int, NEW s, Lists(m, F, P, s), NEW n \in Int
    PROVE  \E c \in 0..Len(F) : \A k \in 1..Len(F) : k <= c <=> m[k] <= n
<1>1. /\ Increasing(m, 1..Len(F), P) /\ Len(F) \in Nat /\ 1..Len(F) \in SUBSET Int
      /\ \A k \in 1..Len(F) : m[k] \in P
  BY ListFacts
<1>2. \A k1, k2 \in 1..Len(F) : k1 <= k2 <=> m[k1] <= m[k2]
  <2> DEFINE A == 1..Len(F)
  <2>1. A \in SUBSET Int /\ Increasing(m, A, P)
    BY <1>1
  <2> HIDE DEF A
  <2>2. \A k1, k2 \in A : k1 <= k2 <=> m[k1] <= m[k2]
    BY <2>1, IncreasingMirrors
  <2> QED BY <2>2 DEF A
<1> DEFINE T == {k \in 0..Len(F) : k = 0 \/ m[k] <= n}
<1>3. T \in SUBSET (0..Len(F)) /\ 0 \in T
  BY <1>1
<1>4. PICK c \in T : \A k \in T : k <= c
  <2> HIDE DEF T
  <2> QED BY <1>1, <1>3, GreatestNumber
<1>5. ASSUME NEW k \in 1..Len(F) PROVE k <= c <=> m[k] <= n
  <2>1. ASSUME m[k] <= n PROVE k <= c
    <3>1. k \in T
      BY <1>1, <2>1
    <3> QED BY <1>4, <3>1
  <2>2. ASSUME k <= c PROVE m[k] <= n
    <3>1. c \in 1..Len(F) /\ m[c] <= n
      BY <1>1, <1>4, <2>2
    <3>2. m[k] <= m[c] /\ m[k] \in Int /\ m[c] \in Int
      BY <1>1, <1>2, <2>2, <3>1
    <3> QED BY <3>1, <3>2
  <2> QED BY <2>1, <2>2
<1> QED BY <1>4, <1>5

\* The newest call is the last of the list.
LEMMA ListTop ==
    ASSUME NEW m, NEW F, NEW P \in SUBSET Int, NEW s, Lists(m, F, P, s), NEW b \in P,
           \A i \in P : i <= b
    PROVE  /\ F # <<>> /\ Len(F) \in 1..Len(F) /\ m[Len(F)] = b /\ Last(F) = F[Len(F)]
           /\ \A k \in 1..Len(F) : k <= Len(F) - 1 <=> m[k] <= b - 1
           /\ \A k \in 1..Len(F) : k # Len(F) => m[k] # b
<1>1. /\ Increasing(m, 1..Len(F), P) /\ Len(F) \in Nat /\ 1..Len(F) \in SUBSET Int
      /\ F \in Seq(FrameTypes)
      /\ \A k \in 1..Len(F) : m[k] \in P
      /\ \E k \in 1..Len(F) : m[k] = b
  BY ListFacts
<1>2. Len(F) \in 1..Len(F) /\ F # <<>> /\ Last(F) = F[Len(F)]
  <2>1. Len(F) # 0
    BY <1>1
  <2> QED BY <1>1, <2>1, OnTop
<1>3. /\ m[Len(F)] = b
      /\ \A k1, k2 \in 1..Len(F) : k1 < k2 <=> m[k1] < m[k2]
  <2> DEFINE A == 1..Len(F)
  <2>1. A \in SUBSET Int /\ Increasing(m, A, P) /\ Len(F) \in A /\ \A k \in A : k <= Len(F)
    BY <1>1, <1>2
  <2> HIDE DEF A
  <2>2. m[Len(F)] = b /\ \A k1, k2 \in A : k1 < k2 <=> m[k1] < m[k2]
    BY <2>1, IncreasingMirrors, IncreasingTop
  <2> QED BY <2>2 DEF A
<1>4. ASSUME NEW k \in 1..Len(F)
      PROVE  /\ k <= Len(F) - 1 <=> m[k] <= b - 1
             /\ k # Len(F) => m[k] # b
  <2>1. m[k] \in Int /\ b \in Int
    BY <1>1
  <2>2. k < Len(F) <=> m[k] < b
    BY <1>2, <1>3
  <2>3. k \in Nat /\ k <= Len(F)
    BY <1>1
  <2>4. k # Len(F) => m[k] # b
    BY <1>1, <2>1, <2>2, <2>3
  <2>5. k <= Len(F) - 1 <=> m[k] <= b - 1
    BY <1>1, <2>1, <2>2, <2>3
  <2> QED BY <2>4, <2>5
<1> QED BY <1>2, <1>3, <1>4

\* One call less.
LEMMA ListPopped ==
    ASSUME NEW F, NEW P \in SUBSET Int, NEW s, Listing(F, P, s), NEW b \in P,
           \A i \in P : i <= b, NEW s2, SameAt(s2, s, P \ {b})
    PROVE  F # <<>> /\ Listing(Front(F), P \ {b}, s2)
<1>1. PICK m : Lists(m, F, P, s)
  BY DEF Listing
<1>2. F \in Seq(FrameTypes) /\ Len(F) \in Nat
  BY <1>1, ListFacts
<1>3. /\ F # <<>> /\ Len(F) \in 1..Len(F)
      /\ \A k \in 1..Len(F) : k <= Len(F) - 1 <=> m[k] <= b - 1
  BY <1>1, ListTop
<1>4. UpTo(P, b - 1) = P \ {b} /\ b - 1 \in Int
  <2>1. b \in Int /\ \A i \in P : i \in Int
    OBVIOUS
  <2>2. \A i \in P : i <= b - 1 <=> i # b
    BY <2>1
  <2>3. b - 1 \in Int
    BY <2>1
  <2>4. UpTo(P, b - 1) = P \ {b}
    BY <2>2 DEF UpTo
  <2> QED BY <2>3, <2>4
<1>5. Front(F) = SubSeq(F, 1, Len(F) - 1) /\ Len(F) - 1 \in 0..Len(F)
  BY <1>2, <1>3, Popping
<1>6. Listing(SubSeq(F, 1, Len(F) - 1), UpTo(P, b - 1), s2)
  BY <1>1, <1>3, <1>4, <1>5, ListCut
<1> QED BY <1>3, <1>4, <1>5, <1>6

\* Other trap blocks of the newest call.
Retrapped(f, x) == [f EXCEPT !.traps = x]
Retraps(s2, s, b, x) ==
    FrameOf(s2[b]) \in FrameTypes /\ FrameOf(s2[b]) = Retrapped(FrameOf(s[b]), x)
TopRetrapped(F, x) == [F EXCEPT ![Len(F)].traps = x]

LEMMA ListTrapped ==
    ASSUME NEW F, NEW P \in SUBSET Int, NEW s, Listing(F, P, s), NEW b \in P,
           \A i \in P : i <= b, NEW s2, SameAt(s2, s, P \ {b}),
           NEW x, Retraps(s2, s, b, x)
    PROVE  /\ F # <<>> /\ Last(F) = FrameOf(s[b])
           /\ Listing(TopRetrapped(F, x), P, s2)
<1> DEFINE G == [F EXCEPT ![Len(F)] = FrameOf(s2[b])]
<1>0. FrameOf(s2[b]) \in FrameTypes /\ FrameOf(s2[b]) = Retrapped(FrameOf(s[b]), x)
  BY DEF Retraps
<1>1. PICK m : Lists(m, F, P, s)
  BY DEF Listing
<1>2. /\ F \in Seq(FrameTypes) /\ Len(F) \in Nat /\ Increasing(m, 1..Len(F), P)
      /\ \A k \in 1..Len(F) : m[k] \in P /\ F[k] = FrameOf(s[m[k]])
  BY <1>1, ListFacts
<1>3. /\ F # <<>> /\ Len(F) \in 1..Len(F) /\ m[Len(F)] = b /\ Last(F) = F[Len(F)]
      /\ \A k \in 1..Len(F) : k # Len(F) => m[k] # b
  BY <1>1, ListTop
<1>4. F[Len(F)] = FrameOf(s[b])
  BY <1>2, <1>3
<1>5. TopRetrapped(F, x) = G
  <2>1. FrameOf(s2[b]) = [F[Len(F)] EXCEPT !.traps = x]
    BY <1>0, <1>4 DEF Retrapped
  <2> QED BY <2>1 DEF TopRetrapped
<1>6. /\ G \in Seq(FrameTypes) /\ Len(G) = Len(F) /\ G[Len(F)] = FrameOf(s2[b])
      /\ \A k \in 1..Len(F) : k # Len(F) => G[k] = F[k]
  BY <1>0, <1>2, <1>3, ChangingTop
<1> HIDE DEF G
<1>7. ASSUME NEW k \in 1..Len(F) PROVE G[k] = FrameOf(s2[m[k]])
  <2>1. CASE k = Len(F)
    BY <1>3, <1>6, <2>1
  <2>2. CASE k # Len(F)
    <3>1. m[k] \in P \ {b}
      BY <1>2, <1>3, <2>2
    <3> QED BY <1>2, <1>6, <2>2, <3>1 DEF SameAt
  <2> QED BY <2>1, <2>2
<1>8. Lists(m, G, P, s2)
  BY <1>2, <1>6, <1>7 DEF Lists
<1> QED BY <1>3, <1>4, <1>5, <1>8 DEF Listing

-----------------------------------------------------------------------------
(* The frames when the calls change.                                       *)

LEMMA FramesListed ==
    ASSUME NEW s \in Seq(CallSet), NEW u
    PROVE  Listing(FramesThatStay(s, u), StayIn(s, u), s)
BY FramesAreListed DEF Listing

LEMMA FramesAre ==
    ASSUME NEW s \in Seq(CallSet), NEW u, NEW G, Listing(G, StayIn(s, u), s)
    PROVE  FramesThatStay(s, u) = G
<1>1. PICK m : Lists(m, G, StayIn(s, u), s)
  BY DEF Listing
<1>2. PICK m2 : Lists(m2, FramesThatStay(s, u), StayIn(s, u), s)
  BY FramesAreListed
<1>3. StayIn(s, u) \in SUBSET Int
  BY StayTypes
<1> QED BY <1>1, <1>2, <1>3, ListIsUnique

\* Where nothing is unwound all calls stay but the loops.
LEMMA StaysCalmly ==
    ASSUME NEW s
    PROVE  StayIn(s, FALSE) = {i \in 1..Len(s) : ~IsLoop(s[i])}
BY DEF StayIn, IsLoop

LEMMA FramesPushed ==
    ASSUME NEW s \in Seq(CallSet), NEW c \in CallSet
    PROVE  /\ IsLoop(c) => FramesThatStay(Append(s, c), FALSE) = FramesThatStay(s, FALSE)
           /\ ~IsLoop(c) => FramesThatStay(Append(s, c), FALSE)
                               = Append(FramesThatStay(s, FALSE), FrameOf(c))
<1> DEFINE t == Append(s, c)
           P == StayIn(s, FALSE)
           b == Len(s) + 1
           F == FramesThatStay(s, FALSE)
<1>1. /\ t \in Seq(CallSet) /\ Len(t) = b /\ Len(s) \in Nat /\ b \in Int
      /\ t[b] = c /\ \A i \in 1..Len(s) : t[i] = s[i]
  BY Pushing
<1>2. /\ P \in SUBSET Int /\ \A i \in P : i \in 1..Len(s) /\ i < b
      /\ FrameOf(c) \in FrameTypes
  <2>1. /\ P \in SUBSET Int /\ \A i \in P : i \in 1..Len(s) /\ i \in Nat /\ i <= Len(s)
    BY StayTypes
  <2>2. FrameOf(c) \in FrameTypes
    BY DEF CallSet, FrameOf, FrameTypes
  <2> HIDE DEF P
  <2> QED BY <1>1, <2>1, <2>2
<1>3. SameAt(t, s, P) /\ Listing(F, P, s) /\ Tops(b, P)
  BY <1>1, <1>2, FramesListed DEF SameAt, Tops
<1>4. 1..b = 1..Len(s) \cup {b} /\ b \notin 1..Len(s)
  BY <1>1
<1>5. P = {i \in 1..Len(s) : ~IsLoop(s[i])} /\ StayIn(t, FALSE) = {i \in 1..b : ~IsLoop(t[i])}
  BY <1>1, StaysCalmly
<1> HIDE DEF t, F, P, b
<1>6. ASSUME IsLoop(c) PROVE FramesThatStay(t, FALSE) = F
  <2>1. StayIn(t, FALSE) = P
    BY <1>1, <1>4, <1>5, <1>6
  <2>2. Listing(F, P, t)
    <3>1. PICK m : Lists(m, F, P, s)
      BY <1>3 DEF Listing
    <3>2. /\ Increasing(m, 1..Len(F), P) /\ F \in Seq(FrameTypes)
          /\ \A k \in 1..Len(F) : m[k] \in P /\ F[k] = FrameOf(s[m[k]])
      BY <1>2, <3>1, ListFacts
    <3>3. \A k \in 1..Len(F) : F[k] = FrameOf(t[m[k]])
      BY <1>3, <3>2 DEF SameAt
    <3> QED BY <3>2, <3>3 DEF Listing, Lists
  <2> QED BY <1>1, <2>1, <2>2, FramesAre
<1>7. ASSUME ~IsLoop(c) PROVE FramesThatStay(t, FALSE) = Append(F, FrameOf(c))
  <2>1. StayIn(t, FALSE) = P \cup {b}
    BY <1>1, <1>4, <1>5, <1>7
  <2>2. Listing(Append(F, FrameOf(t[b])), P \cup {b}, t)
    BY <1>1, <1>2, <1>3, ListPushed
  <2> QED BY <1>1, <2>1, <2>2, FramesAre
<1> QED BY <1>6, <1>7 DEF t, F

\* The same calls are listed in another stack that has them.
LEMMA ListSame ==
    ASSUME NEW F, NEW P \in SUBSET Int, NEW s, Listing(F, P, s), NEW t, SameAt(t, s, P)
    PROVE  Listing(F, P, t)
<1>1. PICK m : Lists(m, F, P, s)
  BY DEF Listing
<1>2. /\ Increasing(m, 1..Len(F), P) /\ F \in Seq(FrameTypes)
      /\ \A k \in 1..Len(F) : m[k] \in P /\ F[k] = FrameOf(s[m[k]])
  BY <1>1, ListFacts
<1>3. \A k \in 1..Len(F) : F[k] = FrameOf(t[m[k]])
  BY <1>2 DEF SameAt
<1> QED BY <1>2, <1>3 DEF Listing, Lists

LEMMA FramesPopped ==
    ASSUME NEW s \in Seq(CallSet), s # <<>>
    PROVE  /\ IsLoop(Last(s)) => FramesThatStay(Front(s), FALSE) = FramesThatStay(s, FALSE)
           /\ ~IsLoop(Last(s)) => /\ FramesThatStay(s, FALSE) # <<>>
                                  /\ FramesThatStay(Front(s), FALSE) = Front(FramesThatStay(s, FALSE))
<1> DEFINE t == Front(s)
           P == StayIn(s, FALSE)
           b == Len(s)
           F == FramesThatStay(s, FALSE)
<1>1. /\ t \in Seq(CallSet) /\ Len(t) = b - 1 /\ b \in Nat \ {0} /\ b \in 1..b
      /\ Last(s) = s[b] /\ \A i \in 1..b - 1 : t[i] = s[i]
  BY OnTop, Popping
<1>2. P \in SUBSET Int /\ \A i \in P : i \in 1..b /\ i <= b
  BY StayTypes
<1>3. Listing(F, P, s)
  BY FramesListed
<1>4. 1..b = 1..b - 1 \cup {b} /\ b \notin 1..b - 1
  BY <1>1
<1>5. P = {i \in 1..b : ~IsLoop(s[i])} /\ StayIn(t, FALSE) = {i \in 1..b - 1 : ~IsLoop(t[i])}
  BY <1>1, StaysCalmly
<1> HIDE DEF t, F, P, b
<1>6. StayIn(t, FALSE) = P \ {b}
  BY <1>1, <1>4, <1>5
<1>7. SameAt(t, s, P \ {b})
  <2>1. \A i \in P \ {b} : i \in 1..b - 1
    BY <1>2, <1>4
  <2> QED BY <1>1, <2>1 DEF SameAt
<1>8. ASSUME IsLoop(Last(s)) PROVE FramesThatStay(t, FALSE) = F
  <2>1. P \ {b} = P
    BY <1>1, <1>5, <1>8
  <2>2. Listing(F, P, t)
    BY <1>2, <1>3, <1>7, <2>1, ListSame
  <2> QED BY <1>1, <1>6, <2>1, <2>2, FramesAre
<1>9. ASSUME ~IsLoop(Last(s)) PROVE F # <<>> /\ FramesThatStay(t, FALSE) = Front(F)
  <2>1. b \in P
    BY <1>1, <1>5, <1>9
  <2>2. F # <<>> /\ Listing(Front(F), P \ {b}, t)
    BY <1>2, <1>3, <1>7, <2>1, ListPopped
  <2> QED BY <1>1, <1>6, <2>2, FramesAre
<1> QED BY <1>8, <1>9 DEF t, F

LEMMA FramesTrapped ==
    ASSUME NEW s \in Seq(CallSet), s # <<>>, ~IsLoop(Last(s)), NEW t \in Seq(CallSet),
           Len(t) = Len(s), \A i \in 1..Len(s) : i # Len(s) => t[i] = s[i],
           NEW x, FrameOf(Last(t)) = Retrapped(FrameOf(Last(s)), x)
    PROVE  LET F == FramesThatStay(s, FALSE)
           IN  /\ F # <<>> /\ Last(F) = FrameOf(Last(s))
               /\ FramesThatStay(t, FALSE) = TopRetrapped(F, x)
<1> DEFINE P == StayIn(s, FALSE)
           b == Len(s)
           F == FramesThatStay(s, FALSE)
<1>1. /\ b \in Nat /\ b \in 1..b /\ Last(s) = s[b] /\ Last(t) = t[b]
      /\ t[b] \in CallSet
  <2>1. t # <<>>
    BY OnTop
  <2> QED BY <2>1, OnTop
<1>2. P \in SUBSET Int /\ \A i \in P : i \in 1..b /\ i <= b
  BY StayTypes
<1>3. Listing(F, P, s)
  BY FramesListed
<1>4. ~IsLoop(t[b]) /\ FrameOf(t[b]) \in FrameTypes
  <2>1. FrameOf(t[b]).context = FrameOf(s[b]).context
    BY <1>1 DEF FrameOf, Retrapped
  <2> QED BY <1>1, <2>1 DEF CallSet, FrameOf, FrameTypes, IsLoop
<1>5. P = {i \in 1..b : ~IsLoop(s[i])} /\ StayIn(t, FALSE) = {i \in 1..b : ~IsLoop(t[i])}
  BY StaysCalmly
<1> HIDE DEF P, b, F
<1>6. StayIn(t, FALSE) = P /\ b \in P
  <2>1. \A i \in 1..b : IsLoop(t[i]) <=> IsLoop(s[i])
    BY <1>1, <1>4 DEF b
  <2> QED BY <1>1, <1>5, <2>1
<1>7. SameAt(t, s, P \ {b})
  BY <1>2 DEF SameAt, b
<1>8. FrameOf(t[b]) = Retrapped(FrameOf(s[b]), x)
  BY <1>1
<1>9. /\ F # <<>> /\ Last(F) = FrameOf(s[b])
      /\ Listing(TopRetrapped(F, x), P, t)
  <2>1. P \in SUBSET Int /\ Listing(F, P, s) /\ b \in P /\ (\A i \in P : i <= b)
    BY <1>2, <1>3, <1>6
  <2>2. SameAt(t, s, P \ {b}) /\ Retraps(t, s, b, x)
    BY <1>4, <1>7, <1>8 DEF Retraps
  <2> QED BY <2>1, <2>2, ListTrapped
<1>10. FramesThatStay(t, FALSE) = TopRetrapped(F, x)
  BY <1>6, <1>9, FramesAre
<1> QED BY <1>1, <1>9, <1>10 DEF F

\* Where an exception is unwound the calls stay up to its handler.
TheHandler(s, h) == h \in HandlersIn(s) /\ \A i \in HandlersIn(s) : i <= h

LEMMA HandlerExists ==
    ASSUME NEW s \in Seq(CallSet), HandlersIn(s) # {}
    PROVE  \E h : TheHandler(s, h)
<1>1. Len(s) \in Nat /\ HandlersIn(s) \in SUBSET (0..Len(s))
  BY OnTop DEF HandlersIn
<1>2. \E h \in HandlersIn(s) : \A i \in HandlersIn(s) : i <= h
  <2> DEFINE T == HandlersIn(s)
  <2>1. T \in SUBSET (0..Len(s)) /\ T # {}
    BY <1>1
  <2> HIDE DEF T
  <2>2. \E h \in T : \A i \in T : i <= h
    BY <1>1, <2>1, GreatestNumber
  <2> QED BY <2>2 DEF T
<1> QED BY <1>2 DEF TheHandler

LEMMA StaysUnwound ==
    ASSUME NEW s \in Seq(CallSet), NEW h, TheHandler(s, h)
    PROVE  /\ StayIn(s, TRUE) = UpTo(StayIn(s, FALSE), h)
           /\ h \in 1..Len(s) /\ h \in Nat /\ h \in StayIn(s, FALSE)
<1>1. h \in 1..Len(s) /\ Handles(s[h]) /\ h \in Nat /\ Len(s) \in Nat
  BY OnTop DEF TheHandler, HandlersIn
<1>2. ~IsLoop(s[h])
  BY <1>1 DEF Handles, IsDeltaCodeContext, IsLoop
<1>3. StayIn(s, FALSE) = {i \in 1..Len(s) : ~IsLoop(s[i])}
  BY StaysCalmly
<1>4. ASSUME NEW i \in 1..Len(s)
      PROVE  i <= h <=> \E k \in i..Len(s) : Handles(s[k])
  <2>1. ASSUME i <= h PROVE \E k \in i..Len(s) : Handles(s[k])
    <3>1. h \in i..Len(s)
      BY <1>1, <2>1
    <3> QED BY <1>1, <3>1
  <2>2. ASSUME NEW k \in i..Len(s), Handles(s[k]) PROVE i <= h
    <3>1. k \in 1..Len(s) /\ k \in Nat /\ i <= k
      BY <1>1
    <3>2. k <= h
      BY <2>2, <3>1 DEF TheHandler, HandlersIn
    <3> QED BY <1>1, <3>1, <3>2
  <2> QED BY <2>1, <2>2
<1>5. StayIn(s, TRUE) = {i \in 1..Len(s) : ~IsLoop(s[i]) /\ \E k \in i..Len(s) : Handles(s[k])}
  BY DEF StayIn, IsLoop
<1>6. StayIn(s, TRUE) = UpTo(StayIn(s, FALSE), h)
  BY <1>3, <1>4, <1>5 DEF UpTo
<1> QED BY <1>1, <1>2, <1>3, <1>6

LEMMA StaysCut ==
    ASSUME NEW s \in Seq(CallSet), NEW n \in 0..Len(s)
    PROVE  StayIn(SubSeq(s, 1, n), FALSE) = UpTo(StayIn(s, FALSE), n)
<1> DEFINE t == SubSeq(s, 1, n)
<1>1. Len(s) \in Nat /\ Len(t) = n /\ n \in Nat /\ \A i \in 1..n : t[i] = s[i]
  BY Keeping
<1> HIDE DEF t
<1>2. StayIn(t, FALSE) = {i \in 1..n : ~IsLoop(t[i])} /\ StayIn(s, FALSE) = {i \in 1..Len(s) : ~IsLoop(s[i])}
  BY <1>1, StaysCalmly
<1>3. \A i : i \in 1..n <=> i \in 1..Len(s) /\ i <= n
  BY <1>1
<1>4. StayIn(t, FALSE) = UpTo(StayIn(s, FALSE), n)
  BY <1>1, <1>2, <1>3 DEF UpTo
<1> QED BY <1>4 DEF t

LEMMA FramesUnwound ==
    ASSUME NEW s \in Seq(CallSet), NEW h, TheHandler(s, h), NEW n \in h..Len(s)
    PROVE  /\ FramesThatStay(SubSeq(s, 1, n), TRUE) = FramesThatStay(s, TRUE)
           /\ n = h => FramesThatStay(SubSeq(s, 1, n), FALSE) = FramesThatStay(s, TRUE)
<1> DEFINE t == SubSeq(s, 1, n)
           P == StayIn(s, FALSE)
           U == UpTo(P, h)
<1>1. h \in 1..Len(s) /\ h \in Nat /\ StayIn(s, TRUE) = U
  BY StaysUnwound
<1>2. n \in 0..Len(s) /\ n \in Nat /\ h <= n /\ Len(s) \in Nat
  BY <1>1, OnTop
<1>3. /\ t \in Seq(CallSet) /\ \A i \in 1..n : t[i] = s[i]
      /\ StayIn(t, FALSE) = UpTo(P, n) /\ HandlersIn(t) = UpTo(HandlersIn(s), n)
  BY <1>2, Keeping, KeptPositions, StaysCut, ZenonT(60)
<1> HIDE DEF t
<1>4. TheHandler(t, h)
  BY <1>2, <1>3 DEF TheHandler, UpTo
<1>5. P \in SUBSET Int /\ \A i \in P : i \in 1..Len(s) /\ i \in Nat
  BY StayTypes
<1>6. ASSUME NEW i \in P, i <= h PROVE i <= n /\ i \in 1..n /\ i \in Int
  <2>1. i \in 1..Len(s) /\ i \in Nat
    BY <1>5
  <2> HIDE DEF P
  <2> QED BY <1>1, <1>2, <1>6, <2>1
<1> HIDE DEF P
<1>7. StayIn(t, TRUE) = U
  <2>1. StayIn(t, TRUE) = UpTo(StayIn(t, FALSE), h)
    BY <1>3, <1>4, StaysUnwound
  <2>2. UpTo(UpTo(P, n), h) = UpTo(P, h)
    BY <1>6 DEF UpTo
  <2> QED BY <1>3, <2>1, <2>2
<1>8. U \in SUBSET Int /\ SameAt(t, s, U)
  <2>1. \A i \in U : i \in 1..n /\ i \in Int
    BY <1>6 DEF UpTo
  <2> HIDE DEF U
  <2> QED BY <1>3, <2>1 DEF SameAt
<1> HIDE DEF U
<1>9. Listing(FramesThatStay(s, TRUE), U, t)
  <2>1. Listing(FramesThatStay(s, TRUE), U, s)
    BY <1>1, FramesListed
  <2> QED BY <1>8, <2>1, ListSame
<1>10. FramesThatStay(t, TRUE) = FramesThatStay(s, TRUE)
  BY <1>3, <1>7, <1>9, FramesAre
<1>11. n = h => FramesThatStay(t, FALSE) = FramesThatStay(s, TRUE)
  <2>1. n = h => StayIn(t, FALSE) = U
    BY <1>3 DEF U
  <2> QED BY <1>3, <1>9, <2>1, FramesAre
<1> QED BY <1>10, <1>11 DEF t

\* A call above the handler that ends, or starts, meanwhile.
LEMMA FramesKeptPopped ==
    ASSUME NEW s \in Seq(CallSet), s # <<>>, HandlersIn(s) # {}, ~Handles(Last(s))
    PROVE  FramesThatStay(Front(s), TRUE) = FramesThatStay(s, TRUE)
<1>1. PICK h : TheHandler(s, h)
  BY HandlerExists
<1>2. h \in 1..Len(s) /\ Handles(s[h]) /\ Len(s) \in Nat /\ Last(s) = s[Len(s)]
  BY <1>1, OnTop DEF TheHandler, HandlersIn
<1>3. h # Len(s)
  BY <1>2
<1>4. Len(s) - 1 \in h..Len(s)
  BY <1>2, <1>3
<1>5. Front(s) = SubSeq(s, 1, Len(s) - 1)
  BY Popping
<1> QED BY <1>1, <1>4, <1>5, FramesUnwound

LEMMA FramesKeptPushed ==
    ASSUME NEW s \in Seq(CallSet), NEW c \in CallSet, HandlersIn(s) # {}, ~Handles(c)
    PROVE  FramesThatStay(Append(s, c), TRUE) = FramesThatStay(s, TRUE)
<1> DEFINE t == Append(s, c)
<1>1. t \in Seq(CallSet) /\ t # <<>> /\ Len(s) \in Nat /\ Len(t) = Len(s) + 1 /\ Last(t) = c
  BY Pushing
<1>2. HandlersIn(t) = HandlersIn(s)
  <2>1. HandlersIn(t) = HandlersIn(s) \cup IF Handles(c) THEN {Len(s) + 1} ELSE {}
    BY PushedPositions
  <2> HIDE DEF t
  <2> QED BY <2>1
<1>3. Front(t) = s
  <2>1. \A i \in 1..Len(s) : t[i] = s[i]
    BY Pushing
  <2> HIDE DEF t
  <2>2. Front(t) \in Seq(CallSet) /\ Len(Front(t)) = Len(s) /\ \A i \in 1..Len(s) : Front(t)[i] = s[i]
    BY <1>1, <2>1, Popping
  <2> QED BY <1>1, <2>2, SeqEqual
<1> HIDE DEF t
<1>4. FramesThatStay(Front(t), TRUE) = FramesThatStay(t, TRUE)
  BY <1>1, <1>2, FramesKeptPopped
<1> QED BY <1>3, <1>4 DEF t

\* A frame that can handle an exception is of a call that can.
HandlesFrame(f) == f.context = "InNativeCode" \/ f.traps > 0

LEMMA FrameHandles ==
    ASSUME NEW c \in CallSet
    PROVE  HandlesFrame(FrameOf(c)) <=> Handles(c)
<1>1. c.traps \in 0..MaxTraps /\ (c.traps > 0 => IsDeltaCodeContext(c))
  BY DEF CallSet
<1>2. FrameOf(c).context = c.context /\ FrameOf(c).traps = c.traps
  BY DEF FrameOf
<1> QED BY <1>1, <1>2 DEF HandlesFrame, Handles

\* An exception removes the frames above the one that handles it.
LEMMA FramesThrown ==
    ASSUME NEW s \in Seq(CallSet), NEW h, TheHandler(s, h)
    PROVE  LET F == FramesThatStay(s, FALSE)
           IN  \E c \in 1..Len(F) :
                  /\ FramesThatStay(s, TRUE) = SubSeq(F, 1, c)
                  /\ HandlesFrame(F[c])
                  /\ \A k \in c + 1..Len(F) : ~HandlesFrame(F[k])
<1> DEFINE F == FramesThatStay(s, FALSE)
           P == StayIn(s, FALSE)
<1>1. /\ h \in 1..Len(s) /\ h \in Nat /\ h \in Int /\ h \in P /\ StayIn(s, TRUE) = UpTo(P, h)
  <2>1. /\ h \in 1..Len(s) /\ h \in Nat /\ h \in P /\ StayIn(s, TRUE) = UpTo(P, h)
    BY StaysUnwound
  <2>2. h \in Int
    <3>1. h \in Nat
      BY <2>1
    <3> HIDE DEF P
    <3> QED BY <3>1
  <2> QED BY <2>1, <2>2
<1>2. /\ P \in SUBSET Int /\ \A i \in P : i \in 1..Len(s) /\ s[i] \in CallSet
  BY StayTypes
<1>3. PICK m : Lists(m, F, P, s)
  BY FramesAreListed
<1> HIDE DEF F, P
<1>4. /\ F \in Seq(FrameTypes) /\ Len(F) \in Nat
      /\ \A k \in 1..Len(F) : m[k] \in P /\ F[k] = FrameOf(s[m[k]])
      /\ \A i \in P : \E k \in 1..Len(F) : m[k] = i
  BY <1>2, <1>3, ListFacts
<1>5. PICK c \in 1..Len(F) : m[c] = h
  BY <1>1, <1>4
<1>6. \A k \in 1..Len(F) : k <= c <=> m[k] <= h
  <2> DEFINE A == 1..Len(F)
  <2>1. A \in SUBSET Int /\ Increasing(m, A, P) /\ c \in A
    BY <1>2, <1>3, ListFacts
  <2> HIDE DEF A
  <2>2. \A k \in A : k <= c <=> m[k] <= m[c]
    BY <1>2, <2>1, IncreasingMirrors
  <2> QED BY <1>5, <2>2 DEF A
<1>7. FramesThatStay(s, TRUE) = SubSeq(F, 1, c)
  <2>1. c \in 0..Len(F) /\ SameAt(s, s, UpTo(P, h))
    BY <1>4 DEF SameAt
  <2>2. Listing(SubSeq(F, 1, c), UpTo(P, h), s)
    BY <1>1, <1>2, <1>3, <1>6, <2>1, ListCut
  <2> QED BY <1>1, <2>2, FramesAre
<1>8. \A k \in 1..Len(F) : HandlesFrame(F[k]) <=> m[k] \in HandlersIn(s)
  <2>1. ASSUME NEW k \in 1..Len(F) PROVE HandlesFrame(F[k]) <=> m[k] \in HandlersIn(s)
    <3>1. m[k] \in 1..Len(s) /\ s[m[k]] \in CallSet /\ F[k] = FrameOf(s[m[k]])
      BY <1>2, <1>4
    <3>2. HandlesFrame(F[k]) <=> Handles(s[m[k]])
      BY <3>1, FrameHandles
    <3> QED BY <3>1, <3>2 DEF HandlersIn
  <2> QED BY <2>1
<1>9. HandlesFrame(F[c])
  BY <1>5, <1>8 DEF TheHandler
<1>10. ASSUME NEW k \in c + 1..Len(F) PROVE ~HandlesFrame(F[k])
  <2>1. k \in 1..Len(F) /\ ~(k <= c)
    BY <1>4
  <2>2. ~(m[k] <= h)
    BY <1>6, <2>1
  <2> QED BY <1>8, <2>1, <2>2 DEF TheHandler
<1> QED BY <1>7, <1>9, <1>10 DEF F

\* An error removes as few frames as can be separated.
LEMMA FramesFailed ==
    ASSUME NEW s, NoNatives(s), HandlersIn(s) = {},
           NEW n \in 0..Len(s) - 1, CutsApart(s, n),
           \A k \in 0..Len(s) - 1 : CutsApart(s, k) => k <= n
    PROVE  LET F == FramesThatStay(s, FALSE)
           IN  /\ \A k \in 1..Len(F) : ~HandlesFrame(F[k])
               /\ \E c \in 0..Len(F) - 1 :
                     /\ CutsApart(F, c)
                     /\ \A k \in c + 1..Len(F) - 1 : ~CutsApart(F, k)
                     /\ FramesThatStay(SubSeq(s, 1, n), FALSE) = SubSeq(F, 1, c)
<1> DEFINE F == FramesThatStay(s, FALSE)
           P == StayIn(s, FALSE)
<1>1. /\ s \in Seq(CallSet) /\ Len(s) \in Nat /\ Len(s) \in 1..Len(s) /\ Last(s) = s[Len(s)]
      /\ ~IsLoop(s[Len(s)]) /\ n \in 0..Len(s) /\ n \in Nat
  BY OnTop DEF NoNatives
<1>2. /\ P \in SUBSET Int /\ \A i \in P : i \in 1..Len(s) /\ s[i] \in CallSet
  BY <1>1, StayTypes
<1>3. P = {i \in 1..Len(s) : ~IsLoop(s[i])} /\ P = TracedIn(s)
  <2>1. P = {i \in 1..Len(s) : ~IsLoop(s[i])}
    BY StaysCalmly
  <2> HIDE DEF P
  <2> QED BY <2>1 DEF TracedIn, NoNatives
<1>4. PICK m : Lists(m, F, P, s)
  BY <1>1, FramesAreListed
<1> HIDE DEF F, P
<1>5. /\ F \in Seq(FrameTypes) /\ Len(F) \in Nat /\ Increasing(m, 1..Len(F), P)
      /\ \A k \in 1..Len(F) : m[k] \in P /\ F[k] = FrameOf(s[m[k]])
      /\ \A i \in P : \E k \in 1..Len(F) : m[k] = i
  BY <1>2, <1>4, ListFacts
<1>6. ASSUME NEW k \in 1..Len(F) PROVE F[k].vm = s[m[k]].vm
  <2>1. F[k] = FrameOf(s[m[k]])
    BY <1>5
  <2> QED BY <2>1 DEF FrameOf
<1>7. 0 \in 0..Len(F) - 1
  <2>1. Len(s) \in P
    BY <1>1, <1>3
  <2>2. \E k \in 1..Len(F) : m[k] = Len(s)
    BY <1>5, <2>1
  <2> QED BY <1>5, <2>2
<1> DEFINE T == {k \in 0..Len(F) - 1 : CutsApart(F, k)}
<1>8. PICK c \in T : \A k \in T : k <= c
  <2>1. CutsApart(F, 0)
    BY DEF CutsApart
  <2>2. 0 \in T /\ T \in SUBSET (0..Len(F))
    BY <1>5, <1>7, <2>1
  <2> HIDE DEF T
  <2> QED BY <1>5, <2>2, GreatestNumber
<1>9. /\ c \in 0..Len(F) - 1 /\ CutsApart(F, c)
      /\ \A k \in 0..Len(F) - 1 : CutsApart(F, k) => k <= c
  BY <1>8
<1>10. \A k \in 1..Len(F) : k <= c <=> m[k] <= n
  <2>1. Increasing(m, 1..Len(F), TracedIn(s)) /\ \A k \in 1..Len(F) : F[k].vm = s[m[k]].vm
    BY <1>3, <1>5, <1>6
  <2>2. Len(F) \in Nat
    BY <1>5
  <2> QED BY <1>9, <2>1, <2>2, TracesCutApart
<1>11. FramesThatStay(SubSeq(s, 1, n), FALSE) = SubSeq(F, 1, c)
  <2>1. SubSeq(s, 1, n) \in Seq(CallSet) /\ \A i \in 1..n : SubSeq(s, 1, n)[i] = s[i]
    BY <1>1, Keeping
  <2>2. \A i \in UpTo(P, n) : i \in 1..n
    BY <1>1, <1>2 DEF UpTo
  <2>3. SameAt(SubSeq(s, 1, n), s, UpTo(P, n))
    BY <2>1, <2>2 DEF SameAt
  <2>4. c \in 0..Len(F) /\ n \in Int
    BY <1>1, <1>5, <1>9
  <2>5. Listing(SubSeq(F, 1, c), UpTo(P, n), SubSeq(s, 1, n))
    BY <1>2, <1>4, <1>10, <2>3, <2>4, ListCut
  <2>6. StayIn(SubSeq(s, 1, n), FALSE) = UpTo(P, n)
    BY <1>1, StaysCut DEF P
  <2> QED BY <2>1, <2>5, <2>6, FramesAre
<1>12. ASSUME NEW k \in c + 1..Len(F) - 1 PROVE ~CutsApart(F, k)
  <2>1. k \in 0..Len(F) - 1 /\ ~(k <= c)
    BY <1>5, <1>9
  <2> QED BY <1>9, <2>1
<1>13. ASSUME NEW k \in 1..Len(F) PROVE ~HandlesFrame(F[k])
  <2>1. m[k] \in 1..Len(s) /\ s[m[k]] \in CallSet /\ F[k] = FrameOf(s[m[k]])
    BY <1>2, <1>5
  <2>2. ~Handles(s[m[k]])
    BY <2>1 DEF HandlersIn
  <2> QED BY <2>1, <2>2, FrameHandles
<1> QED BY <1>9, <1>11, <1>12, <1>13 DEF F

-----------------------------------------------------------------------------
(* The steps of the abstract specification.                                *)

Entering == {FrameOf(Call(c, v, "end")) :
                c \in {"InDeltaFunction", "InDeltaGlobalCode", "InLibraryFunction"},
                v \in VMs} \cup {FrameOf(Call("InNativeCode", NoVM, "end"))}

Enters(F, G) == \E f \in Entering : G = Append(F, f)
Leaves(F, G) == F # <<>> /\ G = Front(F)
Tries(F, G) == F # <<>> /\ \E x \in {Last(F).traps + 1, Last(F).traps - 1} \cap Nat :
                               G = TopRetrapped(F, x)
Throws(F, G) == \E c \in 1..Len(F) :
                    /\ HandlesFrame(F[c]) /\ \A k \in c + 1..Len(F) : ~HandlesFrame(F[k])
                    /\ G = SubSeq(F, 1, c)
Fails(F, G) == /\ \A k \in 1..Len(F) : ~HandlesFrame(F[k])
               /\ \E c \in 0..Len(F) - 1 :
                     /\ CutsApart(F, c) /\ \A k \in c + 1..Len(F) - 1 : ~CutsApart(F, k)
                     /\ G = SubSeq(F, 1, c)

FramesNow == FramesThatStay(callStack, isUnwinding)
AbstractStep == LET F == FramesNow
                    G == FramesThatStay(callStack', isUnwinding')
                IN  G = F \/ Enters(F, G) \/ Leaves(F, G) \/ Tries(F, G) \/ Throws(F, G) \/ Fails(F, G)

LEMMA SameFramesStep ==
    ASSUME UNCHANGED <<callStack, isUnwinding>>
    PROVE  AbstractStep
BY DEF AbstractStep, FramesNow

LEMMA InvTypes ==
    ASSUME IInv
    PROVE  callStack \in Seq(CallSet) /\ isUnwinding \in BOOLEAN
BY DEF IInv, TypeInv

\* A call starts.
LEMMA EnterStep ==
    ASSUME IInv, isUnwinding = FALSE, isUnwinding' = FALSE, NEW c \in CallSet, ~IsLoop(c),
           FrameOf(c) \in Entering, callStack' = Append(callStack, c)
    PROVE  AbstractStep
<1>1. FramesThatStay(callStack', FALSE) = Append(FramesThatStay(callStack, FALSE), FrameOf(c))
  BY InvTypes, FramesPushed
<1> QED BY <1>1 DEF AbstractStep, FramesNow, Enters

LEMMA EnterLoopStep ==
    ASSUME IInv, isUnwinding = FALSE, isUnwinding' = FALSE, NEW v \in VMs, NEW x,
           x \in {"InDeltaFunction", "InDeltaGlobalCode"},
           callStack' = callStack \o <<Call("InExecutionLoop", v, "end"), Call(x, v, "end")>>
    PROVE  AbstractStep
<1> DEFINE l == Call("InExecutionLoop", v, "end")
           c == Call(x, v, "end")
<1>1. l \in CallSet /\ c \in CallSet
  <2>1. "end" \in Counters \ {"idle"}
    BY DEF Counters
  <2> QED BY <2>1, NewCalls
<1>2. IsLoop(l) /\ ~IsLoop(c) /\ FrameOf(c) \in Entering
  BY DEF IsLoop, Call, Entering
<1>3. callStack' = callStack \o <<l, c>>
  OBVIOUS
<1> HIDE DEF l, c
<1>4. Append(callStack, l) \in Seq(CallSet) /\ callStack' = Append(Append(callStack, l), c)
  BY <1>1, <1>3, InvTypes, PushingTwo, Pushing
<1>5. FramesThatStay(Append(callStack, l), FALSE) = FramesThatStay(callStack, FALSE)
  BY <1>1, <1>2, InvTypes, FramesPushed
<1>6. FramesThatStay(Append(Append(callStack, l), c), FALSE)
         = Append(FramesThatStay(Append(callStack, l), FALSE), FrameOf(c))
  BY <1>1, <1>2, <1>4, FramesPushed
<1> QED BY <1>2, <1>4, <1>5, <1>6 DEF AbstractStep, FramesNow, Enters

\* The newest call ends.
LEMMA LeaveStep ==
    ASSUME IInv, isUnwinding = FALSE, isUnwinding' = FALSE, callStack # <<>>,
           callStack' = Front(callStack)
    PROVE  AbstractStep
<1>1. CASE IsLoop(Last(callStack))
  <2>1. FramesThatStay(callStack', FALSE) = FramesThatStay(callStack, FALSE)
    BY <1>1, InvTypes, FramesPopped
  <2> QED BY <2>1 DEF AbstractStep, FramesNow
<1>2. CASE ~IsLoop(Last(callStack))
  <2>1. /\ FramesThatStay(callStack, FALSE) # <<>>
        /\ FramesThatStay(callStack', FALSE) = Front(FramesThatStay(callStack, FALSE))
    BY <1>2, InvTypes, FramesPopped
  <2> QED BY <2>1 DEF AbstractStep, FramesNow, Leaves
<1> QED BY <1>1, <1>2

\* A try block of the newest call starts or ends.
LEMMA FramesRetrapped ==
    ASSUME NEW s \in Seq(CallSet), s # <<>>, IsDeltaCodeContext(Last(s)), NEW x \in 0..MaxTraps
    PROVE  LET F == FramesThatStay(s, FALSE)
               t == [s EXCEPT ![Len(s)].traps = x]
           IN  /\ F # <<>> /\ Last(F).traps = Last(s).traps
               /\ FramesThatStay(t, FALSE) = TopRetrapped(F, x)
<1> DEFINE c == [Last(s) EXCEPT !.traps = x]
           t == [s EXCEPT ![Len(s)].traps = x]
<1>1. Last(s) = s[Len(s)] /\ Last(s) \in CallSet
  BY OnTop
<1>2. c \in CallSet
  BY <1>1 DEF CallSet, IsNative, IsDeltaCodeContext
<1>3. FrameOf(c) = Retrapped(FrameOf(Last(s)), x)
  BY <1>1 DEF CallSet, FrameOf, Retrapped
<1>4. t = [s EXCEPT ![Len(s)] = c]
  BY <1>1
<1> HIDE DEF c
<1>5. /\ t \in Seq(CallSet) /\ Len(t) = Len(s) /\ t # <<>> /\ Last(t) = c /\ t[Len(s)] = c
      /\ \A i \in 1..Len(s) : i # Len(s) => t[i] = s[i]
  <2>1. s \in Seq(CallSet) /\ s # <<>> /\ c \in CallSet
    BY <1>2
  <2> QED BY <1>4, <2>1, ChangingTop
<1> HIDE DEF t
<1> DEFINE F == FramesThatStay(s, FALSE)
<1>6. F # <<>> /\ Last(F) = FrameOf(Last(s)) /\ FramesThatStay(t, FALSE) = TopRetrapped(F, x)
  <2>1. ~IsLoop(Last(s))
    BY DEF IsLoop, IsDeltaCodeContext
  <2>2. FrameOf(Last(t)) = Retrapped(FrameOf(Last(s)), x)
    BY <1>3, <1>5
  <2> QED BY <1>5, <2>1, <2>2, FramesTrapped
<1>7. Last(F).traps = Last(s).traps
  <2>1. Last(F) = FrameOf(Last(s))
    BY <1>6
  <2> HIDE DEF F
  <2> QED BY <2>1 DEF FrameOf
<1> QED BY <1>6, <1>7 DEF t

LEMMA TryStep ==
    ASSUME IInv, isUnwinding = FALSE, isUnwinding' = FALSE, callStack # <<>>,
           IsDeltaCodeContext(Last(callStack)), NEW x \in 0..MaxTraps,
           x \in {Last(callStack).traps + 1, Last(callStack).traps - 1},
           callStack' = [callStack EXCEPT ![Len(callStack)].traps = x]
    PROVE  AbstractStep
<1> DEFINE F == FramesThatStay(callStack, FALSE)
<1>1. callStack \in Seq(CallSet)
  BY InvTypes
<1>2. /\ F # <<>> /\ Last(F).traps = Last(callStack).traps
      /\ FramesThatStay(callStack', FALSE) = TopRetrapped(F, x)
  BY <1>1, FramesRetrapped
<1>3. x \in Nat
  BY BoundAssumption
<1> HIDE DEF F
<1>4. Tries(F, TopRetrapped(F, x))
  BY <1>2, <1>3 DEF Tries
<1> QED BY <1>2, <1>4 DEF AbstractStep, FramesNow, F

\* Unwinding removes nothing that an exception does not.
LEMMA UnwindsTo ==
    ASSUME IInv, StillLeft, HandlersIn(callStack) # {}, leftProgram' \/ StaysInProgram, NEW v \in VMs,
           NEW checkers \in [VMs -> BOOLEAN], Unwind(v, checkers),
           callStack # <<>>, Last(callStack).vm = v
    PROVE  FramesThatStay(callStack', isUnwinding') = FramesThatStay(callStack, TRUE)
<1>1. callStack \in Seq(CallSet)
  BY InvTypes
<1>2. PICK h : TheHandler(callStack, h)
  BY <1>1, HandlerExists
<1>3. /\ h \in 1..Len(callStack) /\ h \in Nat /\ Len(callStack) \in Nat /\ Handles(callStack[h])
      /\ Last(callStack) = callStack[Len(callStack)]
  BY <1>1, <1>2, OnTop DEF TheHandler, HandlersIn
<1>4. CASE UnwindLibraryFunction(v, checkers)
  <2>1. callStack' = Front(callStack) /\ isUnwinding' = TRUE /\ ~Handles(Last(callStack))
    BY <1>4 DEF UnwindLibraryFunction, Handles, IsDeltaCodeContext
  <2>2. h # Len(callStack)
    BY <1>3, <2>1
  <2>3. Len(callStack) - 1 \in h..Len(callStack)
    BY <1>3, <2>2
  <2>4. Front(callStack) = SubSeq(callStack, 1, Len(callStack) - 1)
    BY <1>1, Popping
  <2> QED BY <1>1, <1>2, <2>1, <2>3, <2>4, FramesUnwound
<1>5. CASE UnwindDeltaCode(v, checkers)
  <2>1. ScriptOnTop(v)
    BY <1>5 DEF UnwindDeltaCode, ScriptOnTop
  <2>2. pc \in [VMs -> Counters]
    BY DEF IInv, TypeInv
  <2>3. Stacks(callStack, cpp, callTraces, expectedNativeTrapDisableCalls, error)
    BY Apart DEF StacksNow
  <2>4. PICK k : CutAt(k, v, checkers)
    BY <1>5, <2>1, <2>2, <2>3, UnwindCuts
  <2>5. /\ k \in 1..Len(callStack) /\ callStack' = SubSeq(callStack, 1, k)
        /\ \A i \in HandlersIn(callStack) : i <= k
        /\ isUnwinding' \in BOOLEAN
        /\ isUnwinding' = FALSE => Handles(callStack[k])
    BY <2>4 DEF CutAt, Handles
  <2>6. h <= k
    BY <1>2, <2>5 DEF TheHandler
  <2>7. k \in h..Len(callStack)
    BY <1>3, <2>5, <2>6
  <2>8. isUnwinding' = FALSE => k = h
    <3> SUFFICES ASSUME isUnwinding' = FALSE PROVE k = h
      OBVIOUS
    <3>1. k \in HandlersIn(callStack)
      BY <2>5 DEF HandlersIn
    <3>2. k <= h
      BY <1>2, <3>1 DEF TheHandler
    <3>3. k \in Nat
      BY <1>3, <2>5
    <3> QED BY <1>3, <2>6, <3>2, <3>3
  <2>9. CASE isUnwinding' = TRUE
    BY <1>1, <1>2, <2>5, <2>7, <2>9, FramesUnwound
  <2>10. CASE isUnwinding' = FALSE
    BY <1>1, <1>2, <2>5, <2>7, <2>8, <2>10, FramesUnwound
  <2> QED BY <2>5, <2>9, <2>10
<1> QED BY <1>4, <1>5 DEF Unwind

\* An exception is thrown.
LEMMA ExceptionStep ==
    ASSUME IInv, isUnwinding = FALSE, HandlersIn(callStack) # {},
           FramesThatStay(callStack', isUnwinding') = FramesThatStay(callStack, TRUE)
    PROVE  AbstractStep
<1>1. callStack \in Seq(CallSet)
  BY InvTypes
<1>2. PICK h : TheHandler(callStack, h)
  BY <1>1, HandlerExists
<1> DEFINE F == FramesThatStay(callStack, FALSE)
<1>3. \E c \in 1..Len(F) : /\ FramesThatStay(callStack, TRUE) = SubSeq(F, 1, c)
                           /\ HandlesFrame(F[c])
                           /\ \A k \in c + 1..Len(F) : ~HandlesFrame(F[k])
  BY <1>1, <1>2, FramesThrown
<1>4. Throws(F, FramesThatStay(callStack, TRUE))
  BY <1>3 DEF Throws
<1> QED BY <1>4 DEF AbstractStep, FramesNow

LEMMA ErrorStep ==
    ASSUME IInv, StillLeft, ~leftProgram', isUnwinding = FALSE, NEW v \in VMs, callStack # <<>>, Last(callStack).vm = v,
           ~IsLoop(Last(callStack)), HandlersIn(callStack) = {},
           NEW control, InvalidateExecution(v, control)
    PROVE  AbstractStep
<1>1. /\ callStack \in Seq(CallSet) /\ CallsNest(callStack) /\ callTraces \in Seq(TraceSet)
      /\ Traces(callTraces, callStack) /\ expectedNativeTrapDisableCalls = Cardinality(NativesIn(callStack))
      /\ Len(callStack) \in Nat
  BY Apart, OnTop DEF StacksNow, Stacks
<1>2. NoNatives(callStack)
  BY <1>1 DEF NoNatives, HandlersIn, Handles, IsNative
<1>3. expectedNativeTrapDisableCalls \in Nat
  BY <1>1, PositionTypes, FS_CardinalityType
<1>4. PICK n : FailsAt(n, v, control)
  BY <1>1, <1>2, <1>3, ErrorTakes
<1>5. /\ n \in 0..Len(callStack) - 1 /\ callStack' = SubSeq(callStack, 1, n) /\ isUnwinding' = FALSE
      /\ CutsApart(callStack, n) /\ \A k \in 0..Len(callStack) - 1 : CutsApart(callStack, k) => k <= n
  BY <1>4 DEF FailsAt
<1> DEFINE F == FramesThatStay(callStack, FALSE)
<1>6. /\ \A k \in 1..Len(F) : ~HandlesFrame(F[k])
      /\ \E c \in 0..Len(F) - 1 :
            /\ CutsApart(F, c)
            /\ \A k \in c + 1..Len(F) - 1 : ~CutsApart(F, k)
            /\ FramesThatStay(callStack', FALSE) = SubSeq(F, 1, c)
  BY <1>2, <1>5, FramesFailed
<1>7. Fails(F, FramesThatStay(callStack', FALSE))
  <2> HIDE DEF F
  <2> QED BY <1>6 DEF Fails
<1> QED BY <1>5, <1>7 DEF AbstractStep, FramesNow

-----------------------------------------------------------------------------
(* Every step is one of the abstract specification.                        *)

\* Where script code is about to go on its call is on top.
LEMMA ScriptGoesOn ==
    ASSUME IInv, NEW v \in VMs, At(v, "code") \/ At(v, "trap")
    PROVE  /\ ScriptOnTop(v) /\ callStack # <<>>
           /\ pc[v] = "trap" => isUnwinding = FALSE /\ Last(callStack).traps > 0
<1>1. Executes(v)
  BY AtExec DEF At
<1>2. pc[v] = "trap" => isUnwinding = FALSE
  <2>1. pc[v] = "trap" => ~isUnwinding
    BY <1>1 DEF Executes
  <2> QED BY <2>1, InvTypes
<1> QED BY <1>1, <1>2 DEF Executes, ScriptOnTop

LEMMA FrameOfCall ==
    ASSUME NEW c, NEW v, NEW r
    PROVE  /\ FrameOf(Call(c, v, r)) = FrameOf(Call(c, v, "end"))
           /\ IsLoop(Call(c, v, r)) <=> c = "InExecutionLoop"
BY DEF FrameOf, Call, IsLoop

LEMMA CallSteps ==
    ASSUME IInv, StillLeft, ~astray', NEW v \in VMs,
           \/ Run(v) \/ ExtCall(v) \/ CallFunction(v) \/ CallLibrary(v)
           \/ \E w \in VMs : CallOther(v, w)
    PROVE  AbstractStep
<1>1. ASSUME Run(v) \/ ExtCall(v) PROVE AbstractStep
  <2>1. isUnwinding = FALSE /\ isUnwinding' = FALSE
    BY <1>1, InvTypes DEF Run, ExtCall, CallInNewLoop, AtNativeCode
  <2>2. \E x \in {"InDeltaFunction", "InDeltaGlobalCode"} :
           callStack' = callStack \o <<Call("InExecutionLoop", v, "end"), Call(x, v, "end")>>
    BY <1>1 DEF Run, ExtCall, CallInNewLoop
  <2> QED BY <2>1, <2>2, EnterLoopStep
<1>2. ASSUME NEW w \in VMs, CallOther(v, w) PROVE AbstractStep
  <2>1. isUnwinding = FALSE
    BY <1>2, NotDiverted DEF CallOther, CallInNewLoop
  <2>2. isUnwinding' = FALSE
        /\ callStack' = callStack \o <<Call("InExecutionLoop", w, "end"), Call("InDeltaFunction", w, "end")>>
    BY <1>2, <2>1 DEF CallOther, CallInNewLoop
  <2> QED BY <2>1, <2>2, EnterLoopStep
<1>3. ASSUME NEW x \in {"InDeltaFunction", "InLibraryFunction"}
      PROVE  /\ Call(x, v, "code") \in CallSet /\ FrameOf(Call(x, v, "code")) \in Entering
             /\ ~IsLoop(Call(x, v, "code")) /\ ~Handles(Call(x, v, "code"))
  <2>1. "code" \in Counters \ {"idle"}
    BY DEF Counters
  <2>2. Call(x, v, "code") \in CallSet
    BY <2>1, NewCalls
  <2>3. FrameOf(Call(x, v, "end")) \in Entering
    BY DEF Entering
  <2>4. ~Handles(Call(x, v, "code"))
    BY DEF Handles, Call
  <2> QED BY <2>2, <2>3, <2>4, FrameOfCall
<1>4. ASSUME NEW x \in {"InDeltaFunction", "InLibraryFunction"},
             isUnwinding = FALSE, isUnwinding' = FALSE, callStack' = Append(callStack, Call(x, v, "code"))
      PROVE  AbstractStep
  BY <1>3, <1>4, EnterStep
<1>5. ASSUME CallLibrary(v) PROVE AbstractStep
  <2>1. isUnwinding = FALSE
    BY <1>5, NotDiverted DEF CallLibrary
  <2> QED BY <1>4, <1>5, <2>1 DEF CallLibrary
<1>6. ASSUME CallFunction(v) PROVE AbstractStep
  <2>1. callStack' = Append(callStack, Call("InDeltaFunction", v, "code")) /\ isUnwinding' = isUnwinding
    BY <1>6 DEF CallFunction
  <2>2. CASE isUnwinding = FALSE
    BY <1>4, <2>1, <2>2
  <2>3. CASE isUnwinding = TRUE
    <3>1. HandlersIn(callStack) # {}
      BY <2>3 DEF IInv, ControlInv
    <3>2. FramesThatStay(callStack', TRUE) = FramesThatStay(callStack, TRUE)
      BY <1>3, <2>1, <3>1, InvTypes, FramesKeptPushed
    <3> QED BY <2>1, <2>3, <3>2 DEF AbstractStep, FramesNow
  <2> QED BY <2>2, <2>3, InvTypes
<1> QED BY <1>1, <1>2, <1>5, <1>6

LEMMA NativeTrySteps ==
    ASSUME IInv, NativeTry \/ NativeTrapDisable \/ NativeTrap
    PROVE  AbstractStep
<1>1. ASSUME NativeTry PROVE AbstractStep
  <2>1. /\ isUnwinding = FALSE /\ isUnwinding' = FALSE
        /\ callStack' = Append(callStack, Call("InNativeCode", NoVM, "end"))
    BY <1>1, InvTypes DEF NativeTry, AtNativeCode
  <2>2. Call("InNativeCode", NoVM, "end") \in CallSet
    <3>1. CASE \E v \in VMs : TRUE
      BY <3>1, NewCalls
    <3>2. CASE VMs = {}
      BY BoundAssumption DEF Call, CallSet, Contexts, Counters, IsNative, IsDeltaCodeContext
    <3> QED BY <3>1, <3>2
  <2>3. /\ FrameOf(Call("InNativeCode", NoVM, "end")) \in Entering
        /\ ~IsLoop(Call("InNativeCode", NoVM, "end"))
    BY FrameOfCall DEF Entering
  <2> QED BY <2>1, <2>2, <2>3, EnterStep
<1>2. ASSUME Top("try"), NativeTrapDisable \/ NativeTrap
      PROVE  callStack # <<>> /\ IsNative(Last(callStack))
  <2>1. ~LibGone
    BY <1>2 DEF LibGone, Top
  <2>2. Last(cpp).valid
    BY <1>2, OnTop, FrameFacts DEF IInv, TypeInv, Top
  <2> QED BY <1>2, <2>1, <2>2, NativeFacts
<1>3. ASSUME NativeTrapDisable PROVE AbstractStep
  <2>1. Top("try") /\ isUnwinding = FALSE /\ isUnwinding' = FALSE
    BY <1>3, InvTypes DEF NativeTrapDisable
  <2>2. callStack' = Front(callStack) \/ callStack' = callStack
    BY <1>3 DEF NativeTrapDisable
  <2>3. callStack # <<>>
    BY <1>2, <1>3, <2>1
  <2>4. CASE callStack' = Front(callStack)
    BY <2>1, <2>3, <2>4, LeaveStep
  <2>5. CASE callStack' = callStack
    BY <2>1, <2>5, SameFramesStep
  <2> QED BY <2>2, <2>4, <2>5
<1>4. ASSUME NativeTrap PROVE AbstractStep
  <2>1. Top("try") /\ isUnwinding = TRUE /\ isUnwinding' = FALSE /\ callStack' = Front(callStack)
    BY <1>4, InvTypes DEF NativeTrap
  <2>2. callStack # <<>> /\ IsNative(Last(callStack)) /\ callStack \in Seq(CallSet)
    BY <1>2, <1>4, <2>1, InvTypes
  <2>3. FramesThatStay(callStack, TRUE) = FramesThatStay(callStack, FALSE)
    <3>1. /\ Len(callStack) \in 1..Len(callStack) /\ Last(callStack) = callStack[Len(callStack)]
          /\ Len(callStack) \in Nat
      BY <2>2, OnTop
    <3>2. Len(callStack) \in HandlersIn(callStack)
      BY <2>2, <3>1 DEF HandlersIn, Handles, IsNative
    <3>3. TheHandler(callStack, Len(callStack))
      BY <2>2, <3>1, <3>2, PositionTypes DEF TheHandler
    <3>4. FramesThatStay(SubSeq(callStack, 1, Len(callStack)), FALSE) = FramesThatStay(callStack, TRUE)
      <4>1. Len(callStack) \in Len(callStack)..Len(callStack)
        BY <3>1
      <4> QED BY <2>2, <3>3, <4>1, FramesUnwound
    <3>5. SubSeq(callStack, 1, Len(callStack)) = callStack
      BY <2>2
    <3> QED BY <3>4, <3>5
  <2>4. ~IsLoop(Last(callStack))
    BY <2>2 DEF IsNative, IsLoop
  <2>5. /\ FramesThatStay(callStack, FALSE) # <<>>
        /\ FramesThatStay(callStack', FALSE) = Front(FramesThatStay(callStack, FALSE))
    BY <2>1, <2>2, <2>4, FramesPopped
  <2> QED BY <2>1, <2>3, <2>5 DEF AbstractStep, FramesNow, Leaves
<1> QED BY <1>1, <1>3, <1>4

LEMMA ReturnSteps ==
    ASSUME IInv, StillLeft, ~astray', LibReturn \/ \E v \in VMs : FuncReturn(v) \/ ProgramEnd(v)
    PROVE  AbstractStep
<1>1. ASSUME NEW v \in VMs, FuncReturn(v) \/ ProgramEnd(v) PROVE AbstractStep
  <2>1. At(v, "code") /\ callStack' = Front(callStack) /\ UNCHANGED isUnwinding
    BY <1>1 DEF FuncReturn, ProgramEnd
  <2>2. callStack # <<>> /\ callStack \in Seq(CallSet)
    BY <2>1, ScriptGoesOn, InvTypes
  <2>3. CASE isUnwinding = FALSE
    BY <2>1, <2>2, <2>3, LeaveStep
  <2>4. CASE isUnwinding = TRUE
    <3>1. FuncReturn(v)
      <4>1. ~ProgramEnd(v)
        BY <2>4, NotDiverted DEF ProgramEnd
      <4> QED BY <1>1, <4>1
    <3>2. ~(Last(callStack).traps > 0) /\ Last(callStack).context = "InDeltaFunction"
      BY <2>4, <3>1 DEF FuncReturn, ReturnDiverts
    <3>3. ~Handles(Last(callStack)) /\ HandlersIn(callStack) # {}
      BY <2>4, <3>2 DEF Handles, IInv, ControlInv
    <3>4. FramesThatStay(callStack', TRUE) = FramesThatStay(callStack, TRUE)
      BY <2>1, <2>2, <3>3, FramesKeptPopped
    <3> QED BY <2>1, <2>4, <3>4 DEF AbstractStep, FramesNow
  <2> QED BY <2>3, <2>4, InvTypes
<1>2. ASSUME LibReturn PROVE AbstractStep
  <2>1. Top("lib") /\ UNCHANGED isUnwinding
    BY <1>2 DEF LibReturn
  <2>2. CASE Last(cpp).valid /\ ~error[Last(cpp).vm] /\ ~isUnwinding
    <3>1. callStack' = Front(callStack)
      BY <1>2, <2>2 DEF LibReturn
    <3>2. isUnwinding = FALSE
      BY <2>2, InvTypes
    <3>3. callStack # <<>>
      BY <2>1, <2>2, NativeFacts DEF LibGone
    <3> QED BY <2>1, <3>1, <3>2, <3>3, LeaveStep
  <2>3. CASE ~(Last(cpp).valid /\ ~error[Last(cpp).vm] /\ ~isUnwinding)
    <3>1. UNCHANGED callStack
      BY <1>2, <2>3 DEF LibReturn
    <3> QED BY <2>1, <3>1, SameFramesStep
  <2> QED BY <2>2, <2>3
<1> QED BY <1>1, <1>2

LEMMA TrapSteps ==
    ASSUME IInv, StillLeft, ~astray', NEW v \in VMs, TrapEnable(v) \/ TrapDisable(v) \/ Trap(v)
    PROVE  AbstractStep
<1>1. (At(v, "code") \/ At(v, "trap")) /\ UNCHANGED isUnwinding
  BY DEF TrapEnable, TrapDisable, Trap
<1>2. /\ isUnwinding = FALSE /\ ScriptOnTop(v) /\ callStack # <<>>
      /\ pc[v] = "trap" => Last(callStack).traps > 0
  <2>1. /\ ScriptOnTop(v) /\ callStack # <<>>
        /\ pc[v] = "trap" => isUnwinding = FALSE /\ Last(callStack).traps > 0
    BY <1>1, ScriptGoesOn
  <2>2. CASE Trap(v)
    BY <2>1, <2>2 DEF Trap, At
  <2>3. CASE TrapEnable(v) \/ TrapDisable(v)
    <3>1. isUnwinding = FALSE
      BY <2>3, NotDiverted DEF TrapEnable, TrapDisable
    <3> QED BY <2>1, <3>1
  <2> QED BY <2>2, <2>3
<1>3. /\ Last(callStack).traps \in 0..MaxTraps /\ Last(callStack) = callStack[Len(callStack)]
  BY <1>2, InvTypes, OnTop DEF CallSet
<1>4. \E x \in 0..MaxTraps : /\ x \in {Last(callStack).traps + 1, Last(callStack).traps - 1}
                             /\ callStack' = [callStack EXCEPT ![Len(callStack)].traps = x]
  <2>1. CASE TrapEnable(v)
    <3>1. /\ Last(callStack).traps + 1 \in 0..MaxTraps
          /\ callStack' = [callStack EXCEPT ![Len(callStack)].traps = Last(callStack).traps + 1]
      BY <1>3, <2>1, BoundAssumption DEF TrapEnable
    <3> QED BY <3>1
  <2>2. CASE TrapDisable(v) \/ Trap(v)
    <3>1. /\ Last(callStack).traps - 1 \in 0..MaxTraps
          /\ callStack' = [callStack EXCEPT ![Len(callStack)].traps = Last(callStack).traps - 1]
      BY <1>2, <1>3, <2>2, BoundAssumption DEF TrapDisable, Trap, At
    <3> QED BY <3>1
  <2> QED BY <2>1, <2>2
<1>5. isUnwinding' = FALSE /\ IsDeltaCodeContext(Last(callStack))
  BY <1>1, <1>2 DEF ScriptOnTop
<1> QED BY <1>2, <1>4, <1>5, TryStep

\* A throw or an error of the virtual machine on top.
LEMMA ThrowSteps ==
    ASSUME IInv, StillLeft, ~astray', isUnwinding = FALSE, NEW v \in VMs, callStack # <<>>,
           Last(callStack).vm = v, ~IsLoop(Last(callStack)), NEW control, Throw(v, control)
    PROVE  AbstractStep
<1>1. CASE IsThereAnyTrapBlock
  <2>1. (leftProgram' \/ StaysInProgram) /\ Unwind(v, UnwindingCheckers)
    BY <1>1, ThrowFacts
  <2>2. HandlersIn(callStack) # {}
    BY <1>1 DEF IsThereAnyTrapBlock, Handlers, HandlersIn
  <2>3. UnwindingCheckers \in [VMs -> BOOLEAN]
    BY Apart DEF UnwindingCheckers, Others
  <2>4. FramesThatStay(callStack', isUnwinding') = FramesThatStay(callStack, TRUE)
    BY <2>1, <2>2, <2>3, UnwindsTo
  <2> QED BY <2>2, <2>4, ExceptionStep
<1>2. CASE ~IsThereAnyTrapBlock
  <2>1. InvalidateExecution(v, control) /\ ~leftProgram'
    BY <1>2, ThrowFacts
  <2>3. HandlersIn(callStack) = {}
    BY <1>2 DEF IsThereAnyTrapBlock, Handlers, HandlersIn
  <2> QED BY <2>1, <2>3, ErrorStep
<1> QED BY <1>1, <1>2

LEMMA LibThrowSteps ==
    ASSUME IInv, StillLeft, ~astray', LibThrow \/ NativeThrow
    PROVE  AbstractStep
<1>1. Top("lib") /\ isUnwinding = FALSE /\ Last(cpp).valid
  BY InvTypes DEF LibThrow, NativeThrow
<1>2. /\ cpp # <<>> /\ Last(cpp).what = "lib" /\ ~LibGone /\ cpp \in Seq(FrameSet)
  BY <1>1 DEF Top, LibGone, IInv, TypeInv
<1>3. Last(cpp).vm \in VMs
  BY <1>2, OnTop, FrameFacts
<1>4. callStack # <<>> /\ Last(callStack).vm = Last(cpp).vm /\ ~IsLoop(Last(callStack))
  BY <1>1, <1>2, NativeFacts DEF IsLib, IsLoop
<1>5. CASE LibThrow
  <2>1. Throw(Last(cpp).vm, cpp)
    BY <1>5 DEF LibThrow
  <2> QED BY <1>1, <1>3, <1>4, <2>1, ThrowSteps
<1>6. CASE NativeThrow
  <2>1. callStack' = callStack /\ isUnwinding' = TRUE /\ IsThereAnyTrapBlock
    BY <1>6 DEF NativeThrow
  <2>2. HandlersIn(callStack) # {}
    BY <2>1 DEF IsThereAnyTrapBlock, Handlers, HandlersIn
  <2> QED BY <1>1, <2>1, <2>2, ExceptionStep
<1> QED BY <1>5, <1>6

LEMMA ScriptThrowSteps ==
    ASSUME IInv, StillLeft, ~astray', NEW v \in VMs, ThrowOrFail(v)
    PROVE  AbstractStep
<1>1. At(v, "code") /\ Throw(v, Executed)
  BY DEF ThrowOrFail
<1>2. isUnwinding = FALSE /\ ScriptOnTop(v) /\ callStack # <<>>
  BY <1>1, ScriptGoesOn, ThrowFacts
<1>3. Last(callStack).vm = v /\ ~IsLoop(Last(callStack))
  BY <1>2 DEF ScriptOnTop, IsLoop, IsDeltaCodeContext
<1> QED BY <1>1, <1>2, <1>3, ThrowSteps

LEMMA CrossReturnSteps ==
    ASSUME IInv, StillLeft, ~astray', CrossReturn
    PROVE  AbstractStep
<1> DEFINE v == Last(cpp).vm
           failed == ~isUnwinding /\ error[Last(cpp).callee] /\ ~error[v]
<1>1. Top("cross") /\ cpp # <<>> /\ Last(cpp).what = "cross" /\ cpp \in Seq(FrameSet)
  BY DEF CrossReturn, Top, IInv, TypeInv
<1>2. CASE failed
  <2>1. Throw(v, Front(cpp))
    BY <1>2 DEF CrossReturn
  <2>2. v \in VMs /\ v # NoVM
    BY <1>1, OnTop, FrameFacts, NoVMAssumption
  <2>3. Last(cpp).valid
    BY <1>1, <1>2, <2>2, OnTop DEF IInv, ErrorInv
  <2>4. ScriptOnTop(v) /\ isUnwinding = FALSE
    BY <1>1, <1>2, <2>3, CrossFacts, InvTypes
  <2>5. callStack # <<>> /\ Last(callStack).vm = v /\ ~IsLoop(Last(callStack))
    BY <2>4 DEF ScriptOnTop, IsLoop, IsDeltaCodeContext
  <2> HIDE DEF v
  <2> QED BY <2>1, <2>2, <2>4, <2>5, ThrowSteps
<1>3. CASE ~failed
  <2>1. UNCHANGED <<callStack, isUnwinding>>
    BY <1>3 DEF CrossReturn, exceptionVars
  <2> QED BY <2>1, SameFramesStep
<1> QED BY <1>2, <1>3

\* The loop that unwinds script code, and the one that is left.
LEMMA LoopUnwindsSteps ==
    ASSUME IInv, StillLeft, NEW v \in VMs, LoopUnwinds(v)
    PROVE  AbstractStep
<1>1. InLoop(v, "check") /\ Last(cpp).valid /\ isUnwinding = TRUE
  BY InvTypes DEF LoopUnwinds
<1>2. CASE ~shouldUnwind
  <2>1. UNCHANGED <<callStack, isUnwinding>>
    BY <1>2 DEF LoopUnwinds, exceptionVars
  <2> QED BY <2>1, SameFramesStep
<1>3. CASE shouldUnwind
  <2>1. Unwind(v, checker)
    BY <1>3 DEF LoopUnwinds
  <2>2. Top("loop") /\ Last(cpp).vm = v
    BY <1>1 DEF InLoop
  <2>3. callStack # <<>> /\ Last(callStack).vm = v
    BY <1>1, <2>2, LoopFacts
  <2>4. /\ HandlersIn(callStack) # {} /\ (leftProgram' \/ StaysInProgram)
        /\ checker \in [VMs -> BOOLEAN]
    BY <1>1, Apart DEF ControlInv, Others, StillLeft
  <2>5. FramesThatStay(callStack', isUnwinding') = FramesThatStay(callStack, TRUE)
    BY <2>1, <2>3, <2>4, UnwindsTo
  <2> QED BY <1>1, <2>5 DEF AbstractStep, FramesNow
<1> QED BY <1>2, <1>3

LEMMA LoopExitSteps ==
    ASSUME IInv, StillLeft, NEW v \in VMs, LoopExit(v)
    PROVE  AbstractStep
<1>1. /\ Top("loop") /\ cpp # <<>> /\ Last(cpp).vm = v /\ Last(cpp).phase = "exit"
      /\ cpp \in Seq(FrameSet) /\ v # NoVM /\ UNCHANGED isUnwinding
  BY NoVMAssumption DEF LoopExit, InLoop, Top, IInv, TypeInv
<1>2. Last(cpp).valid <=> ~error[v]
  BY <1>1, OnTop DEF IInv, ErrorInv
<1>3. CASE error[v]
  <2>1. UNCHANGED callStack
    BY <1>3 DEF LoopExit
  <2> QED BY <1>1, <2>1, SameFramesStep
<1>4. CASE ~error[v]
  <2>1. callStack' = Front(callStack)
    BY <1>4 DEF LoopExit
  <2>2. callStack # <<>> /\ IsLoop(Last(callStack)) /\ callStack \in Seq(CallSet)
    BY <1>1, <1>2, <1>4, Apart, InvTypes DEF ControlInv, LoopInv, Exits, LoopOnTop
  <2>3. CASE isUnwinding = FALSE
    BY <1>1, <2>1, <2>2, <2>3, LeaveStep
  <2>4. CASE isUnwinding = TRUE
    <3>1. HandlersIn(callStack) # {}
      BY <2>4, Apart DEF ControlInv
    <3>2. ~Handles(Last(callStack))
      BY <2>2 DEF Handles, IsLoop, IsDeltaCodeContext
    <3>3. FramesThatStay(callStack', TRUE) = FramesThatStay(callStack, TRUE)
      BY <2>1, <2>2, <3>1, <3>2, FramesKeptPopped
    <3> QED BY <1>1, <2>4, <3>3 DEF AbstractStep, FramesNow
  <2> QED BY <2>3, <2>4, InvTypes
<1> QED BY <1>3, <1>4

LEMMA EveryStep ==
    ASSUME IInv, ~astray', [Next]_vars
    PROVE  AbstractStep
<1>0. StillLeft
  BY HistoryStep DEF StillLeft, HistoryGrows
<1>1. ASSUME UNCHANGED vars PROVE AbstractStep
  BY <1>1, SameFramesStep DEF vars, exceptionVars
<1>2. ASSUME NativeCode PROVE AbstractStep
  <2>1. ASSUME NEW v \in VMs, Run(v) \/ ExtCall(v) PROVE AbstractStep
    BY <1>0, <2>1, CallSteps
  <2>2. ASSUME ResetRunTimeErrors PROVE AbstractStep
    BY <2>2, SameFramesStep DEF ResetRunTimeErrors, exceptionVars
  <2> QED BY <1>0, <1>2, <2>1, <2>2, NativeTrySteps, LibThrowSteps, ReturnSteps DEF NativeCode
<1>3. ASSUME NEW v \in VMs, Instruction(v) PROVE AbstractStep
  <2>1. CASE CallFunction(v) \/ CallLibrary(v) \/ \E w \in VMs : CallOther(v, w)
    BY <1>0, <2>1, CallSteps
  <2>2. CASE FuncReturn(v) \/ ProgramEnd(v)
    BY <1>0, <2>2, ReturnSteps
  <2>3. CASE OtherInstruction(v)
    BY <2>3, SameFramesStep DEF OtherInstruction, exceptionVars
  <2>4. CASE TrapEnable(v) \/ TrapDisable(v) \/ Trap(v)
    BY <1>0, <2>4, TrapSteps
  <2>5. CASE ThrowOrFail(v)
    BY <1>0, <2>5, ScriptThrowSteps
  <2> QED BY <1>3, <2>1, <2>2, <2>3, <2>4, <2>5 DEF Instruction
<1>4. ASSUME NEW v \in VMs, ExecutionLoop(v) PROVE AbstractStep
  <2>1. CASE LoopFailed(v) \/ LoopGoesOn(v) \/ LoopUnwound(v)
    BY <2>1, SameFramesStep DEF LoopFailed, LoopGoesOn, LoopUnwound, exceptionVars
  <2> QED BY <1>0, <1>4, <2>1, LoopUnwindsSteps, LoopExitSteps DEF ExecutionLoop
<1> QED BY <1>0, <1>1, <1>2, <1>3, <1>4, CrossReturnSteps DEF Next

LEMMA StepRefines ==
    ASSUME IInv, AbstractStep
    PROVE  [Semantics!Next]_(FramesThatStay(callStack, isUnwinding))
<1> DEFINE F == FramesThatStay(callStack, isUnwinding)
           G == FramesThatStay(callStack', isUnwinding')
<1>1. G = F \/ Enters(F, G) \/ Leaves(F, G) \/ Tries(F, G) \/ Throws(F, G) \/ Fails(F, G)
  BY DEF AbstractStep, FramesNow
<1>2. Enters(F, G) => Semantics!Enter
  <2> SUFFICES ASSUME Enters(F, G) PROVE Semantics!Enter
    OBVIOUS
  <2>1. PICK f \in Entering : G = Append(F, f)
    BY DEF Enters
  <2>2. F \in Seq(FrameTypes)
    <3>1. \E m : Lists(m, FramesThatStay(callStack, isUnwinding), StayIn(callStack, isUnwinding), callStack)
      BY InvTypes, FramesAreListed
    <3> QED BY <3>1 DEF Lists
  <2>3. f \in FrameTypes
    BY BoundAssumption DEF Entering, FrameTypes, FrameOf, Call, Contexts
  <2> HIDE DEF F, G
  <2>4. /\ G \in Seq(FrameTypes) /\ G # <<>> /\ Len(F) \in Nat /\ Len(G) = Len(F) + 1
        /\ \A i \in 1..Len(F) : G[i] = F[i]
        /\ Last(G) = f
    BY <2>1, <2>2, <2>3, Pushing
  <2>5. Front(G) = F
    <3>1. /\ Front(G) \in Seq(FrameTypes) /\ Len(Front(G)) = Len(F)
          /\ \A i \in 1..Len(F) : Front(G)[i] = F[i]
      BY <2>4, Popping
    <3> QED BY <2>2, <3>1, SeqEqual
  <2>6. Semantics!Last(G) = Last(G) /\ Semantics!Front(G) = Front(G)
    BY DEF Last, Semantics!Last, Front, Semantics!Front
  <2> QED BY <2>1, <2>4, <2>5, <2>6 DEF Semantics!Enter, Entering, F, G
<1>3. Leaves(F, G) => Semantics!Leave
  BY DEF Leaves, Semantics!Leave, Front, Semantics!Front
<1>4. Tries(F, G) => Semantics!Try
  BY DEF Tries, TopRetrapped, Semantics!Try, Last, Semantics!Last
<1>5. Throws(F, G) => Semantics!Throw
  BY DEF Throws, HandlesFrame, Semantics!Throw, Semantics!IsHandler, Semantics!Handles
<1>6. Fails(F, G) => Semantics!Fail
  BY DEF Fails, HandlesFrame, CutsApart, Semantics!Fail, Semantics!Separates, Semantics!Handles
<1> QED BY <1>1, <1>2, <1>3, <1>4, <1>5, <1>6 DEF Semantics!Next

LEMMA StartRefines ==
    ASSUME Init
    PROVE  Semantics!Init
<1>1. callStack = <<>>
  BY DEF Init
<1>2. StayIn(callStack, isUnwinding) = {}
  BY <1>1 DEF StayIn
<1>3. Cardinality({}) = 0
  BY FS_EmptySet
<1>4. Len(FramesThatStay(callStack, isUnwinding)) = 0
      /\ FramesThatStay(callStack, isUnwinding) \in Seq(FrameTypes)
  <2>1. callStack \in Seq(CallSet)
    BY <1>1
  <2>2. PICK m : Lists(m, FramesThatStay(callStack, isUnwinding), {}, callStack)
    BY <1>2, <2>1, FramesAreListed
  <2>3. /\ FramesThatStay(callStack, isUnwinding) \in Seq(FrameTypes)
        /\ Len(FramesThatStay(callStack, isUnwinding)) \in Nat
        /\ \A k \in 1..Len(FramesThatStay(callStack, isUnwinding)) : m[k] \in {}
    <3> DEFINE F == FramesThatStay(callStack, isUnwinding)
               P == {}
    <3>1. Lists(m, F, P, callStack) /\ P \in SUBSET Int
      BY <2>2
    <3> HIDE DEF F, P
    <3>2. F \in Seq(FrameTypes) /\ Len(F) \in Nat /\ \A k \in 1..Len(F) : m[k] \in P
      BY <3>1, ListFacts
    <3> QED BY <3>2 DEF F, P
  <2> DEFINE n == Len(FramesThatStay(callStack, isUnwinding))
  <2>4. n \in Nat /\ 1 \notin 1..n
    BY <2>3
  <2> QED BY <2>3, <2>4
<1>5. FramesThatStay(callStack, isUnwinding) = <<>>
  BY <1>4, OnTop
<1> QED BY <1>5 DEF Semantics!Init

\* The calls as a program sees them: a throw takes those above its handler at
\* once and no other, an error those that fail with its virtual machine.
THEOREM ThrowsAreImplemented == Spec => ImplementsThrowSemantics
<1>1. Init => Semantics!Init
  BY StartRefines
<1>2. (OnCourse => IInv) /\ [Next]_vars
         => [Semantics!Next \/ astray']_(FramesThatStay(callStack, isUnwinding))
  <2>1. astray /\ [Next]_vars => astray'
    BY HistoryStep DEF HistoryGrows
  <2>2. IInv /\ ~astray' /\ [Next]_vars => [Semantics!Next]_(FramesThatStay(callStack, isUnwinding))
    BY EveryStep, StepRefines
  <2> QED BY <2>1, <2>2 DEF OnCourse
<1> QED BY <1>1, <1>2, StacksStayInStep, PTL DEF Spec, ImplementsThrowSemantics
=============================================================================
