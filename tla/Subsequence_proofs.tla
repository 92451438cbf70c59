-------------------------- MODULE Subsequence_proofs --------------------------
(***************************************************************************)
(* What is kept of a list when elements are erased.  The places that stay  *)
(* and their ranks are in bijection, because a rank grows from each place  *)
(* to the next and there are as many ranks as places.                      *)
(***************************************************************************)
EXTENDS Subsequence, FiniteSetTheorems, SequenceTheorems, WellFoundedInduction,
        TLAPS

\* A set of numbers that is not empty has a least one.
LEMMA LeastNatural ==
  ASSUME NEW T \in SUBSET Nat, T # {}
  PROVE  \E m \in T : \A n \in T : m <= n
<1> DEFINE R == OpToRel(<, Nat)
<1>1. IsWellFoundedOn(R, Nat)
  BY NatLessThanWellFounded
<1>2. PICK m \in T : \A n \in T : <<n, m>> \notin R
  <2> HIDE DEF R
  <2>1. QED
    BY <1>1, WFMin
<1>3. \A n \in T : ~(n < m)
  BY <1>2 DEF OpToRel
<1>4. QED
  BY <1>3

\* The ranks of a finite set of places are 1 .. its size, and grow.
LEMMA RankGrows ==
  ASSUME NEW n \in Nat, NEW places \in SUBSET (1..n)
  PROVE  /\ IsFiniteSet(places) /\ Cardinality(places) \in Nat
         /\ \A i \in places : Rank(places, i) \in 1..Cardinality(places)
         /\ \A i, j \in places : i < j => Rank(places, i) < Rank(places, j)
<1> DEFINE Upto(i) == {j \in places : j <= i}
<1>1. IsFiniteSet(places) /\ Cardinality(places) \in Nat
  <2>1. IsFiniteSet(1..n)
    BY FS_Interval
  <2>2. IsFiniteSet(places)
    BY <2>1, FS_Subset
  <2>3. QED
    BY <2>2, FS_CardinalityType
<1>2. ASSUME NEW i \in places
      PROVE  /\ IsFiniteSet(Upto(i)) /\ Cardinality(Upto(i)) \in Nat
             /\ Cardinality(Upto(i)) <= Cardinality(places)
             /\ Cardinality(Upto(i)) # 0
  <2>1. Upto(i) \in SUBSET places /\ i \in Upto(i)
    OBVIOUS
  <2>2. IsFiniteSet(Upto(i)) /\ Cardinality(Upto(i)) <= Cardinality(places)
    BY <1>1, <2>1, FS_Subset
  <2>3. QED
    BY <2>1, <2>2, FS_CardinalityType, FS_EmptySet
<1>3. \A i \in places : Rank(places, i) \in 1..Cardinality(places)
  BY <1>1, <1>2 DEF Rank
<1>4. ASSUME NEW i \in places, NEW j \in places, i < j
      PROVE  Rank(places, i) < Rank(places, j)
  <2>1. Upto(i) \in SUBSET Upto(j) /\ j \in Upto(j) /\ j \notin Upto(i)
    <3>1. places \subseteq Nat
      OBVIOUS
    <3>2. \A m \in places : m <= i => m <= j
      BY <3>1, <1>4
    <3>3. ~(j <= i) /\ j <= j
      BY <3>1, <1>4
    <3>4. QED
      BY <3>1, <3>2, <3>3
  <2>2. /\ Cardinality(Upto(i)) <= Cardinality(Upto(j))
        /\ Cardinality(Upto(i)) # Cardinality(Upto(j))
    <3>1. Upto(i) # Upto(j)
      BY <2>1
    <3>2. IsFiniteSet(Upto(j))
      BY <1>2
    <3> HIDE DEF Upto
    <3>3. QED
      BY <2>1, <3>1, <3>2, FS_Subset
  <2>3. QED
    BY <1>2, <2>2 DEF Rank
<1>5. QED
  BY <1>1, <1>3, <1>4

\* Place is the way back from a rank to its place, and grows with it.
LEMMA PlaceOfRank ==
  ASSUME NEW n \in Nat, NEW places \in SUBSET (1..n)
  PROVE  /\ \A k \in 1..Cardinality(places) :
              Place(places, k) \in places /\ Rank(places, Place(places, k)) = k
         /\ \A i \in places : Place(places, Rank(places, i)) = i
         /\ \A k, m \in 1..Cardinality(places) :
              k < m => Place(places, k) < Place(places, m)
<1> DEFINE ranks == 1..Cardinality(places)
           rank == [i \in places |-> Rank(places, i)]
<1>1. /\ Cardinality(places) \in Nat /\ IsFiniteSet(places)
      /\ \A i \in places : Rank(places, i) \in ranks
      /\ \A i, j \in places : i < j => Rank(places, i) < Rank(places, j)
  BY RankGrows
<1>2. IsFiniteSet(ranks) /\ Cardinality(ranks) = Cardinality(places)
  BY <1>1, FS_Interval
<1>3. \A i, j \in places : Rank(places, i) = Rank(places, j) => i = j
  <2>1. SUFFICES ASSUME NEW i \in places, NEW j \in places, i # j
                 PROVE  Rank(places, i) # Rank(places, j)
    OBVIOUS
  <2>2. i \in Nat /\ j \in Nat /\ (i < j \/ j < i)
    BY <2>1
  <2>3. Rank(places, i) \in Nat /\ Rank(places, j) \in Nat
    BY <1>1
  <2>4. QED
    BY <2>2, <2>3, <1>1
<1>4. rank \in Injection(places, ranks)
  BY <1>1, <1>3 DEF Injection, IsInjective
<1>5. rank \in Surjection(places, ranks)
  <2> HIDE DEF rank, ranks
  <2>1. QED
    BY <1>2, <1>4, FS_Injection
<1>6. \A k \in ranks : \E i \in places : Rank(places, i) = k
  BY <1>5 DEF Surjection
<1>7. \A k \in ranks : Place(places, k) \in places /\ Rank(places, Place(places, k)) = k
  BY <1>6 DEF Place
<1>8. \A i \in places : Place(places, Rank(places, i)) = i
  BY <1>1, <1>3, <1>7
<1>9. ASSUME NEW k \in ranks, NEW m \in ranks, k < m
      PROVE  Place(places, k) < Place(places, m)
  <2>1. Place(places, k) \in Nat /\ Place(places, m) \in Nat
    <3>1. places \subseteq Nat
      OBVIOUS
    <3>2. QED
      BY <3>1, <1>7
  <2>2. ~(Place(places, m) < Place(places, k)) /\ Place(places, m) # Place(places, k)
    <3>1. /\ Place(places, k) \in places /\ Place(places, m) \in places
          /\ Rank(places, Place(places, k)) = k /\ Rank(places, Place(places, m)) = m
      BY <1>7
    <3>2. k \in Nat /\ m \in Nat /\ ~(m < k) /\ m # k
      BY <1>1, <1>9
    <3>3. QED
      BY <3>1, <3>2, <1>1
  <2>3. QED
    BY <2>1, <2>2
<1>10. QED
  BY <1>7, <1>8, <1>9

\* What is kept of a sequence is a sequence of the same elements, those at the
\* places, in their order.
LEMMA KeptIsSubsequence ==
  ASSUME NEW S, NEW s \in Seq(S), NEW places \in SUBSET (1..Len(s))
  PROVE  /\ KeptAt(s, places) \in Seq(S)
         /\ Len(KeptAt(s, places)) = Cardinality(places)
         /\ Cardinality(places) \in Nat
         /\ \A k \in 1..Cardinality(places) :
              Place(places, k) \in places /\ KeptAt(s, places)[k] = s[Place(places, k)]
         /\ \A i \in places : \E k \in 1..Cardinality(places) : Place(places, k) = i
         /\ \A k, m \in 1..Cardinality(places) :
              k < m => Place(places, k) < Place(places, m)
<1> DEFINE size == Cardinality(places)
<1>1. Len(s) \in Nat /\ \A i \in 1..Len(s) : s[i] \in S
  BY LenProperties, ElementOfSeq
<1>2. size \in Nat /\ \A i \in places : Rank(places, i) \in 1..size
  BY <1>1, RankGrows
<1>3. /\ \A k \in 1..size : Place(places, k) \in places
      /\ \A i \in places : Place(places, Rank(places, i)) = i
      /\ \A k, m \in 1..size : k < m => Place(places, k) < Place(places, m)
  BY <1>1, PlaceOfRank
<1>4. KeptAt(s, places) = [k \in 1..size |-> s[Place(places, k)]]
  BY DEF KeptAt
<1>5. \A k \in 1..size : s[Place(places, k)] \in S
  BY <1>1, <1>3
<1>6. KeptAt(s, places) \in [1..size -> S]
  BY <1>4, <1>5
<1>7. KeptAt(s, places) \in Seq(S) /\ Len(KeptAt(s, places)) = size
  <2>1. KeptAt(s, places) \in Seq(S)
    BY <1>2, <1>6, SeqDef
  <2>2. DOMAIN KeptAt(s, places) = 1..size
    BY <1>6
  <2>3. QED
    BY <2>1, <2>2, <1>2, LenProperties
<1>8. QED
  BY <1>2, <1>3, <1>4, <1>7

\* Without erases what is gone, keeps the rest, and brings nothing twice.
LEMMA WithoutFacts ==
  ASSUME NEW S, NEW s \in Seq(S), NEW gone
  PROVE  /\ Without(s, gone) \in Seq(S)
         /\ Elements(Without(s, gone)) = Elements(s) \ gone
         /\ Distinct(s) => Distinct(Without(s, gone))
         /\ Elements(s) \subseteq gone => Without(s, gone) = <<>>
<1> DEFINE places == {i \in 1..Len(s) : s[i] \notin gone}
           t == KeptAt(s, places)
<1>1. Without(s, gone) = t
  BY DEF Without
<1>2. /\ t \in Seq(S)
      /\ Len(t) = Cardinality(places) /\ Cardinality(places) \in Nat
      /\ \A k \in 1..Cardinality(places) :
           Place(places, k) \in places /\ t[k] = s[Place(places, k)]
      /\ \A i \in places : \E k \in 1..Cardinality(places) : Place(places, k) = i
      /\ \A k, m \in 1..Cardinality(places) :
           k < m => Place(places, k) < Place(places, m)
  <2>1. places \in SUBSET (1..Len(s))
    OBVIOUS
  <2> HIDE DEF places
  <2>2. QED
    BY <2>1, KeptIsSubsequence
<1>3. Elements(t) = Elements(s) \ gone
  <2>1. ASSUME NEW k \in 1..Len(t) PROVE t[k] \in Elements(s) \ gone
    BY <1>2 DEF Elements
  <2>2. ASSUME NEW i \in 1..Len(s), s[i] \notin gone PROVE s[i] \in Elements(t)
    <3>1. i \in places
      BY <2>2
    <3>2. QED
      BY <1>2, <3>1 DEF Elements
  <2> HIDE DEF t
  <2>3. QED
    BY <2>1, <2>2 DEF Elements
<1>4. ASSUME Distinct(s) PROVE Distinct(t)
  <2>1. SUFFICES ASSUME NEW k \in 1..Len(t), NEW m \in 1..Len(t), t[k] = t[m], k < m
                 PROVE  FALSE
    BY <1>2 DEF Distinct
  <2>2. Place(places, k) \in 1..Len(s) /\ Place(places, m) \in 1..Len(s)
    BY <1>2
  <2>3. Place(places, k) < Place(places, m) /\ s[Place(places, k)] = s[Place(places, m)]
    BY <1>2, <2>1
  <2>4. Place(places, k) = Place(places, m)
    BY <1>4, <2>2, <2>3 DEF Distinct
  <2>5. QED
    BY <2>2, <2>3, <2>4, LenProperties
<1>5. ASSUME Elements(s) \subseteq gone PROVE t = <<>>
  <2>1. places = {}
    BY <1>5 DEF Elements
  <2>2. Len(t) = 0
    BY <1>2, <2>1, FS_EmptySet
  <2>3. QED
    BY <1>2, <2>2, EmptySeq
<1>6. QED
  BY <1>1, <1>2, <1>3, <1>4, <1>5

\* Unknown keeps each element that is not known, once.
LEMMA UnknownFacts ==
  ASSUME NEW S, NEW s \in Seq(S), NEW known
  PROVE  /\ Unknown(s, known) \in Seq(S)
         /\ Elements(Unknown(s, known)) = Elements(s) \ known
         /\ Distinct(Unknown(s, known))
<1> DEFINE First(i) == s[i] \notin known /\ \A j \in 1..(i - 1) : s[j] # s[i]
           places == {i \in 1..Len(s) : First(i)}
           t == KeptAt(s, places)
<1>1. Unknown(s, known) = t
  BY DEF Unknown
<1>2. /\ t \in Seq(S)
      /\ Len(t) = Cardinality(places) /\ Cardinality(places) \in Nat
      /\ \A k \in 1..Cardinality(places) :
           Place(places, k) \in places /\ t[k] = s[Place(places, k)]
      /\ \A i \in places : \E k \in 1..Cardinality(places) : Place(places, k) = i
      /\ \A k, m \in 1..Cardinality(places) :
           k < m => Place(places, k) < Place(places, m)
  <2>1. places \in SUBSET (1..Len(s))
    OBVIOUS
  <2> HIDE DEF places
  <2>2. QED
    BY <2>1, KeptIsSubsequence
<1>3. ASSUME NEW x \in Elements(s) \ known
      PROVE  \E i \in places : s[i] = x
  <2> DEFINE occurs == {i \in Nat : i \in 1..Len(s) /\ s[i] = x}
  <2>1. Len(s) \in Nat /\ occurs \in SUBSET Nat /\ occurs # {}
    BY <1>3, LenProperties DEF Elements
  <2>2. PICK i \in occurs : \A j \in occurs : i <= j
    <3> HIDE DEF occurs
    <3>1. QED
      BY <2>1, LeastNatural
  <2>3. \A j \in 1..(i - 1) : s[j] # s[i]
    BY <2>1, <2>2
  <2>4. QED
    BY <1>3, <2>2, <2>3
<1>4. Elements(t) = Elements(s) \ known
  <2>1. ASSUME NEW k \in 1..Len(t) PROVE t[k] \in Elements(s) \ known
    <3>1. Place(places, k) \in places /\ t[k] = s[Place(places, k)]
      BY <1>2
    <3> HIDE DEF t
    <3>2. QED
      BY <3>1 DEF Elements
  <2>2. ASSUME NEW x \in Elements(s) \ known PROVE x \in Elements(t)
    <3>1. PICK i \in places : s[i] = x
      BY <1>3
    <3>2. QED
      BY <1>2, <3>1 DEF Elements
  <2>3. Elements(t) \subseteq Elements(s) \ known
    BY <2>1 DEF Elements
  <2>4. QED
    BY <2>2, <2>3
<1>5. Distinct(t)
  <2>1. ASSUME NEW k \in 1..Len(t), NEW m \in 1..Len(t), k < m
        PROVE  t[k] # t[m]
    <3>1. Place(places, k) \in 1..Len(s) /\ Place(places, m) \in places
      BY <1>2
    <3>2. Place(places, k) < Place(places, m)
      BY <1>2, <2>1
    <3>3. s[Place(places, k)] # s[Place(places, m)]
      BY <3>1, <3>2, LenProperties
    <3>4. QED
      BY <1>2, <3>3
  <2>2. Len(t) \in Nat
    BY <1>2
  <2> HIDE DEF t
  <2>3. QED
    BY <2>1, <2>2 DEF Distinct
<1>6. QED
  BY <1>1, <1>2, <1>4, <1>5

-----------------------------------------------------------------------------
(* Queues of distinct elements.                                            *)

\* The elements of a queue are of its type, and only the empty one has none.
LEMMA ElementsFacts ==
  ASSUME NEW S, NEW s \in Seq(S)
  PROVE  /\ Elements(s) \subseteq S
         /\ Elements(s) = {} <=> s = <<>>
<1>1. Len(s) \in Nat /\ (s # <<>> => Len(s) \in Nat \ {0}) /\ Len(<<>>) = 0
  BY LenProperties, EmptySeq
<1>2. \A i \in 1..Len(s) : s[i] \in S
  BY ElementOfSeq
<1>3. s # <<>> => s[1] \in Elements(s)
  BY <1>1 DEF Elements
<1>4. s = <<>> => Elements(s) = {}
  BY <1>1 DEF Elements
<1>5. QED
  BY <1>2, <1>3, <1>4 DEF Elements

\* Taking the first element of a queue takes it out.
LEMMA TakenFirst ==
  ASSUME NEW S, NEW s \in Seq(S), s # <<>>, Distinct(s)
  PROVE  /\ Head(s) \in S /\ Tail(s) \in Seq(S)
         /\ Head(s) \in Elements(s)
         /\ Elements(Tail(s)) = Elements(s) \ {Head(s)}
         /\ Distinct(Tail(s))
<1>1. Len(s) \in Nat \ {0} /\ Head(s) = s[1] /\ Head(s) \in S
  BY EmptySeq, HeadTailProperties, ElementOfSeq
<1>2. /\ Tail(s) \in Seq(S) /\ Len(Tail(s)) = Len(s) - 1
      /\ \A i \in 1..(Len(s) - 1) : Tail(s)[i] = s[i + 1]
  BY <1>1, HeadTailProperties
<1>3. Head(s) \in Elements(s)
  BY <1>1 DEF Elements
<1>4. Distinct(Tail(s))
  BY <1>1, <1>2 DEF Distinct
<1>5. ASSUME NEW i \in 1..Len(s), i # 1
      PROVE  s[i] \in Elements(Tail(s)) /\ s[i] # Head(s)
  <2>1. i - 1 \in 1..Len(Tail(s)) /\ s[i] = Tail(s)[i - 1]
    BY <1>1, <1>2, <1>5
  <2>2. s[i] # Head(s)
    BY <1>1, <1>5 DEF Distinct
  <2>3. QED
    BY <2>1, <2>2 DEF Elements
<1>6. ASSUME NEW i \in 1..Len(Tail(s))
      PROVE  i + 1 \in 1..Len(s) /\ i + 1 # 1 /\ Tail(s)[i] = s[i + 1]
  BY <1>1, <1>2
<1>7. Elements(Tail(s)) \subseteq Elements(s) \ {Head(s)}
  BY <1>5, <1>6 DEF Elements
<1>8. Elements(s) \ {Head(s)} \subseteq Elements(Tail(s))
  BY <1>1, <1>5 DEF Elements
<1>9. QED
  BY <1>1, <1>2, <1>3, <1>4, <1>7, <1>8

\* Adding an element at the end puts it in.
LEMMA AddedLast ==
  ASSUME NEW S, NEW s \in Seq(S), NEW x \in S
  PROVE  /\ Append(s, x) \in Seq(S) /\ Append(s, x) # <<>>
         /\ Elements(Append(s, x)) = Elements(s) \cup {x}
         /\ Distinct(s) /\ x \notin Elements(s) => Distinct(Append(s, x))
<1> DEFINE t == Append(s, x)
<1>1. /\ Len(s) \in Nat /\ t \in Seq(S) /\ Len(t) = Len(s) + 1 /\ t[Len(s) + 1] = x
      /\ \A i \in 1..Len(s) : t[i] = s[i]
  BY LenProperties, AppendProperties
<1>2. t # <<>>
  BY <1>1, EmptySeq
<1> HIDE DEF t
<1>3. 1..Len(t) = (1..Len(s)) \cup {Len(s) + 1}
  BY <1>1
<1>4. Elements(t) = Elements(s) \cup {x}
  BY <1>1, <1>3 DEF Elements
<1>5. Distinct(s) /\ x \notin Elements(s) => Distinct(t)
  BY <1>1, <1>3 DEF Distinct, Elements
<1>6. QED
  BY <1>1, <1>2, <1>4, <1>5 DEF t

\* Two lists one after the other have the elements of both.
LEMMA JoinedFacts ==
  ASSUME NEW S, NEW s \in Seq(S), NEW t \in Seq(S)
  PROVE  /\ s \o t \in Seq(S)
         /\ Elements(s \o t) = Elements(s) \cup Elements(t)
         /\ Distinct(s) /\ Distinct(t) /\ Elements(s) \cap Elements(t) = {} => Distinct(s \o t)
<1> DEFINE u == s \o t
<1>1. /\ Len(s) \in Nat /\ Len(t) \in Nat /\ u \in Seq(S) /\ Len(u) = Len(s) + Len(t)
      /\ \A i \in 1..Len(s) + Len(t) : u[i] = IF i <= Len(s) THEN s[i] ELSE t[i - Len(s)]
  BY LenProperties, ConcatProperties
<1> HIDE DEF u
<1>2. ASSUME NEW i \in 1..Len(s)
      PROVE  i \in 1..Len(u) /\ u[i] = s[i]
  BY <1>1
<1>3. ASSUME NEW i \in 1..Len(t)
      PROVE  i + Len(s) \in 1..Len(u) /\ u[i + Len(s)] = t[i]
  <2>1. i + Len(s) \in 1..Len(s) + Len(t) /\ ~(i + Len(s) <= Len(s)) /\ i + Len(s) - Len(s) = i
    BY <1>1
  <2>2. QED
    BY <1>1, <2>1
<1>4. ASSUME NEW i \in 1..Len(u)
      PROVE  \/ i \in 1..Len(s) /\ u[i] = s[i]
             \/ i - Len(s) \in 1..Len(t) /\ u[i] = t[i - Len(s)]
  BY <1>1
<1>5. Elements(s) \cup Elements(t) \subseteq Elements(u)
  BY <1>2, <1>3 DEF Elements
<1>6. Elements(u) \subseteq Elements(s) \cup Elements(t)
  BY <1>4 DEF Elements
<1>7. ASSUME Distinct(s), Distinct(t), Elements(s) \cap Elements(t) = {},
             NEW i \in 1..Len(u), NEW j \in 1..Len(u), u[i] = u[j]
      PROVE  i = j
  <2>1. \A k \in 1..Len(s), m \in 1..Len(t) : s[k] # t[m]
    BY <1>7 DEF Elements
  <2>2. CASE i \in 1..Len(s) /\ j \in 1..Len(s)
    BY <1>2, <1>7, <2>2 DEF Distinct
  <2>3. CASE i - Len(s) \in 1..Len(t) /\ u[i] = t[i - Len(s)] /\ j - Len(s) \in 1..Len(t) /\ u[j] = t[j - Len(s)]
    <3>1. i - Len(s) = j - Len(s)
      BY <1>7, <2>3 DEF Distinct
    <3>2. QED
      BY <1>1, <3>1
  <2>4. QED
    BY <1>4, <1>7, <2>1, <2>2, <2>3
<1>8. QED
  BY <1>1, <1>5, <1>6, <1>7 DEF u, Distinct

\* A list without its i-th element.
LEMMA ErasedFacts ==
  ASSUME NEW S, NEW s \in Seq(S), NEW i \in 1..Len(s)
  PROVE  LET t == SubSeq(s, 1, i - 1) \o SubSeq(s, i + 1, Len(s))
         IN  /\ t \in Seq(S) /\ Len(t) = Len(s) - 1 /\ Len(s) \in Nat
             /\ \A j \in 1..(i - 1) : t[j] = s[j]
             /\ \A j \in i..(Len(s) - 1) : t[j] = s[j + 1]
             /\ Elements(t) \subseteq Elements(s)
             /\ Distinct(s) => Distinct(t)
<1> DEFINE a == SubSeq(s, 1, i - 1)
           b == SubSeq(s, i + 1, Len(s))
           t == a \o b
<1>1. Len(s) \in Nat /\ \A j \in 1..Len(s) : s[j] \in S
  BY LenProperties, ElementOfSeq
<1>2. a \in Seq(S) /\ Len(a) = i - 1 /\ \A j \in 1..(i - 1) : a[j] = s[j]
  <2>1. /\ 1 \in Int /\ i - 1 \in Int /\ \A j \in 1..(i - 1) : s[j] \in S
        /\ (IF 1 <= i - 1 THEN (i - 1) - 1 + 1 ELSE 0) = i - 1 /\ i - 1 - 1 + 1 = i - 1
        /\ \A j \in 1..(i - 1) : 1 + j - 1 = j
    BY <1>1
  <2>2. /\ a \in Seq(S) /\ Len(a) = IF 1 <= i - 1 THEN (i - 1) - 1 + 1 ELSE 0
        /\ \A j \in 1..((i - 1) - 1 + 1) : a[j] = s[1 + j - 1]
    BY <2>1, SubSeqProperties
  <2> HIDE DEF a
  <2>3. QED
    BY <2>1, <2>2
<1>3. b \in Seq(S) /\ Len(b) = Len(s) - i /\ \A j \in 1..(Len(s) - i) : b[j] = s[i + j]
  <2>1. PICK from \in Int, to \in Int : from = i + 1 /\ to = Len(s)
    BY <1>1
  <2>2. \A j \in from..to : s[j] \in S
    BY <1>1, <2>1
  <2>3. /\ SubSeq(s, from, to) \in Seq(S)
        /\ Len(SubSeq(s, from, to)) = IF from <= to THEN to - from + 1 ELSE 0
        /\ \A j \in 1..(to - from + 1) : SubSeq(s, from, to)[j] = s[from + j - 1]
    BY <2>2, SubSeqProperties
  <2>4. /\ to - from + 1 = Len(s) - i /\ (IF from <= to THEN to - from + 1 ELSE 0) = Len(s) - i
        /\ \A j \in 1..(Len(s) - i) : from + j - 1 = i + j
    BY <1>1, <2>1
  <2>5. b = SubSeq(s, from, to)
    BY <2>1
  <2> HIDE DEF b
  <2>6. QED
    BY <2>3, <2>4, <2>5
<1> HIDE DEF a, b
<1>4. /\ t \in Seq(S) /\ Len(t) = Len(a) + Len(b)
      /\ \A j \in 1..Len(a) + Len(b) : t[j] = IF j <= Len(a) THEN a[j] ELSE b[j - Len(a)]
  BY <1>2, <1>3, ConcatProperties
<1> HIDE DEF t
<1>5. Len(t) = Len(s) - 1 /\ Len(a) + Len(b) = Len(s) - 1
  BY <1>1, <1>2, <1>3, <1>4
<1>6. \A j \in 1..(i - 1) : t[j] = s[j]
  BY <1>1, <1>2, <1>4, <1>5
<1>7. ASSUME NEW j \in i..(Len(s) - 1)
      PROVE  t[j] = s[j + 1]
  <2>1. j \in 1..(Len(s) - 1) /\ ~(j <= Len(a)) /\ j - Len(a) \in 1..(Len(s) - i)
        /\ i + (j - Len(a)) = j + 1
    BY <1>1, <1>2
  <2>2. t[j] = b[j - Len(a)]
    BY <1>4, <1>5, <2>1
  <2>3. QED
    BY <1>3, <2>1, <2>2
<1>8. ASSUME NEW j \in 1..Len(t)
      PROVE  \/ j < i /\ j \in 1..Len(s) /\ t[j] = s[j]
             \/ j >= i /\ j + 1 \in 1..Len(s) /\ t[j] = s[j + 1]
  BY <1>1, <1>5, <1>6, <1>7
<1>9. Elements(t) \subseteq Elements(s)
  BY <1>8 DEF Elements
<1>10. ASSUME Distinct(s), NEW j \in 1..Len(t), NEW k \in 1..Len(t), t[j] = t[k]
       PROVE  j = k
  BY <1>5, <1>8, <1>10 DEF Distinct
<1>11. QED
  BY <1>1, <1>4, <1>5, <1>6, <1>7, <1>9, <1>10 DEF t, a, b, Distinct

\* A list of distinct elements is no longer than their set is large.
LEMMA DistinctLength ==
  ASSUME NEW S, IsFiniteSet(S), NEW s \in Seq(S), Distinct(s)
  PROVE  Len(s) \in Nat /\ Cardinality(S) \in Nat /\ Len(s) <= Cardinality(S)
<1>1. Len(s) \in Nat /\ s \in [1..Len(s) -> S]
  BY LenProperties
<1>2. s \in Injection(1..Len(s), S)
  BY <1>1 DEF Injection, IsInjective, Distinct
<1>3. Cardinality(1..Len(s)) <= Cardinality(S)
  BY <1>2, FS_Injection
<1>4. Cardinality(1..Len(s)) = Len(s)
  BY <1>1, FS_Interval
<1>5. QED
  BY <1>1, <1>3, <1>4, FS_CardinalityType
=============================================================================
