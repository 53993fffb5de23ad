------------------------------ MODULE LogLemmas ------------------------------
(***************************************************************************)
(* Facts about lists that several proofs use: the first position a search  *)
(* finds, what appending to a log leaves as it was, and what the members   *)
(* of a set are when they are listed in an order.                          *)
(***************************************************************************)
EXTENDS Naturals, Sequences, FiniteSetsExt, Lists, FiniteSetTheorems,
        SequenceTheorems, WellFoundedInduction, TLAPS

\* The first hit of a lookup is a hit, and no hit comes before it.
LEMMA MinMember ==
  ASSUME NEW S \in SUBSET Nat, S # {}
  PROVE  Min(S) \in S /\ \A y \in S : Min(S) <= y
<1>. DEFINE R == {ss \in Nat \X Nat : ss[1] < ss[2]}
<1>1. IsWellFoundedOn(R, Nat)
  BY NatLessThanWellFounded DEF OpToRel
<1>2. PICK x \in S : \A y \in S : ~(<<y, x>> \in R)
  BY <1>1, WFMin
<1>3. \A y \in S : x <= y
  <2>. SUFFICES ASSUME NEW y \in S, ~(x <= y)
                PROVE  FALSE
    OBVIOUS
  <2>1. x \in Nat /\ y \in Nat /\ y < x
    OBVIOUS
  <2>2. <<y, x>> \in Nat \X Nat /\ <<y, x>>[1] < <<y, x>>[2]
    BY <2>1
  <2>3. <<y, x>> \in R
    BY <2>2
  <2>. QED
    BY <1>2, <2>3
<1>. QED
  BY <1>3 DEF Min

\* The largest member of a bounded set is a member, and none is larger.
LEMMA MaxMember ==
  ASSUME NEW n \in Nat, NEW S \in SUBSET (0 .. n), S # {}
  PROVE  /\ \E x \in S : \A y \in S : y <= x
         /\ Max(S) \in S /\ \A y \in S : y <= Max(S)
<1>. DEFINE T == {n - y : y \in S}
<1>1. T \in SUBSET Nat /\ T # {}
  <2>1. \A y \in S : n - y \in Nat
    OBVIOUS
  <2>2. T \subseteq Nat
    BY <2>1
  <2>3. PICK y : y \in S
    OBVIOUS
  <2>4. n - y \in T
    BY <2>3
  <2>. QED
    BY <2>2, <2>4
<1>2. Min(T) \in T /\ \A z \in T : Min(T) <= z
  BY <1>1, MinMember
<1>3. PICK x \in S : n - x = Min(T)
  BY <1>2
<1>4. \A y \in S : y <= x
  <2>. SUFFICES ASSUME NEW y \in S
                PROVE  y <= x
    OBVIOUS
  <2>1. n - y \in T
    OBVIOUS
  <2>2. n - x <= n - y
    BY <1>2, <1>3, <2>1
  <2>. QED
    BY <2>2
<1>5. \E z \in S : \A y \in S : z >= y
  BY <1>4
<1>. QED
  BY <1>4, <1>5 DEF Max

\* A prefix of a log holds the log's elements at the same positions.
LEMMA PrefixElements ==
  ASSUME NEW T, NEW log \in Seq(T), NEW k \in 0 .. Len(log)
  PROVE  /\ SubSeq(log, 1, k) \in Seq(T)
         /\ Len(SubSeq(log, 1, k)) = k
         /\ \A i \in 1 .. k : SubSeq(log, 1, k)[i] = log[i]
<1>1. \A i \in 1 .. k : log[i] \in T
  BY ElementOfSeq, LenProperties
<1>2. k \in Int /\ (1 <= k => k - 1 + 1 = k) /\ (~(1 <= k) => k = 0)
  BY LenProperties
<1>. QED
  BY <1>1, <1>2, SubSeqProperties

\* Appending leaves every prefix of the log as it was.
LEMMA PrefixOfAppend ==
  ASSUME NEW T, NEW log \in Seq(T), NEW e \in T, NEW k \in 0 .. Len(log)
  PROVE  SubSeq(Append(log, e), 1, k) = SubSeq(log, 1, k)
<1>1. Append(log, e) \in Seq(T) /\ k \in 0 .. Len(Append(log, e))
  BY AppendProperties, LenProperties
<1>2. /\ SubSeq(log, 1, k) \in Seq(T)
      /\ Len(SubSeq(log, 1, k)) = k
      /\ \A i \in 1 .. k : SubSeq(log, 1, k)[i] = log[i]
  BY PrefixElements
<1>3. /\ SubSeq(Append(log, e), 1, k) \in Seq(T)
      /\ Len(SubSeq(Append(log, e), 1, k)) = k
      /\ \A i \in 1 .. k : SubSeq(Append(log, e), 1, k)[i] = Append(log, e)[i]
  BY <1>1, PrefixElements
<1>4. \A i \in 1 .. k : Append(log, e)[i] = log[i]
  BY AppendProperties, LenProperties
<1>. QED
  BY <1>2, <1>3, <1>4, SeqEqual

\* What a log is once an entry has been appended.
LEMMA AppendedEntry ==
  ASSUME NEW T, NEW log \in Seq(T), NEW e \in T, NEW new, new = Append(log, e)
  PROVE  /\ new \in Seq(T)
         /\ Len(log) \in Nat /\ Len(new) = Len(log) + 1
         /\ DOMAIN log = 1 .. Len(log) /\ DOMAIN new = 1 .. Len(log) + 1
         /\ new[Len(log) + 1] = e
         /\ \A i \in DOMAIN log : i \in DOMAIN new /\ new[i] = log[i]
<1>1. /\ Append(log, e) \in Seq(T) /\ Len(Append(log, e)) = Len(log) + 1
      /\ Append(log, e)[Len(log) + 1] = e
      /\ \A i \in 1 .. Len(log) : Append(log, e)[i] = log[i]
  BY AppendProperties
<1>2. Len(log) \in Nat /\ DOMAIN log = 1 .. Len(log)
  BY LenProperties
<1>3. DOMAIN new = 1 .. Len(log) + 1
  BY <1>1, LenProperties
<1>. QED
  BY <1>1, <1>2, <1>3

(* ---- Lists in order. ---- *)

\* In a finite set with a total order the number of those before a member
\* tells it from every other, and grows along the order.
LEMMA PlacesApart ==
  ASSUME NEW S, IsFiniteSet(S), NEW R,
         \A i \in S : <<i, i>> \notin R,
         \A i, j, k \in S : <<i, j>> \in R /\ <<j, k>> \in R => <<i, k>> \in R
  PROVE  /\ Cardinality(S) \in Nat
         /\ \A k \in S : Cardinality(Preceding(S, R, k)) \in 0 .. (Cardinality(S) - 1)
         /\ \A i, j \in S : <<i, j>> \in R =>
              Cardinality(Preceding(S, R, i)) < Cardinality(Preceding(S, R, j))
<1>. DEFINE Earlier(k) == Preceding(S, R, k)
            T == 0 .. (Cardinality(S) - 1)
<1>1. Cardinality(S) \in Nat
  BY FS_CardinalityType
<1>2. ASSUME NEW k \in S
      PROVE  IsFiniteSet(Earlier(k)) /\ Cardinality(Earlier(k)) \in T
  <2>1. IsFiniteSet(S \ {k}) /\ Cardinality(S \ {k}) = Cardinality(S) - 1
    BY FS_RemoveElement
  <2>2. Earlier(k) \in SUBSET (S \ {k})
    BY DEF Preceding
  <2>. HIDE DEF Earlier
  <2>3. IsFiniteSet(Earlier(k)) /\ Cardinality(Earlier(k)) <= Cardinality(S) - 1
    BY <2>1, <2>2, FS_Subset
  <2>4. Cardinality(Earlier(k)) \in Nat
    BY <2>3, FS_CardinalityType
  <2>. QED
    BY <1>1, <2>3, <2>4
<1>3. ASSUME NEW i \in S, NEW j \in S, <<i, j>> \in R
      PROVE  Cardinality(Earlier(i)) < Cardinality(Earlier(j))
  <2>1. Earlier(i) \in SUBSET Earlier(j)
    BY <1>3 DEF Preceding
  <2>2. i \in Earlier(j) /\ i \notin Earlier(i)
    BY <1>3 DEF Preceding
  <2>3. Earlier(i) # Earlier(j)
    BY <2>2
  <2>. HIDE DEF Earlier
  <2>4. /\ Cardinality(Earlier(i)) <= Cardinality(Earlier(j))
        /\ Cardinality(Earlier(i)) = Cardinality(Earlier(j)) => Earlier(i) = Earlier(j)
    BY <1>2, <2>1, FS_Subset
  <2>5. Cardinality(Earlier(i)) \in Nat /\ Cardinality(Earlier(j)) \in Nat
    BY <1>2
  <2>. QED
    BY <2>3, <2>4, <2>5
<1>. QED
  BY <1>1, <1>2, <1>3

\* Every place of such a set is somebody's.
LEMMA Places ==
  ASSUME NEW S, IsFiniteSet(S), NEW R,
         \A i \in S : <<i, i>> \notin R,
         \A i, j, k \in S : <<i, j>> \in R /\ <<j, k>> \in R => <<i, k>> \in R,
         \A i, j \in S : i = j \/ <<i, j>> \in R \/ <<j, i>> \in R,
         NEW n \in 1 .. Cardinality(S)
  PROVE  \E k \in S : Cardinality(Preceding(S, R, k)) = n - 1
<1>. DEFINE Earlier(k) == Preceding(S, R, k)
            T == 0 .. (Cardinality(S) - 1)
            place == [k \in S |-> Cardinality(Earlier(k))]
<1>1. /\ Cardinality(S) \in Nat
      /\ \A k \in S : Cardinality(Earlier(k)) \in T
      /\ \A i, j \in S : <<i, j>> \in R => Cardinality(Earlier(i)) < Cardinality(Earlier(j))
  BY PlacesApart
<1>2. \A i, j \in S : <<i, j>> \in R => Cardinality(Earlier(i)) # Cardinality(Earlier(j))
  <2>. HIDE DEF Earlier
  <2>. QED
    BY <1>1
<1>3. place \in Injection(S, T)
  <2>1. place \in [S -> T]
    BY <1>1
  <2>2. \A i \in S : place[i] = Cardinality(Earlier(i))
    OBVIOUS
  <2>. HIDE DEF place, T, Earlier
  <2>3. \A i, j \in S : place[i] = place[j] => i = j
    BY <1>2, <2>2
  <2>. QED
    BY <2>1, <2>3 DEF Injection, IsInjective
<1>4. IsFiniteSet(T) /\ Cardinality(T) = Cardinality(S)
  <2>1. Cardinality(S) - 1 \in Int
    BY <1>1
  <2>. QED
    BY <1>1, <2>1, FS_Interval
<1>5. place \in Surjection(S, T)
  <2>. HIDE DEF place, T
  <2>. QED
    BY <1>3, <1>4, FS_Injection
<1>6. n - 1 \in T
  BY <1>1
<1>7. PICK k \in S : place[k] = n - 1
  BY <1>5, <1>6 DEF Surjection
<1>. QED
  BY <1>7

\* A set listed in a total order: every member once, each before the next.
LEMMA InOrderLists ==
  ASSUME NEW S, IsFiniteSet(S), NEW R,
         \A i \in S : <<i, i>> \notin R,
         \A i, j, k \in S : <<i, j>> \in R /\ <<j, k>> \in R => <<i, k>> \in R,
         \A i, j \in S : i = j \/ <<i, j>> \in R \/ <<j, i>> \in R,
         NEW list, list = InOrder(S, R)
  PROVE  /\ list \in Seq(S) /\ Len(list) = Cardinality(S)
         /\ DOMAIN list = 1 .. Cardinality(S) /\ Cardinality(S) \in Nat
         /\ \A k \in S : \E n \in DOMAIN list : list[n] = k
         /\ \A m, n \in DOMAIN list : m < n => <<list[m], list[n]>> \in R
<1>. DEFINE place(k) == Cardinality(Preceding(S, R, k))
<1>1. /\ Cardinality(S) \in Nat
      /\ \A k \in S : place(k) \in 0 .. (Cardinality(S) - 1)
      /\ \A i, j \in S : <<i, j>> \in R => place(i) < place(j)
  BY PlacesApart
<1>2. \A n \in 1 .. Cardinality(S) : \E k \in S : place(k) = n - 1
  BY Places
<1>3. list = [n \in 1 .. Cardinality(S) |-> CHOOSE k \in S : place(k) = n - 1]
  BY DEF InOrder
<1>. HIDE DEF place
<1>4. ASSUME NEW n \in 1 .. Cardinality(S)
      PROVE  list[n] \in S /\ place(list[n]) = n - 1
  <2>1. \E k \in S : place(k) = n - 1
    BY <1>2
  <2>2. list[n] = CHOOSE k \in S : place(k) = n - 1
    BY <1>3
  <2>. QED
    BY <2>1, <2>2, Zenon
<1>5. DOMAIN list = 1 .. Cardinality(S)
  BY <1>3
<1>6. list \in Seq(S) /\ Len(list) = Cardinality(S)
  <2>1. list \in [1 .. Cardinality(S) -> S]
    BY <1>3, <1>4
  <2>. QED
    BY <1>1, <2>1, SeqDef, LenProperties
<1>7. ASSUME NEW i \in S, NEW j \in S, place(i) = place(j)
      PROVE  i = j
  <2>1. place(i) \in Int /\ ~(<<i, j>> \in R) /\ ~(<<j, i>> \in R)
    BY <1>1, <1>7
  <2>. QED
    BY <2>1
<1>8. ASSUME NEW k \in S
      PROVE  \E n \in DOMAIN list : list[n] = k
  <2>1. place(k) \in 0 .. (Cardinality(S) - 1)
    BY <1>1
  <2>2. place(k) + 1 \in 1 .. Cardinality(S) /\ (place(k) + 1) - 1 = place(k)
    BY <1>1, <2>1
  <2>3. list[place(k) + 1] \in S /\ place(list[place(k) + 1]) = place(k)
    BY <1>4, <2>2
  <2>4. list[place(k) + 1] = k
    BY <1>7, <2>3
  <2>. QED
    BY <1>5, <2>2, <2>4
<1>9. ASSUME NEW m \in DOMAIN list, NEW n \in DOMAIN list, m < n
      PROVE  <<list[m], list[n]>> \in R
  <2>1. PICK i \in S : i = list[m] /\ place(i) = m - 1
    BY <1>4, <1>5
  <2>2. PICK j \in S : j = list[n] /\ place(j) = n - 1
    BY <1>4, <1>5
  <2>3. place(i) < place(j) /\ place(i) \in Int /\ place(j) \in Int
    BY <1>1, <1>5, <1>9, <2>1, <2>2
  <2>4. i # j /\ ~(<<j, i>> \in R)
    BY <1>1, <2>3
  <2>. QED
    BY <2>1, <2>2, <2>4
<1>. QED
  BY <1>1, <1>5, <1>6, <1>8, <1>9

\* Positions listed upwards.
LEMMA AscendingLists ==
  ASSUME NEW n \in Nat, NEW S \in SUBSET (1 .. n)
  PROVE  /\ Ascending(S) \in Seq(1 .. n) /\ Ascending(S) \in Seq(S)
         /\ \A i, j \in DOMAIN Ascending(S) : i < j => Ascending(S)[i] < Ascending(S)[j]
<1>1. PICK R : R = {p \in S \X S : p[1] < p[2]}
  OBVIOUS
<1>2. IsFiniteSet(S)
  <2>1. IsFiniteSet(1 .. n)
    BY FS_Interval
  <2>. QED
    BY <2>1, FS_Subset
<1>3. \A i, j \in S : <<i, j>> \in R <=> i < j
  BY <1>1
<1>4. /\ \A i \in S : <<i, i>> \notin R
      /\ \A i, j, k \in S : <<i, j>> \in R /\ <<j, k>> \in R => <<i, k>> \in R
      /\ \A i, j \in S : i = j \/ <<i, j>> \in R \/ <<j, i>> \in R
  BY <1>3
<1>5. PICK list : list = InOrder(S, R) /\ list = Ascending(S)
  BY <1>1 DEF Ascending
<1>6. /\ list \in Seq(S)
      /\ \A i, j \in DOMAIN list : i < j => <<list[i], list[j]>> \in R
  BY <1>2, <1>4, <1>5, InOrderLists
<1>7. \A i \in DOMAIN list : list[i] \in S
  BY <1>6, LenProperties, ElementOfSeq
<1>8. list \in Seq(1 .. n)
  <2>1. Len(list) \in Nat /\ DOMAIN list = 1 .. Len(list) /\ list = [i \in DOMAIN list |-> list[i]]
    BY <1>6, LenProperties, SeqDef
  <2>2. list \in [1 .. Len(list) -> 1 .. n]
    BY <1>7, <2>1
  <2>. QED
    BY <2>1, <2>2, SeqDef
<1>. QED
  BY <1>3, <1>5, <1>6, <1>7, <1>8
==============================================================================
