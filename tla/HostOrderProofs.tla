--------------------------- MODULE HostOrderProofs ---------------------------
(* Lemmas on SortByHost: it permutes what it sorts, whatever is sorted.      *)
EXTENDS HostOrder, SequenceTheorems, FiniteSetTheorems, FunctionTheorems, TLAPS

(* Of two positions the one that comes first has the smaller place.          *)
LEMMA PlaceIsMonotone ==
    ASSUME NEW n \in Nat, NEW hosts \in [1 .. n -> Nat], NEW i \in 1 .. n, NEW j \in 1 .. n,
           hosts[i] < hosts[j] \/ (hosts[i] = hosts[j] /\ i < j)
    PROVE  Place(hosts, i) < Place(hosts, j)
  <1> DEFINE UpTo(p) ==
        {q \in DOMAIN hosts : hosts[q] < hosts[p] \/ (hosts[q] = hosts[p] /\ q <= p)}
  <1>0. DOMAIN hosts = 1 .. n
    OBVIOUS
  <1>1. IsFiniteSet(UpTo(j))
    BY <1>0, FS_Interval, FS_Subset
  <1>2. UpTo(i) \subseteq UpTo(j)
    BY <1>0
  <1>3. j \in UpTo(j) /\ j \notin UpTo(i)
    BY <1>0
  <1>4. Place(hosts, i) = Cardinality(UpTo(i)) /\ Place(hosts, j) = Cardinality(UpTo(j))
    BY DEF Place
  <1> HIDE DEF UpTo
  <1>5. IsFiniteSet(UpTo(i))
    BY <1>1, <1>2, FS_Subset
  <1>6. Cardinality(UpTo(i)) <= Cardinality(UpTo(j)) /\ Cardinality(UpTo(i)) # Cardinality(UpTo(j))
    BY <1>1, <1>2, <1>3, FS_Subset
  <1> QED
    BY <1>1, <1>4, <1>5, <1>6, FS_CardinalityType

(* Every place from 1 to n is taken by one position.                         *)
LEMMA PlacesAreABijection ==
    ASSUME NEW n \in Nat, NEW hosts \in [1 .. n -> Nat]
    PROVE  /\ \A j \in 1 .. n : Place(hosts, j) \in 1 .. n
           /\ \A i, j \in 1 .. n : Place(hosts, i) = Place(hosts, j) => i = j
           /\ \A k \in 1 .. n : \E j \in 1 .. n : Place(hosts, j) = k
  <1>0. DOMAIN hosts = 1 .. n
    OBVIOUS
  <1>1. IsFiniteSet(1 .. n) /\ Cardinality(1 .. n) = n
    BY FS_Interval
  <1>2. ASSUME NEW j \in 1 .. n PROVE Place(hosts, j) \in 1 .. n
    <2> DEFINE UpTo ==
          {q \in DOMAIN hosts : hosts[q] < hosts[j] \/ (hosts[q] = hosts[j] /\ q <= j)}
    <2>1. j \in UpTo /\ UpTo \subseteq 1 .. n
      BY <1>0
    <2>2. Place(hosts, j) = Cardinality(UpTo)
      BY DEF Place
    <2> HIDE DEF UpTo
    <2>3. IsFiniteSet(UpTo) /\ Cardinality(UpTo) <= n
      <3>1. UpTo \in SUBSET (1 .. n)
        BY <2>1
      <3>2. IsFiniteSet(UpTo) /\ Cardinality(UpTo) <= Cardinality(1 .. n)
        BY <1>1, <3>1, FS_Subset
      <3> QED
        BY <1>1, <3>2
    <2>4. Cardinality(UpTo) \in Nat /\ Cardinality(UpTo) # 0
      BY <2>1, <2>3, FS_CardinalityType, FS_EmptySet
    <2> QED
      BY <2>2, <2>3, <2>4
  <1>3. ASSUME NEW i \in 1 .. n, NEW j \in 1 .. n, Place(hosts, i) = Place(hosts, j)
        PROVE  i = j
    <2>1. ~(Place(hosts, i) < Place(hosts, j)) /\ ~(Place(hosts, j) < Place(hosts, i))
      BY <1>2, <1>3
    <2>2. hosts[i] \in Nat /\ hosts[j] \in Nat
      OBVIOUS
    <2>3. /\ ~(hosts[i] < hosts[j] \/ (hosts[i] = hosts[j] /\ i < j))
          /\ ~(hosts[j] < hosts[i] \/ (hosts[j] = hosts[i] /\ j < i))
      BY <2>1, PlaceIsMonotone
    <2> QED
      BY <2>2, <2>3
  <1>4. ASSUME NEW k \in 1 .. n PROVE \E j \in 1 .. n : Place(hosts, j) = k
    <2> DEFINE f == [j \in 1 .. n |-> Place(hosts, j)]
    <2>1. f \in [1 .. n -> 1 .. n]
      BY <1>2
    <2>2. \A i, j \in 1 .. n : f[i] = f[j] => i = j
      BY <1>3
    <2>3. \A j \in 1 .. n : f[j] = Place(hosts, j)
      OBVIOUS
    <2> HIDE DEF f
    <2>4. f \in Injection(1 .. n, 1 .. n)
      BY <2>1, <2>2, Fun_IsInj
    <2>5. f \in Surjection(1 .. n, 1 .. n)
      BY <1>1, <2>4, FS_Injection
    <2>6. \A j \in 1 .. n : \E i \in 1 .. n : f[i] = j
      BY <2>5 DEF Surjection
    <2> QED
      BY <2>3, <2>6
  <1> QED
    BY <1>2, <1>3, <1>4

(* The positions in the order of their hosts.                                *)
LEMMA PositionsAreABijection ==
    ASSUME NEW n \in Nat, NEW hosts \in [1 .. n -> Nat]
    PROVE  /\ \A k \in 1 .. n : Position(hosts, k) \in 1 .. n
           /\ \A i, j \in 1 .. n : Position(hosts, i) = Position(hosts, j) => i = j
           /\ \A j \in 1 .. n : \E k \in 1 .. n : Position(hosts, k) = j
           /\ \A i, j \in 1 .. n :
                i < j => hosts[Position(hosts, i)] <= hosts[Position(hosts, j)]
  <1>0. DOMAIN hosts = 1 .. n
    OBVIOUS
  <1>1. \A k \in 1 .. n : Position(hosts, k) \in 1 .. n /\ Place(hosts, Position(hosts, k)) = k
    <2> TAKE k \in 1 .. n
    <2>1. \E j \in DOMAIN hosts : Place(hosts, j) = k
      BY <1>0, PlacesAreABijection
    <2>2. Position(hosts, k) \in DOMAIN hosts /\ Place(hosts, Position(hosts, k)) = k
      BY <2>1 DEF Position
    <2> QED
      BY <1>0, <2>2
  <1>2. \A i, j \in 1 .. n : Position(hosts, i) = Position(hosts, j) => i = j
    BY <1>1
  <1>3. ASSUME NEW j \in 1 .. n PROVE \E k \in 1 .. n : Position(hosts, k) = j
    <2>1. Place(hosts, j) \in 1 .. n
      BY PlacesAreABijection
    <2>2. /\ Position(hosts, Place(hosts, j)) \in 1 .. n
          /\ Place(hosts, Position(hosts, Place(hosts, j))) = Place(hosts, j)
      BY <1>1, <2>1
    <2>3. Position(hosts, Place(hosts, j)) = j
      BY <2>2, PlacesAreABijection
    <2> QED
      BY <2>1, <2>3
  <1>4. ASSUME NEW i \in 1 .. n, NEW j \in 1 .. n, i < j
        PROVE  hosts[Position(hosts, i)] <= hosts[Position(hosts, j)]
    <2>1. ~(Place(hosts, Position(hosts, j)) < Place(hosts, Position(hosts, i)))
      BY <1>1, <1>4
    <2>2. ~(hosts[Position(hosts, j)] < hosts[Position(hosts, i)])
      BY <1>1, <2>1, PlaceIsMonotone
    <2>3. hosts[Position(hosts, i)] \in Nat /\ hosts[Position(hosts, j)] \in Nat
      BY <1>1
    <2> QED
      BY <2>2, <2>3
  <1> QED
    BY <1>1, <1>2, <1>3, <1>4

-----------------------------------------------------------------------------
(* The elements are those of the sequence, each as often as before, in the   *)
(* order of their hosts.                                                     *)
LEMMA SortPermutes ==
    ASSUME NEW S, NEW s \in Seq(S), NEW g, \A i \in 1 .. Len(s) : g[s[i]] \in Nat
    PROVE  /\ SortByHost(s, g) \in Seq(S) /\ Len(SortByHost(s, g)) = Len(s)
           /\ \A i, j \in 1 .. Len(s) : i < j => g[SortByHost(s, g)[i]] <= g[SortByHost(s, g)[j]]
           /\ Range(SortByHost(s, g)) = Range(s)
           /\ IsInjective(s) => IsInjective(SortByHost(s, g))
  <1> DEFINE n == Len(s)
             hosts == [i \in 1 .. n |-> g[s[i]]]
  <1>1. n \in Nat /\ DOMAIN s = 1 .. n
    OBVIOUS
  <1>2. /\ hosts \in [1 .. n -> Nat] /\ hosts = [i \in DOMAIN s |-> g[s[i]]]
        /\ \A i \in 1 .. n : hosts[i] = g[s[i]]
    BY <1>1
  <1> HIDE DEF hosts
  <1>3. SortByHost(s, g) = [k \in DOMAIN s |-> s[Position(hosts, k)]]
    BY <1>2 DEF SortByHost
  <1>4. /\ \A k \in 1 .. n : Position(hosts, k) \in 1 .. n
        /\ \A i, j \in 1 .. n : Position(hosts, i) = Position(hosts, j) => i = j
        /\ \A j \in 1 .. n : \E k \in 1 .. n : Position(hosts, k) = j
    BY <1>1, <1>2, PositionsAreABijection
  <1>5. /\ DOMAIN SortByHost(s, g) = 1 .. n
        /\ \A k \in 1 .. n : SortByHost(s, g)[k] = s[Position(hosts, k)]
    BY <1>1, <1>3
  <1>6. Range(SortByHost(s, g)) \subseteq Range(s)
    BY <1>1, <1>4, <1>5 DEF Range
  <1>7. Range(s) \subseteq Range(SortByHost(s, g))
    BY <1>1, <1>4, <1>5 DEF Range
  <1>8. IsInjective(s) => IsInjective(SortByHost(s, g))
    BY <1>1, <1>4, <1>5 DEF IsInjective
  <1>9. SortByHost(s, g) \in Seq(S) /\ Len(SortByHost(s, g)) = Len(s)
    <2>1. SortByHost(s, g) \in [1 .. n -> S]
      BY <1>1, <1>3, <1>4
    <2> QED
      BY <1>1, <2>1
  <1>10. \A i, j \in 1 .. n : i < j => hosts[Position(hosts, i)] <= hosts[Position(hosts, j)]
    BY <1>1, <1>2, PositionsAreABijection
  <1>11. ASSUME NEW i \in 1 .. n, NEW j \in 1 .. n, i < j
         PROVE  g[SortByHost(s, g)[i]] <= g[SortByHost(s, g)[j]]
    BY <1>2, <1>4, <1>5, <1>10, <1>11
  <1> QED
    BY <1>6, <1>7, <1>8, <1>9, <1>11

(* Elements at one position of two sequences were at one position of two     *)
(* others.                                                                   *)
TakenFrom(a, b, s, t) == \A k \in DOMAIN a : \E j \in DOMAIN s : a[k] = s[j] /\ b[k] = t[j]

(* Two sequences whose elements have the same hosts position by position are *)
(* put in the same order.                                                    *)
LEMMA SortedTogether ==
    ASSUME NEW S, NEW T, NEW s \in Seq(S), NEW t \in Seq(T), NEW g, NEW h,
           Len(s) = Len(t),
           \A i \in 1 .. Len(s) : g[s[i]] = h[t[i]] /\ h[t[i]] \in Nat
    PROVE  TakenFrom(SortByHost(s, g), SortByHost(t, h), s, t)
  <1> DEFINE n == Len(s)
             hosts == [i \in 1 .. n |-> h[t[i]]]
  <1>1. n \in Nat /\ DOMAIN s = 1 .. n /\ DOMAIN t = 1 .. n
    OBVIOUS
  <1>2. hosts \in [1 .. n -> Nat]
    OBVIOUS
  <1>3. hosts = [i \in DOMAIN s |-> g[s[i]]] /\ hosts = [i \in DOMAIN t |-> h[t[i]]]
    BY <1>1
  <1> HIDE DEF hosts
  <1>4. /\ SortByHost(s, g) = [k \in DOMAIN s |-> s[Position(hosts, k)]]
        /\ SortByHost(t, h) = [k \in DOMAIN t |-> t[Position(hosts, k)]]
    BY <1>3 DEF SortByHost
  <1>5. \A k \in 1 .. n : Position(hosts, k) \in 1 .. n
    BY <1>1, <1>2, PositionsAreABijection
  <1>6. DOMAIN SortByHost(s, g) = 1 .. n
    BY <1>1, <1>4
  <1>7. \A k \in 1 .. n : /\ SortByHost(s, g)[k] = s[Position(hosts, k)]
                          /\ SortByHost(t, h)[k] = t[Position(hosts, k)]
    BY <1>1, <1>4
  <1> QED
    BY <1>1, <1>5, <1>6, <1>7 DEF TakenFrom

-----------------------------------------------------------------------------
(* The place of an element of an increasing sequence is the number of        *)
(* elements up to it.                                                        *)
Increasing(s) == \A i, j \in 1 .. Len(s) : i < j => s[i] < s[j]

LEMMA PlaceInIncreasing ==
    ASSUME NEW s \in Seq(Nat), Increasing(s), NEW i \in 1 .. Len(s)
    PROVE  Cardinality({x \in Range(s) : x <= s[i]}) = i
  <1> DEFINE f == [k \in 1 .. i |-> s[k]]
             Below == {x \in Range(s) : x <= s[i]}
  <1>1. \A k \in 1 .. Len(s) : s[k] \in Nat /\ s[k] \in Range(s)
    BY DEF Range
  <1>2. \A k \in 1 .. i : s[k] <= s[i]
    BY <1>1 DEF Increasing
  <1>3. f \in [1 .. i -> Below]
    BY <1>1, <1>2
  <1>4. \A j, k \in 1 .. i : f[j] = f[k] => j = k
    BY <1>1 DEF Increasing
  <1>5. ASSUME NEW x \in Below PROVE \E k \in 1 .. i : f[k] = x
    <2>1. PICK k \in 1 .. Len(s) : s[k] = x
      BY DEF Range
    <2>2. ~(i < k)
      BY <1>1, <2>1 DEF Increasing
    <2> QED
      BY <2>1, <2>2
  <1>6. f \in Bijection(1 .. i, Below)
    BY <1>3, <1>4, <1>5, Fun_IsBij
  <1> HIDE DEF f, Below
  <1>7. ExistsBijection(1 .. i, Below)
    BY <1>6 DEF ExistsBijection
  <1>8. Cardinality(Below) = i
    BY <1>7, FS_CountingElements
  <1> QED
    BY <1>8 DEF Below

(* So there is one increasing sequence of given numbers.                     *)
LEMMA IncreasingIsUnique ==
    ASSUME NEW s \in Seq(Nat), NEW t \in Seq(Nat), Increasing(s), Increasing(t),
           Range(s) = Range(t)
    PROVE  s = t
  <1>1. ASSUME NEW u \in Seq(Nat), NEW v \in Seq(Nat), Increasing(u), Increasing(v),
               Range(u) = Range(v), NEW i \in 1 .. Len(u)
        PROVE  i \in 1 .. Len(v) /\ v[i] = u[i]
    <2>1. PICK j \in 1 .. Len(v) : v[j] = u[i]
      <3>1. u[i] \in Range(u) /\ DOMAIN v = 1 .. Len(v)
        BY DEF Range
      <3>2. u[i] \in Range(v)
        BY <1>1, <3>1
      <3> QED
        BY <3>1, <3>2 DEF Range
    <2>2. Cardinality({x \in Range(u) : x <= u[i]}) = i
      BY <1>1, PlaceInIncreasing
    <2>3. Cardinality({x \in Range(v) : x <= v[j]}) = j
      BY <1>1, PlaceInIncreasing
    <2>4. i = j
      BY <1>1, <2>1, <2>2, <2>3
    <2> QED
      BY <2>1, <2>4
  <1>2. Len(s) = Len(t)
    <2>1. Len(s) > 0 => Len(s) <= Len(t)
      BY <1>1
    <2>2. Len(t) > 0 => Len(t) <= Len(s)
      BY <1>1
    <2> QED
      BY <2>1, <2>2
  <1> QED
    BY <1>1, <1>2, SeqEqual
=============================================================================
