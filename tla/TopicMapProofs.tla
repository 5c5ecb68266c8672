--------------------------- MODULE TopicMapProofs ---------------------------
(***************************************************************************)
(* What the topic-map script computes, for every tree and every order of   *)
(* its files, and what merges do to the map, for any number of classes and *)
(* modules.                                                                *)
(***************************************************************************)
EXTENDS TopicMap, FiniteSetTheorems, TLAPS

-----------------------------------------------------------------------------
(* The loop of the script.                                                 *)

\* Induction, for a property that is given as the set of what has it.
LEMMA SetInduction ==
  ASSUME NEW S, 0 \in S, \A n \in Nat : n \in S => n + 1 \in S
  PROVE  Nat \subseteq S
<1> DEFINE T == Nat \ S
<1> SUFFICES ASSUME T # {} PROVE FALSE
  OBVIOUS
<1>1. PICK x \in T : \A y \in T : <<y, x>> \notin OpToRel(<, Nat)
  <2>1. T \subseteq Nat
    OBVIOUS
  <2> HIDE DEF T
  <2> QED
    BY <2>1, WFMin, NatLessThanWellFounded
<1>2. x - 1 \in T
  OBVIOUS
<1>3. <<x - 1, x>> \in OpToRel(<, Nat)
  BY <1>2 DEF OpToRel
<1> QED
  BY <1>1, <1>2, <1>3

\* The first n files, registered one after the other.
LoopUpTo(b, scan, n) ==
    b = [k \in 0..n |-> IF k = 0 THEN <<>> ELSE RegisterAggregateFile(b[k - 1], scan[k])]

\* The loop ends, with the Map that ByClassName returns.
LEMMA LoopEnds ==
  ASSUME NEW scan, Len(scan) \in Nat
  PROVE  \E b : LoopUpTo(b, scan, Len(scan)) /\ ByClassName(scan) = b[Len(scan)]
<1> DEFINE S == {n \in Nat : \E b : LoopUpTo(b, scan, n)}
<1>1. 0 \in S
  <2>1. LoopUpTo([k \in 0..0 |-> <<>>], scan, 0)
    BY DEF LoopUpTo
  <2> QED
    BY <2>1
<1>2. ASSUME NEW n \in Nat, n \in S PROVE n + 1 \in S
  <2>1. PICK b : LoopUpTo(b, scan, n)
    BY <1>2
  <2> DEFINE next == RegisterAggregateFile(b[n], scan[n + 1])
             c == [k \in 0..(n + 1) |-> IF k = n + 1 THEN next ELSE b[k]]
             d == [k \in 0..(n + 1) |->
                     IF k = 0 THEN <<>> ELSE RegisterAggregateFile(c[k - 1], scan[k])]
  <2>2. \A k \in 0..(n + 1) : c[k] = d[k]
    <3> SUFFICES ASSUME NEW k \in 0..(n + 1) PROVE c[k] = d[k]
      OBVIOUS
    <3>1. CASE k = 0
      BY <2>1, <3>1 DEF LoopUpTo
    <3>2. CASE k = n + 1
      <4>1. c[k - 1] = b[n] /\ d[k] = RegisterAggregateFile(c[k - 1], scan[k])
        BY <3>2
      <4>2. c[k] = next
        BY <3>2
      <4> QED
        BY <3>2, <4>1, <4>2
    <3>3. CASE k # 0 /\ k # n + 1
      <4>1. k \in 0..n /\ k - 1 \in 0..n
        BY <3>3
      <4>2. b[k] = RegisterAggregateFile(b[k - 1], scan[k])
        BY <2>1, <3>3, <4>1 DEF LoopUpTo
      <4>3. c[k] = b[k] /\ c[k - 1] = b[k - 1]
        BY <3>3, <4>1
      <4>4. d[k] = RegisterAggregateFile(c[k - 1], scan[k])
        BY <3>3
      <4> QED
        BY <4>2, <4>3, <4>4
    <3> QED
      BY <3>1, <3>2, <3>3
  <2>3. c = d
    BY <2>2
  <2>4. LoopUpTo(c, scan, n + 1)
    BY <2>3 DEF LoopUpTo
  <2> QED
    BY <2>4
<1>3. \E b : LoopUpTo(b, scan, Len(scan))
  <2> HIDE DEF S
  <2>1. Nat \subseteq S
    BY <1>1, <1>2, SetInduction
  <2> QED
    BY <2>1 DEF S
<1> DEFINE chosen == CHOOSE b : LoopUpTo(b, scan, Len(scan))
<1>4. LoopUpTo(chosen, scan, Len(scan))
  BY <1>3
<1>5. ByClassName(scan) = chosen[Len(scan)]
  BY DEF ByClassName, LoopUpTo
<1> QED
  BY <1>4, <1>5

\* An exception is not mistaken for a Map.
LEMMA ErrorIsNoMap == Error \notin Seq(Declaration)
<1> SUFFICES ASSUME Error \in Seq(Declaration) PROVE FALSE
  OBVIOUS
<1>1. Error[1] \in Declaration /\ Error[1] = <<>>
  BY DEF Error
<1>2. \A d \in Declaration : Len(d) = 2
  BY TopicMapAssumption
<1> QED
  BY <1>1, <1>2

\* What the Map is when the declarations seen so far have been registered.
IsMapOf(m, seen) ==
    IF Unambiguous(seen)
    THEN m \in Seq(Declaration) /\ ToSet(m) = seen /\ IsInjective(m)
    ELSE m = Error

\* One pass of the loop.
LEMMA RegisterKeepsMap ==
  ASSUME NEW m, NEW seen \in SUBSET Declaration, NEW d \in Declaration, IsMapOf(m, seen)
  PROVE  IsMapOf(RegisterAggregateFile(m, d), seen \cup {d})
<1> DEFINE n == RegisterAggregateFile(m, d)
<1>1. CASE ~Unambiguous(seen)
  <2>1. ~Unambiguous(seen \cup {d})
    BY <1>1 DEF Unambiguous
  <2>2. n = Error
    BY <1>1 DEF IsMapOf, RegisterAggregateFile
  <2> QED
    BY <2>1, <2>2 DEF IsMapOf
<1>2. CASE Unambiguous(seen)
  <2>1. m \in Seq(Declaration) /\ ToSet(m) = seen /\ IsInjective(m) /\ m # Error
    BY <1>2, ErrorIsNoMap DEF IsMapOf
  <2>2. CASE \E e \in seen : e[1] = d[1] /\ e[2] # d[2]
    <3>1. ~Unambiguous(seen \cup {d})
      BY <2>2 DEF Unambiguous
    <3>2. n = Error
      BY <2>1, <2>2 DEF RegisterAggregateFile
    <3> QED
      BY <3>1, <3>2 DEF IsMapOf
  <2>3. CASE ~ \E e \in seen : e[1] = d[1] /\ e[2] # d[2]
    <3>1. \A e \in seen : e[1] = d[1] => e = d
      BY <2>3, TopicMapAssumption
    <3>2. Unambiguous(seen \cup {d})
      BY <1>2, <3>1 DEF Unambiguous
    <3>3. CASE d \in seen
      <4>1. n = m /\ seen \cup {d} = seen
        BY <2>1, <2>3, <3>3 DEF RegisterAggregateFile
      <4> QED
        BY <4>1
    <3>4. CASE d \notin seen
      <4>1. n = Append(m, d)
        BY <2>1, <2>3, <3>4 DEF RegisterAggregateFile
      <4>2. /\ n \in Seq(Declaration) /\ DOMAIN n = 1..(Len(m) + 1)
            /\ DOMAIN m = 1..Len(m) /\ Len(m) \in Nat
            /\ n[Len(m) + 1] = d /\ \A i \in 1..Len(m) : n[i] = m[i]
        BY <2>1, <4>1
      <4>3. ToSet(n) = seen \cup {d}
        BY <2>1, <4>2 DEF ToSet
      <4>4. IsInjective(n)
        <5>1. \A i \in 1..Len(m) : m[i] # d
          BY <2>1, <3>4, <4>2 DEF ToSet
        <5> QED
          BY <2>1, <4>2, <5>1 DEF IsInjective
      <4> QED
        BY <3>2, <4>2, <4>3, <4>4 DEF IsMapOf
    <3> QED
      BY <3>3, <3>4
  <2> QED
    BY <2>2, <2>3
<1> QED
  BY <1>1, <1>2

\* After the last file the Map is one of all files.
LEMMA LoopComputesMap ==
  ASSUME NEW scan \in Seq(Declaration)
  PROVE  IsMapOf(ByClassName(scan), ToSet(scan))
<1>1. PICK b : LoopUpTo(b, scan, Len(scan)) /\ ByClassName(scan) = b[Len(scan)]
  BY LoopEnds
<1> DEFINE seen(n) == {scan[i] : i \in 1..n}
           S == {n \in Nat : n =< Len(scan) => IsMapOf(b[n], seen(n))}
<1>2. 0 \in S
  <2>1. b[0] = <<>> /\ seen(0) = {}
    BY <1>1 DEF LoopUpTo
  <2>2. IsMapOf(<<>>, {})
    BY DEF IsMapOf, Unambiguous, ToSet, IsInjective
  <2> QED
    BY <2>1, <2>2
<1>3. ASSUME NEW n \in Nat, n \in S PROVE n + 1 \in S
  <2> SUFFICES ASSUME n + 1 =< Len(scan) PROVE IsMapOf(b[n + 1], seen(n + 1))
    OBVIOUS
  <2>1. IsMapOf(b[n], seen(n))
    BY <1>3
  <2>2. b[n + 1] = RegisterAggregateFile(b[n], scan[n + 1])
    BY <1>1 DEF LoopUpTo
  <2>3. seen(n + 1) = seen(n) \cup {scan[n + 1]}
    OBVIOUS
  <2>4. seen(n) \in SUBSET Declaration /\ scan[n + 1] \in Declaration
    OBVIOUS
  <2> HIDE DEF seen
  <2> QED
    BY <2>1, <2>2, <2>3, <2>4, RegisterKeepsMap
<1>4. Len(scan) \in S
  <2> HIDE DEF S
  <2> QED
    BY <1>2, <1>3, SetInduction
<1>5. IsMapOf(b[Len(scan)], seen(Len(scan)))
  BY <1>4
<1>6. seen(Len(scan)) = ToSet(scan)
  BY DEF ToSet
<1> HIDE DEF seen
<1> QED
  BY <1>1, <1>5, <1>6

-----------------------------------------------------------------------------
(* Sorting.                                                                *)

\* How many entries of S are not after d.
Rank(S, d) == Cardinality({e \in S : e[1] =< d[1]})

Ascending(file) == \A i, j \in DOMAIN file : i < j => file[i][1] < file[j][1]

\* Trees are finite.
LEMMA TreesAreFinite ==
  ASSUME NEW S \in SUBSET Declaration
  PROVE  IsFiniteSet(S) /\ Cardinality(S) \in Nat
<1>1. IsFiniteSet(Declaration)
  <2>1. IsFiniteSet(Class \X Module)
    BY TopicMapAssumption, FS_Product
  <2> QED
    BY <2>1, TopicMapAssumption, FS_Subset
<1>2. IsFiniteSet(S)
  BY <1>1, FS_Subset
<1> QED
  BY <1>2, FS_CardinalityType

\* Ranks follow names.
LEMMA RankFollowsName ==
  ASSUME NEW S \in SUBSET Declaration, NEW d \in S, NEW e \in S
  PROVE  /\ Rank(S, d) \in 1..Cardinality(S)
         /\ Rank(S, d) < Rank(S, e) <=> d[1] < e[1]
<1> DEFINE Upto(x) == {y \in S : y[1] =< x[1]}
<1>1. \A x \in S : x[1] \in Nat
  BY TopicMapAssumption
<1>2. ASSUME NEW x \in S
      PROVE  /\ Upto(x) \in SUBSET S /\ x \in Upto(x) /\ IsFiniteSet(Upto(x))
             /\ Rank(S, x) = Cardinality(Upto(x)) /\ Rank(S, x) \in Nat
             /\ Rank(S, x) >= 1 /\ Rank(S, x) =< Cardinality(S)
  <2>1. Upto(x) \in SUBSET S /\ x \in Upto(x)
    BY <1>1
  <2>2. Rank(S, x) = Cardinality(Upto(x))
    BY DEF Rank
  <2> HIDE DEF Upto
  <2>3. IsFiniteSet(Upto(x)) /\ Cardinality(Upto(x)) \in Nat /\ Cardinality(S) \in Nat
    BY <2>1, TreesAreFinite
  <2>4. Cardinality(Upto(x)) # 0
    BY <2>1, <2>3, FS_EmptySet
  <2>5. Cardinality(Upto(x)) =< Cardinality(S)
    BY <2>1, TreesAreFinite, FS_Subset
  <2> QED
    BY <2>1, <2>2, <2>3, <2>4, <2>5
<1>3. ASSUME NEW x \in S, NEW y \in S, x[1] =< y[1] PROVE Rank(S, x) =< Rank(S, y)
  <2>1. Upto(x) \in SUBSET Upto(y)
    BY <1>1, <1>3
  <2> HIDE DEF Upto
  <2> QED
    BY <1>2, <2>1, FS_Subset
<1>4. ASSUME NEW x \in S, NEW y \in S, x[1] < y[1] PROVE Rank(S, x) < Rank(S, y)
  <2>1. Upto(x) \in SUBSET Upto(y) /\ y \notin Upto(x) /\ y \in Upto(y)
    BY <1>1, <1>4
  <2> HIDE DEF Upto
  <2>2. Cardinality(Upto(x)) =< Cardinality(Upto(y))
          /\ Cardinality(Upto(x)) # Cardinality(Upto(y))
    BY <1>2, <2>1, FS_Subset
  <2> QED
    BY <1>2, <2>2
<1>5. Cardinality(S) \in Nat
  BY TreesAreFinite
<1> HIDE DEF Upto
<1>6. Rank(S, d) \in 1..Cardinality(S) /\ Rank(S, e) \in Nat
  BY <1>2, <1>5
<1>7. d[1] < e[1] => Rank(S, d) < Rank(S, e)
  BY <1>4
<1>8. ~(d[1] < e[1]) => ~(Rank(S, d) < Rank(S, e))
  BY <1>1, <1>2, <1>3
<1> QED
  BY <1>6, <1>7, <1>8

\* In an unambiguous tree every rank belongs to one declaration.
LEMMA RankIsBijection ==
  ASSUME NEW S \in SUBSET Declaration, Unambiguous(S)
  PROVE  /\ \A d, e \in S : Rank(S, d) = Rank(S, e) => d = e
         /\ \A i \in 1..Cardinality(S) : \E d \in S : Rank(S, d) = i
<1>1. IsFiniteSet(S) /\ Cardinality(S) \in Nat
  BY TreesAreFinite
<1>2. \A d \in S : Rank(S, d) \in 1..Cardinality(S) /\ d[1] \in Nat
  BY RankFollowsName, TopicMapAssumption
<1>3. \A d, e \in S : Rank(S, d) = Rank(S, e) => d = e
  <2> SUFFICES ASSUME NEW d \in S, NEW e \in S, Rank(S, d) = Rank(S, e) PROVE d = e
    OBVIOUS
  <2>1. ~(d[1] < e[1]) /\ ~(e[1] < d[1])
    BY <1>1, <1>2, RankFollowsName
  <2> QED
    BY <1>2, <2>1 DEF Unambiguous
<1> DEFINE f == [d \in S |-> Rank(S, d)]
           T == 1..Cardinality(S)
<1>4. f \in Injection(S, T)
  BY <1>2, <1>3 DEF Injection, IsInjective
<1>5. IsFiniteSet(T) /\ Cardinality(T) = Cardinality(S)
  BY <1>1, FS_Interval
<1>6. f \in Surjection(S, T)
  <2> HIDE DEF f, T
  <2> QED
    BY <1>4, <1>5, FS_Injection
<1>7. \A i \in T : \E d \in S : f[d] = i
  BY <1>6 DEF Surjection
<1> QED
  BY <1>3, <1>7

\* The i-th line of a sorted file has rank i: there is one sorted file.
LEMMA SortedByRank ==
  ASSUME NEW S \in SUBSET Declaration, NEW file \in [1..Cardinality(S) -> S],
         Ascending(file)
  PROVE  /\ ToSet(file) = S
         /\ \A i \in 1..Cardinality(S) : Rank(S, file[i]) = i
<1> DEFINE n == Cardinality(S)
<1>1. IsFiniteSet(S) /\ n \in Nat
  BY TreesAreFinite
<1>2. \A i \in 1..n : file[i] \in S /\ file[i][1] \in Nat
  <2>1. \A d \in S : d[1] \in Nat
    BY TopicMapAssumption
  <2> QED
    BY <2>1
<1>3. \A i, j \in 1..n : file[i] = file[j] => i = j
  <2> SUFFICES ASSUME NEW i \in 1..n, NEW j \in 1..n, file[i] = file[j], i # j PROVE FALSE
    OBVIOUS
  <2>1. i < j \/ j < i
    BY <1>1
  <2> QED
    BY <1>2, <2>1 DEF Ascending
<1>4. \A i, j \in 1..n : file[j][1] =< file[i][1] <=> j =< i
  BY <1>1, <1>2 DEF Ascending
<1>5. file \in Injection(1..n, S)
  BY <1>3 DEF Injection, IsInjective
<1>6. IsFiniteSet(1..n) /\ Cardinality(1..n) = n
  BY <1>1, FS_Interval
<1>7. file \in Surjection(1..n, S)
  BY <1>1, <1>5, <1>6, FS_Injection
<1>8. \A d \in S : \E i \in 1..n : file[i] = d
  BY <1>7 DEF Surjection
<1>9. ToSet(file) = S
  BY <1>2, <1>8 DEF ToSet
<1>10. ASSUME NEW i \in 1..n PROVE Rank(S, file[i]) = i
  <2> DEFINE U == {e \in S : e[1] =< file[i][1]}
             g == [j \in 1..i |-> file[j]]
  <2>1. \A j \in 1..i : j \in 1..n /\ g[j] = file[j] /\ g[j] \in U
    BY <1>1, <1>2, <1>4
  <2>2. \A e \in U : \E j \in 1..i : g[j] = e
    <3> SUFFICES ASSUME NEW e \in U PROVE \E j \in 1..i : g[j] = e
      OBVIOUS
    <3>1. PICK j \in 1..n : file[j] = e
      BY <1>8
    <3>2. j \in 1..i
      BY <1>1, <1>4, <3>1
    <3> QED
      BY <2>1, <3>1, <3>2
  <2>3. \A j, k \in 1..i : g[j] = g[k] => j = k
    BY <1>3, <2>1
  <2>4. g \in [1..i -> U]
    BY <2>1
  <2> HIDE DEF g, U
  <2>5. g \in Bijection(1..i, U)
    BY <2>2, <2>3, <2>4 DEF Bijection, Injection, Surjection, IsInjective
  <2>6. ExistsBijection(1..i, U) /\ i \in Nat
    BY <1>1, <2>5 DEF ExistsBijection
  <2>7. Cardinality(U) = i
    BY <2>6, FS_CountingElements
  <2> QED
    BY <2>7 DEF U, Rank
<1> QED
  BY <1>9, <1>10

\* The reference map is a sorted file of the tree's declarations.
LEMMA MapIsSorted ==
  ASSUME NEW S \in SUBSET Declaration, Unambiguous(S)
  PROVE  /\ MapOf(S) \in [1..Cardinality(S) -> S] /\ Ascending(MapOf(S))
         /\ ToSet(MapOf(S)) = S
         /\ MapOf(S) \in Seq(Declaration)
<1> DEFINE n == Cardinality(S)
           f == [i \in 1..n |-> CHOOSE d \in S : Rank(S, d) = i]
<1>1. n \in Nat
  BY TreesAreFinite
<1>2. \A i \in 1..n : f[i] \in S /\ Rank(S, f[i]) = i
  BY RankIsBijection
<1>3. f \in [1..n -> S] /\ DOMAIN f = 1..n
  BY <1>2
<1> HIDE DEF f
<1>4. Ascending(f)
  BY <1>2, <1>3, RankFollowsName DEF Ascending
<1>5. MapOf(S) \in [1..n -> S] /\ Ascending(MapOf(S))
  BY <1>3, <1>4 DEF MapOf, Ascending
<1>6. ToSet(MapOf(S)) = S
  BY <1>5, SortedByRank
<1>7. MapOf(S) \in Seq(Declaration)
  BY <1>1, <1>5
<1> QED
  BY <1>5, <1>6, <1>7

\* It is the only one.
LEMMA MapIsUnique ==
  ASSUME NEW S \in SUBSET Declaration, Unambiguous(S),
         NEW file \in [1..Cardinality(S) -> S], Ascending(file)
  PROVE  file = MapOf(S)
<1>1. MapOf(S) \in [1..Cardinality(S) -> S] /\ Ascending(MapOf(S))
  BY MapIsSorted
<1>2. ASSUME NEW i \in 1..Cardinality(S) PROVE file[i] = MapOf(S)[i]
  <2>1. Rank(S, file[i]) = i /\ file[i] \in S
    BY SortedByRank
  <2>2. Rank(S, MapOf(S)[i]) = i /\ MapOf(S)[i] \in S
    BY <1>1, SortedByRank
  <2> QED
    BY <2>1, <2>2, RankIsBijection
<1> DEFINE n == Cardinality(S)
           map == MapOf(S)
<1>3. map \in [1..n -> S] /\ file \in [1..n -> S] /\ \A i \in 1..n : file[i] = map[i]
  BY <1>1, <1>2
<1> HIDE DEF n, map
<1>4. file = map
  <2>1. file = [i \in 1..n |-> file[i]] /\ map = [i \in 1..n |-> map[i]]
    BY <1>3
  <2>2. [i \in 1..n |-> file[i]] = [i \in 1..n |-> map[i]]
    BY <1>3
  <2> QED
    BY <2>1, <2>2, Zenon
<1> QED
  BY <1>4 DEF map

\* Sorting the entries of a Map gives the reference map.
LEMMA SortingGivesTheMap ==
  ASSUME NEW m \in Seq(Declaration), IsInjective(m), Unambiguous(ToSet(m))
  PROVE  SortedByName(m) = MapOf(ToSet(m))
<1> DEFINE S == ToSet(m)
           file == SortedByName(m)
<1>1. S \in SUBSET Declaration /\ Len(m) \in Nat /\ DOMAIN m = 1..Len(m)
  BY DEF ToSet
<1>2. Cardinality(S) = Len(m)
  <2>1. m \in Bijection(1..Len(m), S)
    BY <1>1 DEF Bijection, Injection, Surjection, IsInjective, ToSet
  <2> QED
    BY <1>1, <2>1, FS_CountingElements DEF ExistsBijection
<1>3. file = [i \in 1..Cardinality(S) |-> CHOOSE d \in S : Rank(S, d) = i]
  BY <1>2 DEF SortedByName, Rank
<1> HIDE DEF S, file
<1>4. Unambiguous(S)
  BY DEF S
<1>5. \A i \in 1..Cardinality(S) : file[i] \in S /\ Rank(S, file[i]) = i
  BY <1>1, <1>3, <1>4, RankIsBijection
<1>6. file \in [1..Cardinality(S) -> S]
  BY <1>3, <1>5
<1>7. Ascending(file)
  BY <1>1, <1>5, <1>6, RankFollowsName DEF Ascending
<1>8. file = MapOf(S)
  BY <1>1, <1>4, <1>6, <1>7, MapIsUnique
<1> QED
  BY <1>8 DEF S, file

\* The files of a tree, in any order, are its declarations.
LEMMA ScansAreComplete ==
  ASSUME NEW tree \in SUBSET Declaration, NEW scan \in CollectAggregateFiles(tree)
  PROVE  scan \in Seq(Declaration) /\ ToSet(scan) = tree
<1> DEFINE n == Cardinality(tree)
<1>1. IsFiniteSet(tree) /\ n \in Nat
  BY TreesAreFinite
<1>2. scan \in [1..n -> tree] /\ \A i, j \in 1..n : i # j => scan[i] # scan[j]
  BY DEF CollectAggregateFiles, SetToSeqs
<1>3. scan \in Injection(1..n, tree)
  BY <1>2 DEF Injection, IsInjective
<1>4. IsFiniteSet(1..n) /\ Cardinality(1..n) = n
  BY <1>1, FS_Interval
<1>5. scan \in Surjection(1..n, tree)
  BY <1>1, <1>3, <1>4, FS_Injection
<1>6. ToSet(scan) = tree
  BY <1>2, <1>5 DEF Surjection, ToSet
<1>7. scan \in Seq(Declaration)
  BY <1>1, <1>2
<1> QED
  BY <1>6, <1>7

\* The script fails on an ambiguous tree, and returns the reference map of any other,
\* whatever the order of the files.
LEMMA ScriptIsCorrect ==
  ASSUME NEW tree \in SUBSET Declaration, NEW scan \in CollectAggregateFiles(tree)
  PROVE  CollectMappings(scan) = IF Unambiguous(tree) THEN MapOf(tree) ELSE Error
<1>1. scan \in Seq(Declaration) /\ ToSet(scan) = tree
  BY ScansAreComplete
<1>2. IsMapOf(ByClassName(scan), tree)
  BY <1>1, LoopComputesMap
<1>3. CASE ~Unambiguous(tree)
  BY <1>2, <1>3 DEF IsMapOf, CollectMappings
<1>4. CASE Unambiguous(tree)
  <2>1. ByClassName(scan) \in Seq(Declaration) /\ ToSet(ByClassName(scan)) = tree
          /\ IsInjective(ByClassName(scan))
    BY <1>2, <1>4 DEF IsMapOf
  <2>2. ByClassName(scan) # Error
    BY <2>1, ErrorIsNoMap
  <2>3. SortedByName(ByClassName(scan)) = MapOf(tree)
    BY <1>4, <2>1, SortingGivesTheMap
  <2> QED
    BY <1>4, <2>2, <2>3 DEF CollectMappings
<1> QED
  BY <1>3, <1>4

-----------------------------------------------------------------------------
(* Merges.                                                                 *)

\* One line for each class: the lines of a sorted file.
LEMMA SortedIsUnambiguous ==
  ASSUME NEW file \in Seq(Declaration), SortedFile(file)
  PROVE  ToSet(file) \in SUBSET Declaration /\ Unambiguous(ToSet(file))
<1>1. \A i \in DOMAIN file : file[i] \in Declaration
  OBVIOUS
<1>2. \A d \in Declaration : d[1] \in Nat
  BY TopicMapAssumption
<1>3. ASSUME NEW i \in DOMAIN file, NEW j \in DOMAIN file, file[i][1] = file[j][1]
      PROVE  file[i] = file[j]
  <2>1. ~(i < j) /\ ~(j < i)
    BY <1>1, <1>2, <1>3 DEF SortedFile
  <2>2. i \in Nat /\ j \in Nat
    OBVIOUS
  <2>3. i = j
    BY <2>1, <2>2
  <2> QED
    BY <2>3
<1> QED
  BY <1>1, <1>3 DEF ToSet, Unambiguous

\* Without a conflict every class has the line of one side.
LEMMA MergedLinesAreUnambiguous ==
  ASSUME NEW b, NEW x, NEW y, ~Conflict(b, x, y),
         \A t \in {b, x, y} : ToSet(t.file) \in SUBSET Declaration
                                /\ Unambiguous(ToSet(t.file))
  PROVE  /\ MergedSet(ToSet(b.file), ToSet(x.file), ToSet(y.file)) \in SUBSET Declaration
         /\ Unambiguous(MergedSet(ToSet(b.file), ToSet(x.file), ToSet(y.file)))
<1> DEFINE B == ToSet(b.file)
           X == ToSet(x.file)
           Y == ToSet(y.file)
           M == MergedSet(B, X, Y)
           L(S, c) == {e \in S : e[1] = c}
<1>1. /\ B \in SUBSET Declaration /\ X \in SUBSET Declaration /\ Y \in SUBSET Declaration
      /\ Unambiguous(B) /\ Unambiguous(X) /\ Unambiguous(Y)
  OBVIOUS
<1>2. \A c \in Class : L(X, c) = L(B, c) \/ L(Y, c) = L(B, c) \/ L(X, c) = L(Y, c)
  BY DEF Conflict, LineOf
<1> HIDE DEF B, X, Y
<1>3. M \in SUBSET Declaration
  BY <1>1 DEF MergedSet
<1>4. ASSUME NEW d \in M, NEW e \in M, d[1] = e[1] PROVE d = e
  <2> DEFINE c == d[1]
  <2>1. c \in Class
    BY <1>3, TopicMapAssumption
  <2>2. d \in L(M, c) /\ e \in L(M, c)
    BY <1>4
  <2>3. \E S \in {B, X, Y} : L(M, c) \subseteq L(S, c)
    <3>1. CASE L(X, c) = L(B, c)
      <4>1. L(M, c) \subseteq L(Y, c)
        BY <3>1 DEF MergedSet
      <4> QED
        BY <4>1
    <3>2. CASE L(Y, c) = L(B, c)
      <4>1. L(M, c) \subseteq L(X, c)
        BY <3>2 DEF MergedSet
      <4> QED
        BY <4>1
    <3>3. CASE L(X, c) = L(Y, c)
      <4>1. L(M, c) \subseteq L(X, c)
        BY <3>3 DEF MergedSet
      <4> QED
        BY <4>1
    <3> QED
      BY <1>2, <2>1, <3>1, <3>2, <3>3
  <2>4. PICK S \in {B, X, Y} : L(M, c) \subseteq L(S, c)
    BY <2>3
  <2>5. d \in S /\ e \in S
    BY <2>2, <2>4
  <2> QED
    BY <1>1, <1>4, <2>5 DEF Unambiguous
<1>5. Unambiguous(M)
  BY <1>4 DEF Unambiguous
<1> QED
  BY <1>3, <1>5 DEF B, X, Y

\* The map of an unambiguous tree is a sorted file.
LEMMA MapIsSortedFile ==
  ASSUME NEW S \in SUBSET Declaration, Unambiguous(S)
  PROVE  MapOf(S) \in Seq(Declaration) /\ SortedFile(MapOf(S))
BY MapIsSorted DEF SortedFile, Ascending

\* Two branches that are both current, and started from a current main, merge into a
\* current one.
LEMMA CurrentMergesAreCurrent ==
  ASSUME NEW b, NEW x, NEW y, ~Conflict(b, x, y),
         \A t \in {b, x, y} : t.tree \in SUBSET Declaration /\ IsCurrent(t)
  PROVE  IsCurrent(Merged(b, x, y))
<1>1. \A t \in {b, x, y} : ToSet(t.file) = t.tree /\ Unambiguous(t.tree)
  BY MapIsSorted DEF IsCurrent
<1>2. Unambiguous(MergedSet(ToSet(b.file), ToSet(x.file), ToSet(y.file)))
  BY <1>1, MergedLinesAreUnambiguous
<1>3. MergedSet(ToSet(b.file), ToSet(x.file), ToSet(y.file))
        = MergedSet(b.tree, x.tree, y.tree)
  BY <1>1
<1> QED
  BY <1>2, <1>3 DEF IsCurrent, Merged

\* A checkout that passes gen:topics:check is current, in whatever order it is scanned.
LEMMA CheckMeansCurrent ==
  ASSUME NEW t, t.tree \in SUBSET Declaration, t.file \in Seq(Declaration),
         NEW scan \in CollectAggregateFiles(t.tree), Check(t, scan)
  PROVE  IsCurrent(t)
<1>1. t.file = IF Unambiguous(t.tree) THEN MapOf(t.tree) ELSE Error
  BY ScriptIsCorrect DEF Check
<1>2. t.file # Error
  BY ErrorIsNoMap
<1> QED
  BY <1>1, <1>2 DEF IsCurrent

-----------------------------------------------------------------------------
(* The specification.                                                      *)

\* A checkout: a tree and a file, sorted.
Checkout(t) ==
    /\ t.tree \in SUBSET Declaration
    /\ t.file \in Seq(Declaration)
    /\ SortedFile(t.file)

\* The inductive invariant.  Nothing keeps main or a branch current; what has passed the
\* check with this main is current when merged.
IInv ==
    /\ pr \in {"open", "passed", "stale"}
    /\ Checkout(branch) /\ Checkout(base) /\ Checkout(main)
    /\ pr = "passed" => IsCurrent(Merged(base, main, branch))

\* A merge without a conflict is a checkout.
LEMMA MergedIsCheckout ==
  ASSUME NEW b, NEW x, NEW y, Checkout(b), Checkout(x), Checkout(y), ~Conflict(b, x, y)
  PROVE  Checkout(Merged(b, x, y))
<1> DEFINE M == MergedSet(ToSet(b.file), ToSet(x.file), ToSet(y.file))
<1>1. \A t \in {b, x, y} : ToSet(t.file) \in SUBSET Declaration
                             /\ Unambiguous(ToSet(t.file))
  BY SortedIsUnambiguous DEF Checkout
<1>2. M \in SUBSET Declaration /\ Unambiguous(M)
  BY <1>1, MergedLinesAreUnambiguous
<1>3. MergedSet(b.tree, x.tree, y.tree) \in SUBSET Declaration
  BY DEF MergedSet, Checkout
<1> HIDE DEF M
<1>4. MapOf(M) \in Seq(Declaration) /\ SortedFile(MapOf(M))
  BY <1>2, MapIsSortedFile
<1> QED
  BY <1>3, <1>4 DEF Checkout, Merged, M

\* The initial state.
LEMMA InitIInv == Init => IInv
<1>1. Checkout(Empty)
  BY DEF Checkout, Empty, SortedFile, ToSet
<1> QED
  BY <1>1 DEF Init, IInv

\* The lines of a class, replaced by at most one other, leave one line for each class.
LEMMA OneLineReplaced ==
  ASSUME NEW S \in SUBSET Declaration, Unambiguous(S), NEW c \in Class,
         NEW line \in SUBSET {d \in Declaration : d[1] = c}, Cardinality(line) =< 1
  PROVE  LET T == {d \in S : d[1] # c} \cup line
         IN  T \in SUBSET Declaration /\ Unambiguous(T)
<1>1. line \in SUBSET Declaration
  OBVIOUS
<1>2. \A d, e \in line : d = e
  <2>1. IsFiniteSet(line) /\ Cardinality(line) \in Nat
    BY <1>1, TreesAreFinite
  <2> SUFFICES ASSUME NEW d \in line, NEW e \in line, d # e PROVE FALSE
    OBVIOUS
  <2>2. {d, e} \in SUBSET line
    OBVIOUS
  <2>3. Cardinality({d, e}) =< Cardinality(line)
    BY <2>1, <2>2, FS_Subset
  <2>4. Cardinality({d}) = 1 /\ IsFiniteSet({d})
    BY FS_Singleton
  <2>5. Cardinality({d} \cup {e}) = Cardinality({d}) + 1
    BY <2>4, FS_AddElement
  <2>6. {d, e} = {d} \cup {e}
    OBVIOUS
  <2> QED
    BY <2>1, <2>3, <2>4, <2>5, <2>6
<1> QED
  BY <1>1, <1>2 DEF Unambiguous

\* Every step.
LEMMA NextIInv == IInv /\ [Next]_vars => IInv'
<1> SUFFICES ASSUME IInv, [Next]_vars PROVE IInv'
  OBVIOUS
<1> USE DEF IInv
<1>1. CASE Commit
  <2>1. PICK work \in SUBSET Declaration :
          \E file \in {CollectMappings(scan) : scan \in CollectAggregateFiles(work)} \ {Error} :
            \E tree \in Staged(work) : branch' = [tree |-> tree, file |-> file]
    BY <1>1 DEF Commit
  <2>2. PICK scan \in CollectAggregateFiles(work), tree \in Staged(work) :
          /\ CollectMappings(scan) # Error
          /\ branch' = [tree |-> tree, file |-> CollectMappings(scan)]
    BY <2>1
  <2>3. tree \in SUBSET Declaration
    BY DEF Staged, Checkout
  <2>4. Unambiguous(work) /\ CollectMappings(scan) = MapOf(work)
    BY <2>2, ScriptIsCorrect
  <2>5. MapOf(work) \in Seq(Declaration) /\ SortedFile(MapOf(work))
    BY <2>4, MapIsSortedFile
  <2>6. Checkout(branch')
    BY <2>2, <2>3, <2>4, <2>5 DEF Checkout
  <2> QED
    BY <1>1, <2>6 DEF Commit
<1>2. CASE CommitWithoutHook
  <2>1. PICK tree \in SUBSET Declaration : branch' = [branch EXCEPT !.tree = tree]
    BY <1>2 DEF CommitWithoutHook
  <2>2. Checkout(branch')
    BY <2>1 DEF Checkout
  <2> QED
    BY <1>2, <2>2 DEF CommitWithoutHook
<1>3. CASE PassCheck
  <2> DEFINE t == Merged(base, main, branch)
  <2>1. ~Conflict(base, main, branch)
    BY <1>3 DEF PassCheck
  <2>2. PICK scan \in CollectAggregateFiles(t.tree) : Check(t, scan)
    BY <1>3 DEF PassCheck
  <2>3. Checkout(t)
    BY <2>1, MergedIsCheckout
  <2>4. IsCurrent(t)
    <3> HIDE DEF t
    <3> QED
      BY <2>2, <2>3, CheckMeansCurrent DEF Checkout
  <2> QED
    BY <1>3, <2>4 DEF PassCheck
<1>4. CASE Merge
  <2>1. Checkout(Merged(base, main, branch))
    BY <1>4, MergedIsCheckout DEF Merge
  <2> QED
    BY <1>4, <2>1 DEF Merge, Branch
<1>5. CASE OthersMerge
  <2> DEFINE Of(c) == {d \in Declaration : d[1] = c}
             Result(c, tree, line) ==
               /\ Cardinality(line) =< 1
               /\ main' = [tree |-> {d \in main.tree : d[1] # c} \cup tree,
                           file |-> MapOf({d \in ToSet(main.file) : d[1] # c} \cup line)]
  <2>0. PICK c \in Class :
          \E tree \in SUBSET Of(c) : \E line \in SUBSET Of(c) : Result(c, tree, line)
    BY <1>5 DEF OthersMerge
  <2>1. PICK tree \in SUBSET Of(c), line \in SUBSET Of(c) : Result(c, tree, line)
    BY <2>0
  <2> DEFINE T == {d \in ToSet(main.file) : d[1] # c} \cup line
  <2>2. ToSet(main.file) \in SUBSET Declaration /\ Unambiguous(ToSet(main.file))
    BY SortedIsUnambiguous DEF Checkout
  <2>3. T \in SUBSET Declaration /\ Unambiguous(T)
    BY <2>1, <2>2, OneLineReplaced
  <2>4. {d \in main.tree : d[1] # c} \cup tree \in SUBSET Declaration
    BY DEF Checkout
  <2> HIDE DEF T
  <2>5. MapOf(T) \in Seq(Declaration) /\ SortedFile(MapOf(T))
    BY <2>3, MapIsSortedFile
  <2>6. Checkout(main')
    BY <2>1, <2>4, <2>5 DEF Checkout, T
  <2>7. pr' \in {"open", "stale"} /\ branch' = branch /\ base' = base
    BY <1>5 DEF OthersMerge
  <2> QED
    BY <2>6, <2>7
<1>6. CASE NewBranch
  BY <1>6 DEF NewBranch, Branch
<1>7. CASE UNCHANGED vars
  BY <1>7 DEF vars, Checkout, IsCurrent, Merged
<1> QED
  BY <1>1, <1>2, <1>3, <1>4, <1>5, <1>6, <1>7 DEF Next

\* The inductive invariant holds.
LEMMA IInvHolds == Spec => []IInv
BY InitIInv, NextIInv, PTL DEF Spec

\* Types: every file that is committed or merged is sorted by class, with one line for
\* each, whatever was staged and whichever branches have met.
THEOREM TypeCorrect == Spec => []TypeOK
<1>1. IInv => TypeOK
  BY DEF IInv, TypeOK, Checkout
<1> QED
  BY <1>1, IInvHolds, PTL

\* generate-aggregate-module-map.ts is right on every checkout and in every order of
\* readdir: it fails exactly when a class is in two modules, and otherwise writes the one
\* sorted map.
THEOREM ScriptComputesTheMap == Spec => []GeneratedIsTheMap
<1>1. IInv => GeneratedIsTheMap
  BY ScriptIsCorrect DEF IInv, Checkout, GeneratedIsTheMap
<1> QED
  BY <1>1, IInvHolds, PTL

\* A pull request that was checked with this very main repairs or keeps the map, whatever the
\* state of main and of the branch; one whose check is stale keeps it if main, the branch and
\* the point they parted from are current.  Nothing is assumed of what others merge.
THEOREM MergesAreCurrent == Spec => MergesKeepTheMapCurrent
<1> DEFINE Exception == pr = "stale" /\ \E t \in {base, main, branch} : ~IsCurrent(t)
<1>1. IInv /\ [Next]_vars => [Merge => IsCurrent(main') \/ Exception]_vars
  <2> SUFFICES ASSUME IInv, Merge, ~Exception
               PROVE  IsCurrent(main')
    OBVIOUS
  <2>1. main' = Merged(base, main, branch) /\ ~Conflict(base, main, branch)
    BY DEF Merge
  <2>2. CASE pr = "passed"
    BY <2>1, <2>2 DEF IInv
  <2>3. CASE pr = "stale"
    <3>1. \A t \in {base, main, branch} : t.tree \in SUBSET Declaration /\ IsCurrent(t)
      BY <2>3 DEF IInv, Checkout
    <3> QED
      BY <2>1, <3>1, CurrentMergesAreCurrent
  <2> QED
    BY <2>2, <2>3 DEF Merge
<1> QED
  BY <1>1, IInvHolds, PTL DEF Spec, MergesKeepTheMapCurrent
=============================================================================
