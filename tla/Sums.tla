-------------------------------- MODULE Sums --------------------------------
(***************************************************************************)
(* Sums over finite sets: that SumFunctionOnSet of the community modules is *)
(* the sum, whatever order its fold picks the elements in.  And             *)
(* concatenations of sequences: what the recursion in FlattenSeq computes.  *)
(*                                                                          *)
(* Induction is done with sets: the counterexamples to a claim have a       *)
(* smallest one, by WFMin, or there are none.                               *)
(***************************************************************************)
EXTENDS Integers, SequencesExt, SequenceTheorems, FiniteSetTheorems, WellFoundedInduction, TLAPS

\* Every non-empty set of naturals has a least member.
LEMMA LeastNat ==
    ASSUME NEW T \in SUBSET Nat, T # {}
    PROVE  \E n \in T : \A m \in T : n <= m
<1>1. IsWellFoundedOn(OpToRel(<, Nat), Nat)
  BY NatLessThanWellFounded
<1>2. PICK n \in T : \A m \in T : ~(<<m, n>> \in OpToRel(<, Nat))
  BY <1>1, WFMin
<1>3. \A m \in T : ~(m < n)
  BY <1>2 DEF OpToRel
<1> QED
  BY <1>3

\* A set that holds 0 and, with a number, the next one holds every number.
LEMMA InductiveSet ==
    ASSUME NEW T, 0 \in T, \A n \in Nat : n \in T => n + 1 \in T
    PROVE  Nat \subseteq T
<1> SUFFICES ASSUME Nat \ T # {} PROVE FALSE
  OBVIOUS
<1>1. PICK n \in Nat \ T : \A m \in Nat \ T : n <= m
  BY LeastNat
<1>2. n - 1 \in Nat /\ n - 1 \in T
  BY <1>1
<1> QED
  BY <1>1, <1>2

\* Every non-empty family of subsets of a finite set has a smallest member.
LEMMA SmallestMember ==
    ASSUME NEW S, IsFiniteSet(S), NEW F \in SUBSET SUBSET S, F # {}
    PROVE  \E s \in F : \A t \in F : Cardinality(s) <= Cardinality(t)
<1> DEFINE T == {Cardinality(s) : s \in F}
<1>1. \A s \in F : Cardinality(s) \in Nat
  BY FS_Subset, FS_CardinalityType
<1>2. T \in SUBSET Nat /\ T # {}
  BY <1>1
<1>3. PICK n \in T : \A m \in T : n <= m
  <2> HIDE DEF T
  <2> QED
    BY <1>2, LeastNat
<1> QED
  BY <1>3

----------------------------------------------------------------------------
(* The recursion behind the fold *)

Pick(s) == CHOOSE x \in s : TRUE

\* sums is a table of the sums of f over the members of F.
IsSumTable(sums, f, F) ==
    sums = [s \in F |-> IF s = {} THEN 0 ELSE f[Pick(s)] + sums[s \ {Pick(s)}]]

SumTable(f, S) == CHOOSE sums : IsSumTable(sums, f, SUBSET S)

\* What SumFunctionOnSet computes.
LEMMA SumIsFromTable ==
    ASSUME NEW f, NEW S
    PROVE  SumFunctionOnSet(f, S) = SumTable(f, S)[S]
BY DEF SumFunctionOnSet, FoldFunctionOnSet, MapThenFoldSet, SumTable, IsSumTable, Pick

\* There is such a table: the recursion goes to smaller sets.
LEMMA SumTableExists ==
    ASSUME NEW S, IsFiniteSet(S), NEW f
    PROVE  IsSumTable(SumTable(f, S), f, SUBSET S)
<1> DEFINE Upto(n) == {s \in SUBSET S : Cardinality(s) <= n}
           T == {n \in Nat : \E sums : IsSumTable(sums, f, Upto(n))}
<1>0. \A s \in SUBSET S : IsFiniteSet(s) /\ Cardinality(s) \in Nat
  BY FS_Subset, FS_CardinalityType
<1>1. 0 \in T
  <2>1. Upto(0) = {{}}
    BY <1>0, FS_EmptySet
  <2>2. IsSumTable([s \in {{}} |-> 0], f, {{}})
    BY DEF IsSumTable
  <2> QED
    BY <2>1, <2>2
<1>2. ASSUME NEW n \in Nat, n \in T PROVE n + 1 \in T
  <2>1. PICK sums : IsSumTable(sums, f, Upto(n))
    BY <1>2
  <2> DEFINE next == [s \in Upto(n + 1) |->
                        IF s = {} THEN 0 ELSE f[Pick(s)] + sums[s \ {Pick(s)}]]
  <2>2. Upto(n) \subseteq Upto(n + 1)
    BY <1>0
  <2>3. \A s \in Upto(n) : next[s] = sums[s]
    BY <2>1, <2>2 DEF IsSumTable
  <2>4. ASSUME NEW s \in Upto(n + 1), s # {}
        PROVE  s \ {Pick(s)} \in Upto(n)
    <3>1. Pick(s) \in s
      BY <2>4 DEF Pick
    <3>2. Cardinality(s \ {Pick(s)}) = Cardinality(s) - 1
      BY <1>0, <3>1, FS_RemoveElement
    <3> QED
      BY <1>0, <3>2
  <2>5. \A s \in Upto(n + 1) :
          next[s] = IF s = {} THEN 0 ELSE f[Pick(s)] + next[s \ {Pick(s)}]
    BY <2>3, <2>4
  <2> HIDE DEF Upto
  <2>6. IsSumTable(next, f, Upto(n + 1))
    BY <2>5 DEF IsSumTable
  <2> QED
    BY <2>6
<1>3. Cardinality(S) \in T
  <2> HIDE DEF T
  <2> QED
    BY <1>0, <1>1, <1>2, InductiveSet
<1>4. Upto(Cardinality(S)) = SUBSET S
  BY FS_Subset
<1>5. \E sums : IsSumTable(sums, f, SUBSET S)
  BY <1>3, <1>4
<1> QED
  BY <1>5 DEF SumTable

\* The table at the empty set, and at a set of which any element is taken out.
LEMMA SumTableRecursion ==
    ASSUME NEW S, IsFiniteSet(S), NEW f, \A x \in S : f[x] \in Int
    PROVE  /\ SumTable(f, S)[{}] = 0
           /\ \A s \in SUBSET S :
                /\ SumTable(f, S)[s] \in Int
                /\ \A x \in s : SumTable(f, S)[s] = f[x] + SumTable(f, S)[s \ {x}]
<1> DEFINE sum == SumTable(f, S)
           Good(s) == /\ sum[s] \in Int
                      /\ \A x \in s : sum[s] = f[x] + sum[s \ {x}]
           Bad == {s \in SUBSET S : ~Good(s)}
<1>0. IsSumTable(sum, f, SUBSET S)
  BY SumTableExists
<1> HIDE DEF sum
<1>1. /\ sum[{}] = 0
      /\ \A s \in SUBSET S : s # {} => sum[s] = f[Pick(s)] + sum[s \ {Pick(s)}]
  BY <1>0 DEF IsSumTable
<1>2. ASSUME NEW s \in SUBSET S, ~Good(s), \A t \in Bad : Cardinality(s) <= Cardinality(t)
      PROVE  FALSE
  <2>0. Good({})
    BY <1>1
  <2>1. s # {}
    <3> HIDE DEF Good, Bad
    <3> QED
      BY <1>2, <2>0
  <2> DEFINE y == Pick(s)
  <2>2. y \in s
    BY <2>1 DEF Pick
  <2>3. sum[s] = f[y] + sum[s \ {y}]
    BY <1>1, <2>1
  <2> HIDE DEF y
  <2>4. /\ Cardinality(s) \in Nat
        /\ \A x \in s : /\ IsFiniteSet(s \ {x})
                        /\ Cardinality(s \ {x}) = Cardinality(s) - 1
    BY FS_Subset, FS_CardinalityType, FS_RemoveElement
  <2>5. ASSUME NEW t \in SUBSET s, t # s PROVE Good(t)
    <3>1. Cardinality(t) \in Nat /\ Cardinality(t) < Cardinality(s)
      BY <2>4, <2>5, FS_Subset, FS_CardinalityType
    <3>2. t \notin Bad
      BY <1>2, <2>4, <3>1
    <3> QED
      BY <3>2
  <2>6. \A x \in s : sum[s \ {x}] \in Int /\ f[x] \in Int
    BY <2>5
  <2>7. ASSUME NEW x \in s
        PROVE  sum[s] = f[x] + sum[s \ {x}]
    <3>1. CASE x = y
      BY <2>3, <3>1
    <3>2. CASE x # y
      <4> DEFINE rest == (s \ {x}) \ {y}
      <4>1. rest = (s \ {y}) \ {x} /\ rest \in SUBSET s /\ rest # s
        OBVIOUS
      <4>2. sum[s \ {y}] = f[x] + sum[rest]
        BY <2>2, <2>5, <3>2, <4>1
      <4>3. sum[s \ {x}] = f[y] + sum[rest]
        BY <2>2, <2>5, <3>2
      <4>4. sum[rest] \in Int
        BY <2>5, <4>1
      <4> HIDE DEF rest
      <4> QED
        BY <2>2, <2>3, <2>6, <4>2, <4>3, <4>4
    <3> QED
      BY <3>1, <3>2
  <2>8. Good(s)
    <3>1. sum[s] \in Int
      BY <2>2, <2>3, <2>6
    <3> QED
      BY <2>7, <3>1
  <2> HIDE DEF Good, Bad
  <2> QED
    BY <1>2, <2>8
<1>3. Bad = {}
  <2>1. Bad \in SUBSET SUBSET S
    OBVIOUS
  <2>2. \A s \in Bad : s \in SUBSET S /\ ~Good(s)
    OBVIOUS
  <2> HIDE DEF Bad, Good
  <2> QED
    BY <1>2, <2>1, <2>2, SmallestMember
<1>4. \A s \in SUBSET S : Good(s)
  BY <1>3
<1> QED
  BY <1>1, <1>4 DEF sum

----------------------------------------------------------------------------
(* Sums *)

\* A function that is nowhere else changed has the same sum elsewhere.
LEMMA SumTableAgrees ==
    ASSUME NEW S, IsFiniteSet(S), NEW f, NEW g, NEW r,
           \A x \in S : f[x] \in Int /\ g[x] \in Int,
           \A x \in S \ {r} : f[x] = g[x]
    PROVE  \A s \in SUBSET S : r \notin s => SumTable(f, S)[s] = SumTable(g, S)[s]
<1> DEFINE Bad == {s \in SUBSET S : r \notin s /\ SumTable(f, S)[s] # SumTable(g, S)[s]}
<1>1. ASSUME NEW s \in Bad, \A t \in Bad : Cardinality(s) <= Cardinality(t)
      PROVE  FALSE
  <2>1. s # {}
    <3>1. SumTable(f, S)[{}] = 0 /\ SumTable(g, S)[{}] = 0
      BY SumTableRecursion
    <3> QED
      BY <3>1
  <2>2. PICK x \in s : TRUE
    BY <2>1
  <2>3. Cardinality(s) \in Nat /\ Cardinality(s \ {x}) = Cardinality(s) - 1
    BY FS_Subset, FS_CardinalityType, FS_RemoveElement
  <2>4. s \ {x} \notin Bad
    BY <1>1, <2>3
  <2>5. SumTable(f, S)[s \ {x}] = SumTable(g, S)[s \ {x}]
    BY <2>4
  <2>6. /\ SumTable(f, S)[s] = f[x] + SumTable(f, S)[s \ {x}]
        /\ SumTable(g, S)[s] = g[x] + SumTable(g, S)[s \ {x}]
    BY SumTableRecursion
  <2> QED
    BY <2>5, <2>6
<1> QED
  BY <1>1, SmallestMember

\* The sum of numbers is a number, and natural if they are.
LEMMA SumType ==
    ASSUME NEW S, IsFiniteSet(S), NEW f, \A x \in S : f[x] \in Int
    PROVE  /\ SumFunctionOnSet(f, S) \in Int
           /\ (\A x \in S : f[x] = 0) => SumFunctionOnSet(f, S) = 0
<1> DEFINE Bad == {s \in SUBSET S : SumTable(f, S)[s] # 0}
<1>1. SumFunctionOnSet(f, S) \in Int
  BY SumTableRecursion, SumIsFromTable
<1>2. ASSUME \A x \in S : f[x] = 0,
             NEW s \in Bad, \A t \in Bad : Cardinality(s) <= Cardinality(t)
      PROVE  FALSE
  <2>0. SumTable(f, S)[{}] = 0
    BY SumTableRecursion
  <2>1. s # {}
    BY <2>0
  <2>2. PICK x \in s : TRUE
    BY <2>1
  <2>3. Cardinality(s) \in Nat /\ Cardinality(s \ {x}) = Cardinality(s) - 1
    BY FS_Subset, FS_CardinalityType, FS_RemoveElement
  <2>4. SumTable(f, S)[s \ {x}] = 0
    BY <1>2, <2>3
  <2>5. SumTable(f, S)[s] = f[x] + SumTable(f, S)[s \ {x}]
    BY SumTableRecursion
  <2>6. f[x] = 0
    BY <1>2
  <2> QED
    BY <2>4, <2>5, <2>6
<1>3. ASSUME \A x \in S : f[x] = 0 PROVE Bad = {}
  BY <1>2, <1>3, SmallestMember
<1>4. ASSUME \A x \in S : f[x] = 0 PROVE SumFunctionOnSet(f, S) = 0
  BY <1>3, <1>4, SumIsFromTable
<1> QED
  BY <1>1, <1>4

\* Changing one addend changes the sum by as much.
LEMMA SumChangesAtOne ==
    ASSUME NEW S, IsFiniteSet(S), NEW f, NEW g, NEW r \in S,
           \A x \in S : f[x] \in Int /\ g[x] \in Int,
           \A x \in S \ {r} : f[x] = g[x]
    PROVE  SumFunctionOnSet(g, S) = SumFunctionOnSet(f, S) + (g[r] - f[r])
<1>1. /\ SumTable(f, S)[S] = f[r] + SumTable(f, S)[S \ {r}]
      /\ SumTable(g, S)[S] = g[r] + SumTable(g, S)[S \ {r}]
      /\ SumTable(f, S)[S \ {r}] \in Int
  BY SumTableRecursion
<1>2. SumTable(f, S)[S \ {r}] = SumTable(g, S)[S \ {r}]
  BY SumTableAgrees
<1> QED
  BY <1>1, <1>2, SumIsFromTable

\* A finite set has as many members as its parts have together.
LEMMA PartsAddUp ==
    ASSUME NEW S, IsFiniteSet(S), NEW K, IsFiniteSet(K), NEW part, \A x \in S : part[x] \in K,
           NEW sizes, sizes = [k \in K |-> Cardinality({x \in S : part[x] = k})]
    PROVE  Cardinality(S) = SumFunctionOnSet(sizes, K)
<1> DEFINE Sizes(s) == [k \in K |-> Cardinality({x \in s : part[x] = k})]
           Bad == {s \in SUBSET S : Cardinality(s) # SumFunctionOnSet(Sizes(s), K)}
<1>1. ASSUME NEW s \in Bad, \A t \in Bad : Cardinality(s) <= Cardinality(t)
      PROVE  FALSE
  <2>1. /\ IsFiniteSet(s) /\ Cardinality(s) \in Nat
        /\ \A k \in K : LET P == {x \in s : part[x] = k}
                        IN  IsFiniteSet(P) /\ Cardinality(P) \in Nat
    <3>1. IsFiniteSet(s)
      BY FS_Subset
    <3>2. \A k \in K : {x \in s : part[x] = k} \subseteq s
      OBVIOUS
    <3> QED
      BY <3>1, <3>2, FS_Subset, FS_CardinalityType
  <2>2. s # {}
    <3>1. SUFFICES ASSUME s = {} PROVE FALSE
      OBVIOUS
    <3>2. \A k \in K : Sizes(s)[k] = 0 /\ Sizes(s)[k] \in Int
      BY <3>1, FS_EmptySet
    <3> HIDE DEF Sizes
    <3>3. SumFunctionOnSet(Sizes(s), K) = 0
      BY <3>2, SumType
    <3> QED
      BY <3>1, <3>3, FS_EmptySet
  <2>3. PICK y \in s : TRUE
    BY <2>2
  <2> DEFINE t == s \ {y}
  <2>4. part[y] \in K /\ t \in SUBSET S
    OBVIOUS
  <2>5. Cardinality(t) = Cardinality(s) - 1
    BY <2>1, FS_RemoveElement
  <2>6. Cardinality(t) = SumFunctionOnSet(Sizes(t), K)
    <3>1. t \notin Bad
      BY <1>1, <2>1, <2>5
    <3> QED
      BY <2>4, <3>1
  <2>7. /\ Sizes(t)[part[y]] = Sizes(s)[part[y]] - 1
        /\ \A k \in K \ {part[y]} : Sizes(t)[k] = Sizes(s)[k]
        /\ \A k \in K : Sizes(s)[k] \in Int /\ Sizes(t)[k] \in Int
    <3> DEFINE with == {x \in s : part[x] = part[y]}
    <3>1. /\ y \in with /\ {x \in t : part[x] = part[y]} = with \ {y}
          /\ \A k \in K \ {part[y]} : {x \in t : part[x] = k} = {x \in s : part[x] = k}
      OBVIOUS
    <3>2. \A k \in K : LET P == {x \in t : part[x] = k}
                      IN  IsFiniteSet(P) /\ Cardinality(P) \in Nat
      <4>1. \A k \in K : {x \in t : part[x] = k} \subseteq s
        OBVIOUS
      <4> QED
        BY <2>1, <4>1, FS_Subset, FS_CardinalityType
    <3>3. IsFiniteSet(with) /\ Cardinality(with) \in Nat
      BY <2>1, <2>4
    <3>4. Cardinality(with \ {y}) = Cardinality(with) - 1
      <4> HIDE DEF with
      <4> QED
        BY <3>1, <3>3, FS_RemoveElement
    <3>5. Sizes(t)[part[y]] = Sizes(s)[part[y]] - 1
      BY <2>4, <3>1, <3>4
    <3>6. \A k \in K : Sizes(s)[k] \in Int /\ Sizes(t)[k] \in Int
      <4> SUFFICES ASSUME NEW k \in K PROVE Sizes(s)[k] \in Int /\ Sizes(t)[k] \in Int
        OBVIOUS
      <4>1. /\ Sizes(t)[k] = Cardinality({x \in t : part[x] = k})
            /\ Sizes(s)[k] = Cardinality({x \in s : part[x] = k})
        OBVIOUS
      <4>2. /\ Cardinality({x \in t : part[x] = k}) \in Nat
            /\ Cardinality({x \in s : part[x] = k}) \in Nat
        BY <2>1, <3>2
      <4> HIDE DEF Sizes, t
      <4> QED
        BY <4>1, <4>2
    <3>7. \A k \in K \ {part[y]} : Sizes(t)[k] = Sizes(s)[k]
      <4> SUFFICES ASSUME NEW k \in K \ {part[y]} PROVE Sizes(t)[k] = Sizes(s)[k]
        OBVIOUS
      <4>1. {x \in t : part[x] = k} = {x \in s : part[x] = k}
        BY <3>1
      <4>2. /\ Sizes(t)[k] = Cardinality({x \in t : part[x] = k})
            /\ Sizes(s)[k] = Cardinality({x \in s : part[x] = k})
        OBVIOUS
      <4> HIDE DEF Sizes, t
      <4> QED
        BY <4>1, <4>2
    <3> HIDE DEF Sizes, t
    <3> QED
      BY <3>5, <3>6, <3>7
  <2> HIDE DEF Sizes, t
  <2>8. SumFunctionOnSet(Sizes(t), K) =
          SumFunctionOnSet(Sizes(s), K) + (Sizes(t)[part[y]] - Sizes(s)[part[y]])
    BY <2>4, <2>7, SumChangesAtOne
  <2>9. SumFunctionOnSet(Sizes(s), K) \in Int
    BY <2>7, SumType
  <2>10. Cardinality(s) = SumFunctionOnSet(Sizes(s), K)
    BY <2>1, <2>4, <2>5, <2>6, <2>7, <2>8, <2>9
  <2> QED
    BY <2>10
<1>2. Bad = {}
  <2> HIDE DEF Bad
  <2>1. Bad \in SUBSET SUBSET S
    BY DEF Bad
  <2> QED
    BY <1>1, <2>1, SmallestMember
<1> QED
  BY <1>2

----------------------------------------------------------------------------
(* Concatenating a sequence of sequences *)

\* f[i] is the concatenation of the first i members of s.
IsFlattening(f, s) ==
    f = [i \in 1..Len(s) |-> IF i = 1 THEN s[i] ELSE f[i-1] \o s[i]]

\* g does the same from 0 on.
Concatenates(g, s) ==
    g[0] = << >> /\ \A i \in 1..Len(s) : g[i] = g[i - 1] \o s[i]

FlatteningOf(s) == CHOOSE f : IsFlattening(f, s)

\* What FlattenSeq computes.
LEMMA FlattenSeqIsFlattening ==
    ASSUME NEW s
    PROVE  FlattenSeq(s) = IF Len(s) = 0 THEN s ELSE FlatteningOf(s)[Len(s)]
BY DEF FlattenSeq, FlatteningOf, IsFlattening

\* There is a table of the concatenations.
LEMMA ConcatenationExists ==
    ASSUME NEW A, NEW s \in Seq(Seq(A))
    PROVE  \E g : g \in [0..Len(s) -> Seq(A)] /\ Concatenates(g, s)
<1> DEFINE Is(g, n) == /\ g \in [0..n -> Seq(A)] /\ g[0] = << >>
                       /\ \A i \in 1..n : g[i] = g[i - 1] \o s[i]
           P(n) == \E g : Is(g, n)
           T == {n \in Nat : n <= Len(s) => P(n)}
<1>1. 0 \in T
  <2> DEFINE empty == [i \in 0..0 |-> << >>]
  <2>1. << >> \in Seq(A) /\ 1..0 = {} /\ 0 \in 0..0
    BY EmptySeq
  <2>2. empty \in [0..0 -> Seq(A)] /\ empty[0] = << >>
    BY <2>1
  <2> HIDE DEF empty
  <2>3. Is(empty, 0)
    BY <2>1, <2>2
  <2> QED
    BY <2>3
<1>2. ASSUME NEW n \in Nat, n \in T PROVE n + 1 \in T
  <2> SUFFICES ASSUME n + 1 <= Len(s) PROVE P(n + 1)
    <3> HIDE DEF P
    <3> QED
      OBVIOUS
  <2>0. P(n)
    <3>1. n <= Len(s)
      BY LenProperties
    <3> HIDE DEF P
    <3> QED
      BY <1>2, <3>1
  <2>1. PICK g : Is(g, n)
    BY <2>0
  <2> DEFINE h == [i \in 0..(n + 1) |-> IF i = n + 1 THEN g[n] \o s[n + 1] ELSE g[i]]
  <2>2. /\ n + 1 \in 1..Len(s) /\ n \in 0..n /\ 0 \in 0..n /\ 0 # n + 1
        /\ n + 1 \in 0..(n + 1) /\ 0 \in 0..(n + 1)
        /\ \A i \in 1..(n + 1) :
             /\ i \in 0..(n + 1) /\ i - 1 \in 0..(n + 1) /\ i - 1 # n + 1
             /\ (n + 1) - 1 = n
             /\ i # n + 1 => i \in 1..n
        /\ \A i \in 0..(n + 1) : i # n + 1 => i \in 0..n
    BY LenProperties
  <2>3. g[n] \o s[n + 1] \in Seq(A)
    <3>1. s[n + 1] \in Seq(A) /\ g[n] \in Seq(A)
      BY <2>1, <2>2, ElementOfSeq
    <3> QED
      BY <3>1, ConcatProperties
  <2>4. h \in [0..(n + 1) -> Seq(A)]
    BY <2>1, <2>2, <2>3
  <2>5. /\ h[n + 1] = g[n] \o s[n + 1]
        /\ \A i \in 0..(n + 1) : i # n + 1 => h[i] = g[i]
    BY <2>2
  <2> HIDE DEF h
  <2>6. h[0] = << >> /\ \A i \in 1..(n + 1) : h[i] = h[i - 1] \o s[i]
    <3>1. h[0] = << >>
      BY <2>1, <2>2, <2>5
    <3>2. h[n] = g[n]
      BY <2>2, <2>5
    <3>3. ASSUME NEW i \in 1..(n + 1), i # n + 1
          PROVE  h[i] = h[i - 1] \o s[i]
      <4>1. h[i] = g[i] /\ h[i - 1] = g[i - 1]
        BY <2>2, <2>5, <3>3
      <4>2. g[i] = g[i - 1] \o s[i]
        BY <2>1, <2>2, <3>3
      <4> QED
        BY <4>1, <4>2
    <3> QED
      BY <2>2, <2>5, <3>1, <3>2, <3>3
  <2> HIDE DEF h
  <2>7. Is(h, n + 1)
    BY <2>4, <2>6
  <2> QED
    BY <2>7
<1>3. Len(s) \in T
  <2> HIDE DEF T
  <2>1. Len(s) \in Nat
    OBVIOUS
  <2> QED
    BY <1>1, <1>2, <2>1, InductiveSet
<1>4. \E g : Is(g, Len(s))
  <2>1. Len(s) <= Len(s)
    BY LenProperties
  <2> HIDE DEF Is
  <2> QED
    BY <1>3, <2>1
<1> QED
  BY <1>4 DEF Concatenates

\* FlattenSeq is the last entry of any such table.
LEMMA FlattenSeqConcatenates ==
    ASSUME NEW A, NEW s \in Seq(Seq(A)), NEW g,
           g \in [0..Len(s) -> Seq(A)], Concatenates(g, s)
    PROVE  FlattenSeq(s) = g[Len(s)]
<1>1. Len(s) \in Nat
  OBVIOUS
<1>2. CASE Len(s) = 0
  <2>1. s = << >>
    BY <1>2
  <2> QED
    BY <1>2, <2>1, FlattenSeqIsFlattening DEF Concatenates
<1>3. CASE Len(s) # 0
  <2> DEFINE f == FlatteningOf(s)
             h == [i \in 1..Len(s) |-> g[i]]
  <2>1. ASSUME NEW i \in 1..Len(s)
        PROVE  h[i] = IF i = 1 THEN s[i] ELSE h[i - 1] \o s[i]
    <3>1. g[i] = g[i - 1] \o s[i] /\ g[0] = << >> /\ s[i] \in Seq(A)
      BY ElementOfSeq DEF Concatenates
    <3>2. CASE i = 1
      <4>1. << >> \o s[i] = s[i]
        BY <3>1, ConcatEmptySeq
      <4>2. h[i] = g[i] /\ i - 1 = 0
        BY <3>2
      <4> QED
        BY <3>1, <3>2, <4>1, <4>2
    <3>3. CASE i # 1
      <4>1. i - 1 \in 1..Len(s)
        BY <1>1, <3>3
      <4> QED
        BY <3>1, <3>3, <4>1
    <3> QED
      BY <3>2, <3>3
  <2>2. IsFlattening(h, s)
    BY <2>1 DEF IsFlattening
  <2>3. IsFlattening(f, s)
    BY <2>2 DEF FlatteningOf
  <2> HIDE DEF f, h
  <2>4. \A i \in 1..Len(s) : f[i] = IF i = 1 THEN s[i] ELSE f[i - 1] \o s[i]
    BY <2>3 DEF IsFlattening
  <2> DEFINE T == {n \in Nat : n + 1 \in 1..Len(s) => f[n + 1] = h[n + 1]}
  <2>5. 0 \in T
    <3>1. 1 \in 1..Len(s)
      BY <1>1, <1>3
    <3> QED
      BY <2>1, <2>4, <3>1
  <2>6. ASSUME NEW n \in Nat, n \in T PROVE n + 1 \in T
    <3> SUFFICES ASSUME n + 2 \in 1..Len(s) PROVE f[n + 2] = h[n + 2]
      OBVIOUS
    <3>1. n + 1 \in 1..Len(s) /\ n + 2 # 1 /\ (n + 2) - 1 = n + 1
      BY <1>1
    <3>2. f[n + 1] = h[n + 1]
      BY <2>6, <3>1
    <3> QED
      BY <2>1, <2>4, <3>1, <3>2
  <2>7. Len(s) - 1 \in T
    <3>1. Len(s) - 1 \in Nat
      BY <1>1, <1>3
    <3> HIDE DEF T
    <3> QED
      BY <2>5, <2>6, <3>1, InductiveSet
  <2>8. f[Len(s)] = h[Len(s)]
    BY <1>1, <1>3, <2>7
  <2>9. Len(s) \in 1..Len(s)
    BY <1>1, <1>3
  <2>10. h[Len(s)] = g[Len(s)]
    BY <2>9 DEF h
  <2>11. FlattenSeq(s) = f[Len(s)]
    BY <1>3, FlattenSeqIsFlattening DEF f
  <2> QED
    BY <2>8, <2>10, <2>11
<1> QED
  BY <1>2, <1>3

\* The concatenations of the first n members of a sequence of sequences.
LEMMA PrefixesConcatenate ==
    ASSUME NEW A, NEW s \in Seq(Seq(A))
    PROVE  /\ FlattenSeq(SubSeq(s, 1, 0)) = << >>
           /\ \A n \in 0..Len(s) : FlattenSeq(SubSeq(s, 1, n)) \in Seq(A)
           /\ \A n \in 1..Len(s) :
                FlattenSeq(SubSeq(s, 1, n)) = FlattenSeq(SubSeq(s, 1, n - 1)) \o s[n]
           /\ FlattenSeq(SubSeq(s, 1, Len(s))) = FlattenSeq(s)
<1>1. PICK g : g \in [0..Len(s) -> Seq(A)] /\ Concatenates(g, s)
  BY ConcatenationExists
<1>2. ASSUME NEW n \in 0..Len(s)
      PROVE  FlattenSeq(SubSeq(s, 1, n)) = g[n]
  <2> DEFINE t == SubSeq(s, 1, n)
             h == [i \in 0..n |-> g[i]]
  <2>1. /\ t \in Seq(Seq(A)) /\ Len(t) = n
        /\ \A i \in 1..n : t[i] = s[i]
    <3>1. \A i \in 1..n : i \in 1..Len(s) /\ 1 + i - 1 = i
      BY LenProperties
    <3>2. \A i \in 1..n : s[i] \in Seq(A)
      BY <3>1, ElementOfSeq
    <3>3. n \in Nat /\ n - 1 + 1 = n /\ (1 <= n <=> n # 0)
      BY LenProperties
    <3>4. /\ t \in Seq(Seq(A)) /\ Len(t) = IF 1 <= n THEN n - 1 + 1 ELSE 0
          /\ \A i \in 1..n - 1 + 1 : t[i] = s[1 + i - 1]
      BY <3>2, <3>3, SubSeqProperties
    <3> HIDE DEF t
    <3> QED
      BY <3>1, <3>3, <3>4
  <2>2. h \in [0..n -> Seq(A)] /\ h[n] = g[n] /\ \A i \in 0..n : h[i] = g[i]
    <3>1. n \in 0..n /\ \A i \in 0..n : i \in 0..Len(s)
      BY LenProperties
    <3>2. \A i \in 0..n : g[i] \in Seq(A)
      BY <1>1, <3>1
    <3> QED
      BY <3>1, <3>2
  <2>3. 0 \in 0..n /\ \A i \in 1..n : i \in 1..Len(s) /\ i - 1 \in 0..n /\ i \in 0..n
    BY LenProperties
  <2> HIDE DEF t, h
  <2>4. Concatenates(h, t)
    BY <1>1, <2>1, <2>2, <2>3 DEF Concatenates
  <2>5. FlattenSeq(t) = h[n]
    BY <2>1, <2>2, <2>4, FlattenSeqConcatenates
  <2> QED
    BY <2>2, <2>5 DEF t
<1>3. FlattenSeq(s) = g[Len(s)]
  BY <1>1, FlattenSeqConcatenates
<1>4. \A n \in 1..Len(s) : n - 1 \in 0..Len(s) /\ n \in 0..Len(s)
  OBVIOUS
<1>5. 0 \in 0..Len(s) /\ Len(s) \in 0..Len(s)
  OBVIOUS
<1> QED
  BY <1>1, <1>2, <1>3, <1>4, <1>5 DEF Concatenates

----------------------------------------------------------------------------
(* Sequences one member at a time *)

\* A sequence that is not empty is its front and its last member.
LEMMA SeqIsAppend ==
    ASSUME NEW A, NEW s \in Seq(A), s # << >>
    PROVE  /\ Front(s) \in Seq(A) /\ Last(s) \in A
           /\ s = Append(Front(s), Last(s))
           /\ Len(Front(s)) = Len(s) - 1
BY DEF Front, Last

LEMMA AppendIsSeq ==
    ASSUME NEW A, NEW s \in Seq(A), NEW x \in A
    PROVE  /\ Append(s, x) \in Seq(A) /\ Append(s, x) # << >>
           /\ Last(Append(s, x)) = x /\ Front(Append(s, x)) = s
           /\ Len(Append(s, x)) = Len(s) + 1
BY DEF Front, Last

\* A set that holds the empty sequence and, with a sequence, each that is one
\* member longer, holds every sequence.
LEMMA InductiveSeq ==
    ASSUME NEW A, NEW T, << >> \in T,
           \A s \in Seq(A), x \in A : s \in T => Append(s, x) \in T
    PROVE  Seq(A) \subseteq T
<1> DEFINE N == {n \in Nat : \A s \in Seq(A) : Len(s) = n => s \in T}
<1>1. 0 \in N
  OBVIOUS
<1>2. ASSUME NEW n \in Nat, n \in N PROVE n + 1 \in N
  <2> SUFFICES ASSUME NEW s \in Seq(A), Len(s) = n + 1 PROVE s \in T
    OBVIOUS
  <2>1. s # << >>
    BY <1>2
  <2>2. /\ Front(s) \in Seq(A) /\ Last(s) \in A /\ Len(Front(s)) = n
        /\ s = Append(Front(s), Last(s))
    BY <2>1, SeqIsAppend
  <2>3. Front(s) \in T
    BY <1>2, <2>2
  <2>4. Append(Front(s), Last(s)) \in T
    BY <2>2, <2>3
  <2> QED
    BY <2>2, <2>4
<1>3. Nat \subseteq N
  <2> HIDE DEF N
  <2> QED
    BY <1>1, <1>2, InductiveSet
<1> QED
  BY <1>3, LenProperties

\* Concatenating one sequence more.
LEMMA FlattenSeqAppend ==
    ASSUME NEW A, NEW ss \in Seq(Seq(A)), NEW x \in Seq(A)
    PROVE  /\ FlattenSeq(ss) \in Seq(A)
           /\ FlattenSeq(Append(ss, x)) = FlattenSeq(ss) \o x
<1> DEFINE s == Append(ss, x)
<1>1. s \in Seq(Seq(A)) /\ Len(s) = Len(ss) + 1 /\ s[Len(ss) + 1] = x
  OBVIOUS
<1>2. SubSeq(s, 1, Len(ss)) = ss
  OBVIOUS
<1>3. Len(ss) \in 0..Len(ss) /\ Len(s) \in 1..Len(s) /\ Len(s) - 1 = Len(ss) /\ Len(ss) \in Nat
  BY <1>1
<1> HIDE DEF s
<1>4. FlattenSeq(s) = FlattenSeq(ss) \o x
  BY <1>1, <1>2, <1>3, PrefixesConcatenate
<1>5. FlattenSeq(ss) \in Seq(A)
  BY <1>3, PrefixesConcatenate
<1> QED
  BY <1>4, <1>5 DEF s

LEMMA FlattenSeqEmpty == FlattenSeq(<< >>) = << >>
BY FlattenSeqIsFlattening

\* The same, of tables: one has an entry more than the other.
LEMMA FlattenSeqOneMore ==
    ASSUME NEW A, NEW n \in Nat, NEW p \in [1..n -> Seq(A)], NEW q \in [1..n + 1 -> Seq(A)],
           \A i \in 1..n : q[i] = p[i]
    PROVE  /\ FlattenSeq(p) \in Seq(A)
           /\ FlattenSeq(q) = FlattenSeq(p) \o q[n + 1]
<1>1. p \in Seq(Seq(A)) /\ Len(p) = n /\ q \in Seq(Seq(A)) /\ Len(q) = n + 1
  OBVIOUS
<1>2. n + 1 \in 1..n + 1 /\ q[n + 1] \in Seq(A)
  OBVIOUS
<1>3. /\ Append(p, q[n + 1]) \in Seq(Seq(A)) /\ Len(Append(p, q[n + 1])) = n + 1
      /\ \A i \in 1..n : Append(p, q[n + 1])[i] = p[i]
      /\ Append(p, q[n + 1])[n + 1] = q[n + 1]
  BY <1>1, <1>2
<1>4. ASSUME NEW i \in 1..n + 1 PROVE q[i] = Append(p, q[n + 1])[i]
  <2>1. i \in 1..n \/ i = n + 1
    OBVIOUS
  <2> QED
    BY <1>3, <2>1
<1>5. q = Append(p, q[n + 1])
  BY <1>1, <1>3, <1>4, SeqEqual
<1> QED
  BY <1>1, <1>2, <1>5, FlattenSeqAppend
=============================================================================
