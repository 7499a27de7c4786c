------------------------- MODULE ElectricityProofs -------------------------
(***************************************************************************)
(* Readings, shares and electricity bills, for any number of residents,    *)
(* rooms, readings and requests in flight: rows are well formed, the       *)
(* readings of a room form one chain, a split loses no paisa, and the      *)
(* bills follow the readings.                                              *)
(***************************************************************************)
EXTENDS ElectricityProperties, SequenceTheorems, FiniteSetTheorems, WellFoundedInduction, TLAPS

(* Sums over finite sets.  What SumFunctionOnSet unfolds to is a function  *)
(* on all subsets; that it exists, and is the only one, is shown by        *)
(* induction on subsets.                                                   *)
IsFold(f, x, S) ==
    f = [s \in SUBSET S |-> IF s = {} THEN 0
                            ELSE x[CHOOSE e \in s : TRUE] + f[s \ {CHOOSE e \in s : TRUE}]]

LEMMA Unfold ==
    ASSUME NEW x, NEW S, \E f : IsFold(f, x, S)
    PROVE  \E f : IsFold(f, x, S) /\ SumFunctionOnSet(x, S) = f[S]
<1> DEFINE g == CHOOSE f : IsFold(f, x, S)
<1>1. IsFold(g, x, S)
  BY Zenon
<1>2. SumFunctionOnSet(x, S) = g[S]
  BY Zenon DEF SumFunctionOnSet, FoldFunctionOnSet, MapThenFoldSet, IsFold
<1> QED  BY <1>1, <1>2

LEMMA SubsetInduction ==
    ASSUME NEW S, IsFiniteSet(S), NEW P, {} \in P,
           \A T \in SUBSET S : (T # {} /\ \A d \in T : T \ {d} \in P) => T \in P
    PROVE  S \in P
<1> DEFINE Bad == {n \in Nat : \E T \in SUBSET S : Cardinality(T) = n /\ T \notin P}
<1>1. SUFFICES ASSUME S \notin P  PROVE FALSE
  OBVIOUS
<1>2. \A T \in SUBSET S : IsFiniteSet(T) /\ Cardinality(T) \in Nat
  BY FS_Subset, FS_CardinalityType
<1>3. Cardinality(S) \in Bad
  BY <1>1, <1>2
<1>4. PICK n \in Bad : \A m \in Bad : n <= m
  <2>1. Bad \subseteq Nat /\ Bad # {}
    BY <1>3
  <2> HIDE DEF Bad
  <2>2. PICK n \in Bad : \A m \in Bad : <<m, n>> \notin OpToRel(<, Nat)
    BY <2>1, WFMin, NatLessThanWellFounded
  <2>3. ASSUME NEW m \in Bad  PROVE n <= m
    <3>1. m \in Nat /\ n \in Nat /\ ~(m < n)
      BY <2>1, <2>2 DEF OpToRel
    <3> QED  BY <3>1
  <2> QED  BY <2>3
<1>5. PICK T \in SUBSET S : Cardinality(T) = n /\ T \notin P
  BY <1>4
<1>6. ASSUME NEW d \in T  PROVE T \ {d} \in P
  <2>1. Cardinality(T \ {d}) = n - 1 /\ T \ {d} \in SUBSET S
    BY <1>2, <1>5, FS_RemoveElement
  <2>2. n \in Nat /\ n - 1 \in Nat
    BY <1>2, <1>5, <2>1
  <2>3. n - 1 \notin Bad
    BY <1>4, <2>2
  <2> QED  BY <2>1, <2>2, <2>3
<1> QED  BY <1>5, <1>6

LEMMA FoldPart ==
    ASSUME NEW x, NEW S, NEW f, IsFold(f, x, S), NEW T \in SUBSET S
    PROVE  IsFold([s \in SUBSET T |-> f[s]], x, T)
<1> DEFINE g == [s \in SUBSET T |-> f[s]]
<1>1. ASSUME NEW s \in SUBSET T
      PROVE  g[s] = IF s = {} THEN 0
                    ELSE x[CHOOSE e \in s : TRUE] + g[s \ {CHOOSE e \in s : TRUE}]
  <2>1. f[s] = IF s = {} THEN 0 ELSE x[CHOOSE e \in s : TRUE] + f[s \ {CHOOSE e \in s : TRUE}]
    BY DEF IsFold
  <2>2. s \ {CHOOSE e \in s : TRUE} \in SUBSET T
    OBVIOUS
  <2> QED  BY <2>1, <2>2
<1>2. g = [s \in SUBSET T |-> g[s]]
  OBVIOUS
<1> HIDE DEF g
<1>3. g = [s \in SUBSET T |-> IF s = {} THEN 0
                    ELSE x[CHOOSE e \in s : TRUE] + g[s \ {CHOOSE e \in s : TRUE}]]
  BY <1>1, <1>2, Zenon
<1>4. IsFold(g, x, T)
  BY <1>3, Zenon DEF IsFold
<1> QED  BY <1>4 DEF g

LEMMA FoldUnique ==
    ASSUME NEW x, NEW S, IsFiniteSet(S), NEW f, NEW g, IsFold(f, x, S), IsFold(g, x, S)
    PROVE  f[S] = g[S]
<1> DEFINE P == {T \in SUBSET S : f[T] = g[T]}
<1>1. \A T \in SUBSET S :
         f[T] = (IF T = {} THEN 0 ELSE x[CHOOSE e \in T : TRUE] + f[T \ {CHOOSE e \in T : TRUE}])
  BY Zenon DEF IsFold
<1>2. \A T \in SUBSET S :
         g[T] = (IF T = {} THEN 0 ELSE x[CHOOSE e \in T : TRUE] + g[T \ {CHOOSE e \in T : TRUE}])
  BY Zenon DEF IsFold
<1>3. {} \in P
  BY <1>1, <1>2
<1>4. ASSUME NEW T \in SUBSET S, T # {}, \A d \in T : T \ {d} \in P  PROVE T \in P
  <2>1. PICK c : c = CHOOSE e \in T : TRUE
    OBVIOUS
  <2>2. c \in T
    BY <1>4, <2>1
  <2>3. f[T \ {c}] = g[T \ {c}]
    BY <1>4, <2>2
  <2>4. f[T] = x[c] + f[T \ {c}] /\ g[T] = x[c] + g[T \ {c}]
    BY <1>1, <1>2, <1>4, <2>1
  <2> QED  BY <2>3, <2>4
<1> HIDE DEF P
<1>5. S \in P
  BY <1>3, <1>4, SubsetInduction
<1> QED  BY <1>5 DEF P

LEMMA FoldExists ==
    ASSUME NEW x, NEW S, IsFiniteSet(S)
    PROVE  \E f : IsFold(f, x, S)
<1> DEFINE P == {T \in SUBSET S : \E f : IsFold(f, x, T)}
           V(T) == CHOOSE f : IsFold(f, x, T)
<1>1. {} \in P
  <2> DEFINE z == [s \in SUBSET {} |-> 0]
  <2>1. z = [s \in SUBSET {} |-> IF s = {} THEN 0
                    ELSE x[CHOOSE e \in s : TRUE] + z[s \ {CHOOSE e \in s : TRUE}]]
    OBVIOUS
  <2> HIDE DEF z
  <2>2. IsFold(z, x, {})
    BY <2>1, Zenon DEF IsFold
  <2> QED  BY <2>2
<1>2. ASSUME NEW T \in SUBSET S, T # {}, \A d \in T : T \ {d} \in P  PROVE T \in P
  <2> DEFINE c(s) == CHOOSE e \in s : TRUE
             below(s) == IF s = {} THEN 0 ELSE x[c(s)] + V(s \ {c(s)})[s \ {c(s)}]
             g == [s \in SUBSET T |-> below(s)]
  <2>1. ASSUME NEW s \in SUBSET T, s # T  PROVE IsFold(V(s), x, s)
    <3>1. PICK d \in T : d \notin s
      BY <2>1
    <3>2. PICK f : IsFold(f, x, T \ {d})
      BY <1>2
    <3>3. IsFold([t \in SUBSET s |-> f[t]], x, s)
      BY <3>1, <3>2, FoldPart
    <3> QED  BY <3>3, Zenon
  <2>2. ASSUME NEW s \in SUBSET T, s # T  PROVE V(s)[s] = g[s]
    <3>1. IsFold(V(s), x, s)
      BY <2>1, <2>2
    <3>2. PICK f : f = V(s)
      OBVIOUS
    <3>3. f[s] = IF s = {} THEN 0 ELSE x[c(s)] + f[s \ {c(s)}]
      BY <3>1, <3>2, Zenon DEF IsFold
    <3>4. CASE s = {}
      BY <3>2, <3>3, <3>4
    <3>5. CASE s # {}
      <4>1. PICK r : r = s \ {c(s)}
        OBVIOUS
      <4>2. r \in SUBSET s /\ r \in SUBSET T /\ r # T /\ IsFiniteSet(r)
        <5>1. c(s) \in s
          BY <3>5
        <5>2. r \in SUBSET s /\ r \in SUBSET T /\ r # T /\ r \in SUBSET S
          <6> HIDE DEF c
          <6> QED  BY <4>1, <5>1
        <5> QED  BY <5>2, FS_Subset
      <4>3. IsFold([t \in SUBSET r |-> f[t]], x, r)
        BY <3>1, <3>2, <4>2, FoldPart
      <4>4. IsFold(V(r), x, r)
        BY <2>1, <4>2
      <4> HIDE DEF V
      <4>5. V(r)[r] = [t \in SUBSET r |-> f[t]][r]
        BY <4>2, <4>3, <4>4, FoldUnique
      <4>6. V(r)[r] = f[r]
        BY <4>5
      <4>7. g[s] = x[c(s)] + V(r)[r]
        BY <3>5, <4>1
      <4> QED  BY <3>2, <3>3, <3>5, <4>1, <4>6, <4>7
    <3> QED  BY <3>4, <3>5
  <2>3. ASSUME NEW s \in SUBSET T
        PROVE  g[s] = IF s = {} THEN 0 ELSE x[c(s)] + g[s \ {c(s)}]
    <3>1. CASE s = {}
      BY <3>1
    <3>2. CASE s # {}
      <4>1. PICK r : r = s \ {c(s)}
        OBVIOUS
      <4>2. c(s) \in s
        BY <3>2
      <4>3. r \in SUBSET T /\ r # T
        BY <4>1, <4>2
      <4> HIDE DEF V, c
      <4>4. g[s] = x[c(s)] + V(r)[r]
        BY <3>2, <4>1
      <4> HIDE DEF g
      <4>5. V(r)[r] = g[r]
        BY <2>2, <4>3
      <4> QED  BY <3>2, <4>1, <4>4, <4>5
    <3> QED  BY <3>1, <3>2
  <2>4. g = [s \in SUBSET T |-> g[s]]
    OBVIOUS
  <2> HIDE DEF g
  <2>5. g = [s \in SUBSET T |-> IF s = {} THEN 0 ELSE x[c(s)] + g[s \ {c(s)}]]
    BY <2>3, <2>4, Zenon
  <2>6. IsFold(g, x, T)
    BY <2>5, Zenon DEF IsFold
  <2> QED  BY <2>6
<1> HIDE DEF P
<1>3. S \in P
  BY <1>1, <1>2, SubsetInduction
<1> QED  BY <1>3 DEF P

LEMMA SumStep ==
    ASSUME NEW x, NEW S, IsFiniteSet(S)
    PROVE  /\ S = {} => SumFunctionOnSet(x, S) = 0
           /\ S # {} => LET c == CHOOSE e \in S : TRUE
                        IN  SumFunctionOnSet(x, S) = x[c] + SumFunctionOnSet(x, S \ {c})
<1>1. PICK f : IsFold(f, x, S) /\ SumFunctionOnSet(x, S) = f[S]
  BY FoldExists, Unfold
<1>2. f[S] = IF S = {} THEN 0 ELSE x[CHOOSE e \in S : TRUE] + f[S \ {CHOOSE e \in S : TRUE}]
  BY <1>1, Zenon DEF IsFold
<1>3. PICK r : r = S \ {CHOOSE e \in S : TRUE}
  OBVIOUS
<1>4. r \in SUBSET S /\ IsFiniteSet(r)
  BY <1>3, FS_Subset
<1>5. PICK g : IsFold(g, x, r) /\ SumFunctionOnSet(x, r) = g[r]
  BY <1>4, FoldExists, Unfold
<1>6. IsFold([t \in SUBSET r |-> f[t]], x, r)
  BY <1>1, <1>4, FoldPart
<1>7. g[r] = [t \in SUBSET r |-> f[t]][r]
  BY <1>4, <1>5, <1>6, FoldUnique
<1> QED  BY <1>1, <1>2, <1>3, <1>5, <1>7

LEMMA SumEmpty == ASSUME NEW x  PROVE SumFunctionOnSet(x, {}) = 0
<1>1. IsFiniteSet({})
  BY FS_EmptySet
<1> QED  BY <1>1, SumStep

(* Any element may be taken out first.                                     *)
Numbers(x, S) == \A e \in S : x[e] \in Int

LEMMA SumInt ==
    ASSUME NEW x, NEW S, IsFiniteSet(S), Numbers(x, S)
    PROVE  SumFunctionOnSet(x, S) \in Int
<1> DEFINE P == {T \in SUBSET S : SumFunctionOnSet(x, T) \in Int}
<1>1. {} \in P
  BY SumEmpty
<1>2. ASSUME NEW T \in SUBSET S, T # {}, \A d \in T : T \ {d} \in P  PROVE T \in P
  <2>1. PICK c : c = CHOOSE e \in T : TRUE
    OBVIOUS
  <2>2. c \in T /\ x[c] \in Int
    BY <1>2, <2>1 DEF Numbers
  <2>3. SumFunctionOnSet(x, T) = x[c] + SumFunctionOnSet(x, T \ {c})
    BY <1>2, <2>1, SumStep, FS_Subset
  <2> QED  BY <1>2, <2>2, <2>3
<1> HIDE DEF P
<1>3. S \in P
  BY <1>1, <1>2, SubsetInduction
<1> QED  BY <1>3 DEF P

LEMMA SumSplit ==
    ASSUME NEW x, NEW S, IsFiniteSet(S), Numbers(x, S), NEW d \in S
    PROVE  SumFunctionOnSet(x, S) = x[d] + SumFunctionOnSet(x, S \ {d})
<1> DEFINE P == {T \in SUBSET S : \A a \in T :
                    SumFunctionOnSet(x, T) = x[a] + SumFunctionOnSet(x, T \ {a})}
<1>1. {} \in P
  OBVIOUS
<1>2. ASSUME NEW T \in SUBSET S, T # {}, \A a \in T : T \ {a} \in P  PROVE T \in P
  <2>1. PICK c : c = CHOOSE e \in T : TRUE
    OBVIOUS
  <2>2. c \in T /\ x[c] \in Int
    BY <1>2, <2>1 DEF Numbers
  <2>3. SumFunctionOnSet(x, T) = x[c] + SumFunctionOnSet(x, T \ {c})
    BY <1>2, <2>1, SumStep, FS_Subset
  <2>4. ASSUME NEW a \in T, a # c
        PROVE  SumFunctionOnSet(x, T) = x[a] + SumFunctionOnSet(x, T \ {a})
    <3>1. PICK U : U = (T \ {c}) \ {a}
      OBVIOUS
    <3>2. U = (T \ {a}) \ {c} /\ U \in SUBSET S /\ a \in T \ {c} /\ c \in T \ {a}
      BY <2>2, <2>4, <3>1
    <3>3. SumFunctionOnSet(x, T \ {c}) = x[a] + SumFunctionOnSet(x, U)
      BY <1>2, <2>2, <3>1, <3>2
    <3>4. SumFunctionOnSet(x, T \ {a}) = x[c] + SumFunctionOnSet(x, U)
      BY <1>2, <3>2
    <3>5. x[a] \in Int /\ SumFunctionOnSet(x, U) \in Int
      BY <2>4, <3>2, SumInt, FS_Subset DEF Numbers
    <3> QED  BY <2>2, <2>3, <3>3, <3>4, <3>5
  <2> QED  BY <2>3, <2>4
<1> HIDE DEF P
<1>3. S \in P
  BY <1>1, <1>2, SubsetInduction
<1> QED  BY <1>3 DEF P

LEMMA SumNat ==
    ASSUME NEW x, NEW S, IsFiniteSet(S), \A e \in S : x[e] \in Nat
    PROVE  SumFunctionOnSet(x, S) \in Nat
<1> DEFINE P == {T \in SUBSET S : SumFunctionOnSet(x, T) \in Nat}
<1>1. {} \in P
  BY SumEmpty
<1>2. ASSUME NEW T \in SUBSET S, T # {}, \A d \in T : T \ {d} \in P  PROVE T \in P
  <2>1. PICK c \in T : TRUE
    BY <1>2
  <2>2. SumFunctionOnSet(x, T) = x[c] + SumFunctionOnSet(x, T \ {c})
    BY <2>1, SumSplit, FS_Subset DEF Numbers
  <2> QED  BY <1>2, <2>1, <2>2
<1> HIDE DEF P
<1>3. S \in P
  BY <1>1, <1>2, SubsetInduction
<1> QED  BY <1>3 DEF P

(* Counted once for each element of a part of the set.                     *)
LEMMA SumPlusOnes ==
    ASSUME NEW x, NEW y, NEW S, IsFiniteSet(S), Numbers(x, S), NEW L \in SUBSET S,
           \A e \in S : y[e] = x[e] + (IF e \in L THEN 1 ELSE 0)
    PROVE  SumFunctionOnSet(y, S) = SumFunctionOnSet(x, S) + Cardinality(L)
<1> DEFINE P == {T \in SUBSET S :
                    SumFunctionOnSet(y, T) = SumFunctionOnSet(x, T) + Cardinality(T \cap L)}
<1>1. {} \in P
  <2>1. {} \cap L = {}
    OBVIOUS
  <2> QED  BY <2>1, SumEmpty, FS_EmptySet
<1>2. ASSUME NEW T \in SUBSET S, T # {}, \A d \in T : T \ {d} \in P  PROVE T \in P
  <2>1. PICK c \in T : TRUE
    BY <1>2
  <2>2. IsFiniteSet(T) /\ Numbers(x, T) /\ Numbers(y, T)
    BY FS_Subset DEF Numbers
  <2>3. SumFunctionOnSet(x, T) = x[c] + SumFunctionOnSet(x, T \ {c})
        /\ SumFunctionOnSet(y, T) = y[c] + SumFunctionOnSet(y, T \ {c})
    BY <2>1, <2>2, SumSplit
  <2>4. IsFiniteSet(T \cap L) /\ (T \ {c}) \cap L = (T \cap L) \ {c}
    BY FS_Subset
  <2>5. Cardinality((T \cap L) \ {c})
          = IF c \in T \cap L THEN Cardinality(T \cap L) - 1 ELSE Cardinality(T \cap L)
    BY <2>4, FS_RemoveElement
  <2>6. Cardinality(T \cap L) \in Nat
    BY <2>4, FS_CardinalityType
  <2>7. SumFunctionOnSet(y, T \ {c}) = SumFunctionOnSet(x, T \ {c}) + Cardinality((T \ {c}) \cap L)
    BY <1>2, <2>1
  <2>8. SumFunctionOnSet(x, T \ {c}) \in Int /\ x[c] \in Int
    <3>1. IsFiniteSet(T \ {c}) /\ Numbers(x, T \ {c})
      BY <2>2, FS_Subset DEF Numbers
    <3> QED  BY <2>1, <2>2, <3>1, SumInt DEF Numbers
  <2>9. y[c] = x[c] + (IF c \in L THEN 1 ELSE 0)
    BY <2>1
  <2>10. PICK n, m, a : /\ n = Cardinality(T \cap L) /\ m = Cardinality((T \ {c}) \cap L)
                        /\ a = SumFunctionOnSet(x, T \ {c})
    OBVIOUS
  <2>11. n \in Nat /\ a \in Int /\ x[c] \in Int /\ m = IF c \in L THEN n - 1 ELSE n
    BY <2>1, <2>4, <2>5, <2>6, <2>8, <2>10
  <2>12. SumFunctionOnSet(x, T) = x[c] + a /\ SumFunctionOnSet(y, T) = y[c] + (a + m)
    BY <2>3, <2>7, <2>10
  <2>13. SumFunctionOnSet(y, T) = SumFunctionOnSet(x, T) + n
    BY <2>9, <2>11, <2>12
  <2> QED  BY <2>10, <2>13
<1> HIDE DEF P
<1>3. S \in P
  BY <1>1, <1>2, SubsetInduction
<1>4. S \cap L = L
  OBVIOUS
<1> QED  BY <1>3, <1>4 DEF P

(* Renaming the elements changes nothing.                                  *)
LEMMA SumRenamed ==
    ASSUME NEW x, NEW y, NEW S, IsFiniteSet(S), Numbers(x, S), NEW h,
           \A a, b \in S : h[a] = h[b] => a = b,
           \A e \in S : y[h[e]] = x[e]
    PROVE  SumFunctionOnSet(y, {h[e] : e \in S}) = SumFunctionOnSet(x, S)
<1> DEFINE Of(T) == {h[e] : e \in T}
           P == {T \in SUBSET S : /\ IsFiniteSet(Of(T))
                                  /\ SumFunctionOnSet(y, Of(T)) = SumFunctionOnSet(x, T)}
<1>1. {} \in P
  <2>1. Of({}) = {}
    OBVIOUS
  <2> HIDE DEF Of
  <2> QED  BY <2>1, SumEmpty, FS_EmptySet
<1>2. ASSUME NEW T \in SUBSET S, T # {}, \A d \in T : T \ {d} \in P  PROVE T \in P
  <2>1. PICK c \in T : TRUE
    BY <1>2
  <2>2. IsFiniteSet(T) /\ Numbers(x, T)
    BY FS_Subset DEF Numbers
  <2>3. IsFiniteSet(Of(T))
    <3>1. PICK U : U = Of(T \ {c})
      OBVIOUS
    <3>2. IsFiniteSet(U)
      BY <1>2, <2>1, <3>1
    <3>3. Of(T) = U \cup {h[c]}
      BY <2>1, <3>1
    <3>4. IsFiniteSet(U \cup {h[c]})
      BY <3>2, FS_AddElement
    <3> QED  BY <3>3, <3>4
  <2>4. Numbers(y, Of(T)) /\ h[c] \in Of(T)
    BY <2>1, <2>2 DEF Numbers
  <2>5. Of(T) \ {h[c]} = Of(T \ {c})
    BY <2>1
  <2>6. SumFunctionOnSet(y, Of(T \ {c})) = SumFunctionOnSet(x, T \ {c})
    BY <1>2, <2>1
  <2>7. SumFunctionOnSet(x, T) = x[c] + SumFunctionOnSet(x, T \ {c})
    BY <2>1, <2>2, SumSplit
  <2> HIDE DEF Of
  <2>8. SumFunctionOnSet(y, Of(T)) = y[h[c]] + SumFunctionOnSet(y, Of(T) \ {h[c]})
    BY <2>3, <2>4, SumSplit
  <2> QED  BY <2>1, <2>3, <2>5, <2>6, <2>7, <2>8
<1> HIDE DEF P
<1>3. S \in P
  BY <1>1, <1>2, SubsetInduction
<1> QED  BY <1>3 DEF P

(* A sum of naturals is at least each of them.                             *)
LEMMA SumCovers ==
    ASSUME NEW x, NEW S, IsFiniteSet(S), \A e \in S : x[e] \in Nat, NEW d \in S
    PROVE  x[d] <= SumFunctionOnSet(x, S)
<1>1. SumFunctionOnSet(x, S) = x[d] + SumFunctionOnSet(x, S \ {d})
  BY SumSplit DEF Numbers
<1>2. SumFunctionOnSet(x, S \ {d}) \in Nat
  BY SumNat, FS_Subset
<1> QED  BY <1>1, <1>2
-----------------------------------------------------------------------------

(* What a step keeps, whatever requests are in flight: readings, whom they *)
(* are shared by, and the lines of bills.                                  *)
Grows ==
    /\ Len(reading) <= Len(reading')
    /\ \A i \in DOMAIN reading : SharedBy(i) \subseteq SharedBy(i)'
    /\ \A s \in Stays : Len(bill[s]) <= Len(bill'[s])

Tables ==
    /\ lives \in [Rooms -> SUBSET AllocationRows]
    /\ reading \in Seq(Readings) /\ bill \in [Stays -> Seq(Lines)]
    /\ calls \in Nat /\ mishaps \in Nat

Good(c) == c \in CallRows /\ IsFiniteSet(c.charges) /\ WorksOn(c)
CallsOK == call \in [Actors -> CallRows] /\ \A w \in Actors : Good(call[w])

Typed == Tables /\ CallsOK

LEMMA TypedIsTypeOK == Typed => TypeOK
BY DEF Typed, Tables, CallsOK, Good, TypeOK

LEMMA Positions ==
    ASSUME NEW S, NEW s \in Seq(S)
    PROVE  /\ Len(s) \in Nat /\ DOMAIN s = 1..Len(s) /\ s \in [1..Len(s) -> S]
           /\ s = <<>> <=> Len(s) = 0
BY LenProperties, ElementOfSeq, EmptySeq

LEMMA Put ==
    ASSUME NEW S, NEW s \in Seq(S), NEW i \in DOMAIN s, NEW row \in S
    PROVE  LET t == [s EXCEPT ![i] = row]
           IN  /\ t \in Seq(S) /\ DOMAIN t = DOMAIN s /\ Len(t) = Len(s)
               /\ t[i] = row /\ \A j \in DOMAIN s : j # i => t[j] = s[j]
<1> DEFINE t == [s EXCEPT ![i] = row]
<1>1. DOMAIN s = 1..Len(s) /\ Len(s) \in Nat /\ s \in [1..Len(s) -> S]
  BY Positions
<1>2. t \in [1..Len(s) -> S]
  BY <1>1
<1>3. t \in Seq(S)
  BY <1>1, <1>2, SeqDef
<1>4. DOMAIN t = DOMAIN s /\ t[i] = row /\ \A j \in DOMAIN s : j # i => t[j] = s[j]
  BY <1>1
<1>5. Len(t) = Len(s)
  <2> HIDE DEF t
  <2> QED  BY <1>1, <1>3, <1>4, Positions
<1> QED  BY <1>3, <1>4, <1>5

LEMMA Added ==
    ASSUME NEW S, NEW s \in Seq(S), NEW row \in S
    PROVE  LET t == Append(s, row)
           IN  /\ t \in Seq(S) /\ Len(t) = Len(s) + 1 /\ DOMAIN t = 1..(Len(s) + 1)
               /\ t[Len(s) + 1] = row /\ \A j \in DOMAIN s : t[j] = s[j]
BY AppendProperties, Positions

LEMMA StillGood ==
    ASSUME Tables, Tables', Grows, NEW c, Good(c)
    PROVE  Good(c)'
<1>1. /\ Len(reading) \in Nat /\ Len(reading') \in Nat /\ DOMAIN reading = 1..Len(reading)
      /\ \A s \in Stays : /\ Len(bill[s]) \in Nat /\ Len(bill'[s]) \in Nat
                          /\ DOMAIN bill[s] = 1..Len(bill[s]) /\ DOMAIN bill'[s] = 1..Len(bill'[s])
                          /\ bill[s] = <<>> <=> Len(bill[s]) = 0
                          /\ bill'[s] = <<>> <=> Len(bill'[s]) = 0
  BY Positions DEF Tables
<1>2. c \in CallRows /\ IsFiniteSet(c.charges) /\ WorksOn(c)
  BY DEF Good
<1>3. c.existing \in Nat /\ c.known \subseteq Stays /\ c.charges \subseteq Charges
  BY <1>2 DEF CallRows
<1>4. c.existing # 0 => c.existing \in DOMAIN reading
  BY <1>1, <1>2, <1>3 DEF WorksOn
<1>5. c.at = "edit" => c.stay \in Stays /\ c.line \in DOMAIN bill'[c.stay]
  BY <1>1, <1>2 DEF WorksOn, Grows
<1>6. \A e \in c.charges : e.of \in 0..Len(reading')
  BY <1>1, <1>2 DEF WorksOn, Grows
<1>7. \A s \in c.known : bill'[s] # <<>>
  BY <1>1, <1>2, <1>3 DEF WorksOn, Grows
<1>8. c.existing \in 0..Len(reading')
  BY <1>1, <1>2 DEF WorksOn, Grows
<1>9. c.at = "share" => c.existing # 0 /\ c.stay \in SharedBy(c.existing)'
  BY <1>2, <1>4 DEF WorksOn, Grows
<1>10. WorksOn(c)'
  BY <1>2, <1>5, <1>6, <1>7, <1>8, <1>9 DEF WorksOn
<1> QED  BY <1>2, <1>10 DEF Good

LEMMA Unread == ASSUME UNCHANGED <<reading, bill>>, Tables  PROVE Grows
BY Positions DEF Grows, SharedBy, Tables

(* A step moves one call.                                                  *)
LEMMA OneCall ==
    ASSUME Typed, Tables', Grows, NEW w \in Actors, NEW c, Goto(w, c), Good(c)'
    PROVE  Typed'
<1>1. call' = [call EXCEPT ![w] = c]
  BY DEF Goto
<1>2. c \in CallRows
  BY DEF Good
<1>3. call' \in [Actors -> CallRows]
  BY <1>1, <1>2 DEF Typed, CallsOK
<1>4. ASSUME NEW v \in Actors  PROVE Good(call[v])'
  <2>1. CASE v = w
    BY <1>1, <2>1 DEF Typed, CallsOK
  <2>2. CASE v # w
    <3>1. call'[v] = call[v] /\ Good(call[v])
      BY <1>1, <2>2 DEF Typed, CallsOK
    <3>2. PICK d : d = call[v]
      OBVIOUS
    <3>3. Good(d)'
      BY <3>1, <3>2, StillGood DEF Typed
    <3> QED  BY <3>1, <3>2, <3>3
  <2> QED  BY <2>1, <2>2
<1> QED  BY <1>3, <1>4 DEF Typed, CallsOK

LEMMA MovesOn ==
    ASSUME Typed, NEW w \in Actors, NEW c, UNCHANGED <<lives, reading, bill, calls, mishaps>>,
           Goto(w, c), Good(c)
    PROVE  Typed'
<1>1. Tables' /\ Grows
  BY Unread DEF Typed, Tables
<1>2. Good(c)'
  BY <1>1, StillGood DEF Typed
<1> QED  BY <1>1, <1>2, OneCall

(* A label on which nothing depends.                                       *)
Plain == {"idle", "shares", "bills", "attach", "entries", "enter", "next", "attached", "done",
          "failed"}

LEMMA Relabelled ==
    ASSUME NEW c, Good(c), NEW l \in Plain
    PROVE  Good([c EXCEPT !.at = l]) /\ [c EXCEPT !.at = l].at = l
<1> DEFINE d == [c EXCEPT !.at = l]
<1>1. c \in CallRows /\ WorksOn(c) /\ IsFiniteSet(c.charges)
  BY DEF Good
<1>2. /\ d \in CallRows /\ d.at = l /\ d.existing = c.existing /\ d.charges = c.charges
      /\ d.known = c.known
  BY <1>1 DEF CallRows, Labels, Plain
<1> HIDE DEF d
<1>3. WorksOn(d)
  BY <1>1, <1>2 DEF WorksOn, Plain
<1>4. Good(d)
  BY <1>1, <1>2, <1>3 DEF Good
<1> QED  BY <1>2, <1>4 DEF d

LEMMA FailsTyped ==
    ASSUME Typed, NEW w \in Actors, Fails(w), UNCHANGED <<lives, calls>>, mishaps' \in Nat
    PROVE  Typed'
<1>1. Tables' /\ Grows
  BY Unread DEF Typed, Tables, Fails
<1>2. PICK c : c = [call[w] EXCEPT !.at = "failed"]
  OBVIOUS
<1>3. Good(c)
  BY <1>2, Relabelled DEF Typed, CallsOK, Plain
<1>4. Good(c)'
  BY <1>1, <1>3, StillGood DEF Typed
<1> QED  BY <1>1, <1>2, <1>4, OneCall DEF Fails

LEMMA NoCallGood == ASSUME Tables  PROVE Good(NoCall)
<1>1. NoCall \in CallRows
  BY DEF NoCall, CallRows, Labels
<1>2. Len(reading) \in Nat
  BY Positions DEF Tables
<1>3. IsFiniteSet(NoCall.charges)
  BY FS_EmptySet DEF NoCall
<1> QED  BY <1>1, <1>2, <1>3 DEF Good, WorksOn, NoCall
-----------------------------------------------------------------------------
(* What a split of an amount over days adds up to.                         *)
Days(rows) == [x \in rows |-> x.days]

LEMMA SumCombined ==
    ASSUME NEW x, NEW y, NEW z, NEW k \in Int, NEW m \in Int, NEW S, IsFiniteSet(S),
           Numbers(x, S), Numbers(y, S), Numbers(z, S),
           \A e \in S : k * x[e] = m * y[e] + z[e]
    PROVE  k * SumFunctionOnSet(x, S) = m * SumFunctionOnSet(y, S) + SumFunctionOnSet(z, S)
<1> DEFINE P == {T \in SUBSET S : k * SumFunctionOnSet(x, T)
                                    = m * SumFunctionOnSet(y, T) + SumFunctionOnSet(z, T)}
<1>1. {} \in P
  BY SumEmpty
<1>2. ASSUME NEW T \in SUBSET S, T # {}, \A d \in T : T \ {d} \in P  PROVE T \in P
  <2>1. PICK c \in T : TRUE
    BY <1>2
  <2>2. PICK U : U = T \ {c}
    OBVIOUS
  <2>3. IsFiniteSet(T) /\ IsFiniteSet(U) /\ U \in P
        /\ Numbers(x, T) /\ Numbers(y, T) /\ Numbers(z, T)
        /\ Numbers(x, U) /\ Numbers(y, U) /\ Numbers(z, U)
    BY <1>2, <2>1, <2>2, FS_Subset DEF Numbers
  <2>4. PICK p, q, r : /\ p = SumFunctionOnSet(x, U) /\ q = SumFunctionOnSet(y, U)
                       /\ r = SumFunctionOnSet(z, U)
    OBVIOUS
  <2>5. p \in Int /\ q \in Int /\ r \in Int /\ k * p = m * q + r
    BY <2>3, <2>4, SumInt
  <2>6. /\ SumFunctionOnSet(x, T) = x[c] + p /\ SumFunctionOnSet(y, T) = y[c] + q
        /\ SumFunctionOnSet(z, T) = z[c] + r
    BY <2>1, <2>2, <2>3, <2>4, SumSplit
  <2>7. x[c] \in Int /\ y[c] \in Int /\ z[c] \in Int /\ k * x[c] = m * y[c] + z[c]
    BY <2>1 DEF Numbers
  <2>8. k * (x[c] + p) = k * x[c] + k * p /\ m * (y[c] + q) = m * y[c] + m * q
    BY <2>5, <2>7
  <2>9. k * (x[c] + p) = m * (y[c] + q) + (z[c] + r)
    <3>1. PICK a, b, d, e : a = k * x[c] /\ b = k * p /\ d = m * y[c] /\ e = m * q
      OBVIOUS
    <3>2. a \in Int /\ b \in Int /\ d \in Int /\ e \in Int
      BY <2>5, <2>7, <3>1
    <3>3. a = d + z[c] /\ b = e + r
      BY <2>5, <2>7, <3>1
    <3>4. a + b = (d + e) + (z[c] + r)
      BY <2>5, <2>7, <3>2, <3>3
    <3>5. m * (y[c] + q) = d + e /\ k * (x[c] + p) = a + b
      BY <2>8, <3>1
    <3> QED  BY <3>4, <3>5
  <2> QED  BY <2>6, <2>9
<1> HIDE DEF P
<1>3. S \in P
  BY <1>1, <1>2, SubsetInduction
<1> QED  BY <1>3 DEF P

(* At most b for each element of a part of the set, and nothing elsewhere. *)
LEMMA SumAtMost ==
    ASSUME NEW x, NEW S, IsFiniteSet(S), NEW L \in SUBSET S, NEW b \in Nat,
           \A e \in S : x[e] \in Nat /\ x[e] <= b /\ (e \notin L => x[e] = 0)
    PROVE  SumFunctionOnSet(x, S) <= b * Cardinality(L)
<1> DEFINE P == {T \in SUBSET S : SumFunctionOnSet(x, T) <= b * Cardinality(T \cap L)}
<1>1. {} \in P
  <2>1. {} \cap L = {}
    OBVIOUS
  <2> QED  BY <2>1, SumEmpty, FS_EmptySet
<1>2. ASSUME NEW T \in SUBSET S, T # {}, \A d \in T : T \ {d} \in P  PROVE T \in P
  <2>1. PICK c \in T : TRUE
    BY <1>2
  <2>2. IsFiniteSet(T) /\ IsFiniteSet(T \ {c}) /\ IsFiniteSet(T \cap L)
        /\ (T \ {c}) \cap L = (T \cap L) \ {c}
    BY FS_Subset
  <2>3. SumFunctionOnSet(x, T) = x[c] + SumFunctionOnSet(x, T \ {c})
    BY <2>1, <2>2, SumSplit DEF Numbers
  <2>4. PICK n, m, a : /\ n = Cardinality(T \cap L) /\ m = Cardinality((T \ {c}) \cap L)
                       /\ a = SumFunctionOnSet(x, T \ {c})
    OBVIOUS
  <2>5. n \in Nat /\ m = IF c \in L THEN n - 1 ELSE n
    <3>1. Cardinality((T \cap L) \ {c})
            = IF c \in T \cap L THEN Cardinality(T \cap L) - 1 ELSE Cardinality(T \cap L)
      BY <2>2, FS_RemoveElement
    <3> QED  BY <2>1, <2>2, <2>4, <3>1, FS_CardinalityType
  <2>6. a \in Nat
    BY <2>2, <2>4, SumNat
  <2>7. a <= b * m
    BY <1>2, <2>1, <2>4
  <2>8. x[c] \in Nat /\ x[c] <= b /\ (c \notin L => x[c] = 0)
    BY <2>1
  <2>9. c \in L => b * m = b * n - b
    BY <2>5
  <2>10. b * n \in Int /\ b * m \in Int
    BY <2>5
  <2>11. x[c] + a <= b * n
    <3>1. CASE c \in L
      BY <3>1, <2>6, <2>7, <2>8, <2>9, <2>10
    <3>2. CASE c \notin L
      BY <3>2, <2>5, <2>6, <2>7, <2>8, <2>10
    <3> QED  BY <3>1, <3>2
  <2> QED  BY <2>3, <2>4, <2>11
<1> HIDE DEF P
<1>3. S \in P
  BY <1>1, <1>2, SubsetInduction
<1>4. S \cap L = L
  OBVIOUS
<1> QED  BY <1>3, <1>4 DEF P

LEMMA Divided ==
    ASSUME NEW a \in Nat, NEW W \in Nat, W > 0
    PROVE  a \div W \in Nat /\ a % W \in Nat /\ a % W < W /\ a = (W * (a \div W)) + (a % W)
OBVIOUS

LEMMA TotalIsSum ==
    ASSUME NEW rows, IsFiniteSet(rows), \A x \in rows : x.days \in Nat
    PROVE  total(rows) = SumFunctionOnSet(Days(rows), rows) /\ total(rows) \in Nat
<1>1. total(rows) = SumFunctionOnSet(Days(rows), rows)
  BY DEF total, SumFunction, Days
<1>2. SumFunctionOnSet(Days(rows), rows) \in Nat
  BY SumNat DEF Days
<1> QED  BY <1>1, <1>2

(* allocatePaise: the parts are natural numbers, they sum to the amount,   *)
(* and none is a whole paisa away from the days' worth.  A paisa left over *)
(* goes to nobody whose part came out even: there are fewer such paise     *)
(* than rows with a fraction.                                              *)
LEMMA AllocatedPaise ==
    ASSUME NEW amount \in Nat, NEW rows, IsFiniteSet(rows), \A x \in rows : x.days \in Nat,
           total(rows) > 0, NEW paise \in allocatePaise(amount, rows)
    PROVE  /\ paise \in [rows -> Nat]
           /\ SumFunctionOnSet(paise, rows) = amount
           /\ \A x \in rows : LET off == paise[x] * total(rows) - amount * x.days
                              IN  -total(rows) < off /\ off < total(rows)
<1> DEFINE W == total(rows)
           q == Floors(amount, rows)
           f == [x \in rows |-> Fraction(amount, rows, x)]
<1>1. W \in Nat /\ W > 0 /\ W = SumFunctionOnSet(Days(rows), rows)
  BY TotalIsSum
<1>2. ASSUME NEW x \in rows
      PROVE  /\ q[x] \in Nat /\ f[x] \in Nat /\ f[x] < W
             /\ amount * x.days = W * q[x] + f[x]
  <2>1. PICK a : a = amount * x.days
    OBVIOUS
  <2>2. a \in Nat
    BY <2>1
  <2>3. q[x] = a \div W /\ f[x] = a % W
    BY <2>1 DEF Floors, Fraction
  <2> HIDE DEF W, q, f
  <2> QED  BY <1>1, <2>1, <2>2, <2>3, Divided
<1>3. PICK lucky \in SUBSET rows :
          /\ paise = [x \in rows |-> q[x] + (IF x \in lucky THEN 1 ELSE 0)]
          /\ Cardinality(lucky) = amount - SumFunction(q)
          /\ \A x \in lucky, y \in rows \ lucky : f[x] >= f[y]
  <2>1. PICK lucky \in SUBSET rows :
          /\ paise = [x \in rows |-> q[x] + (IF x \in lucky THEN 1 ELSE 0)]
          /\ Cardinality(lucky) = amount - SumFunction(q)
          /\ \A x \in lucky, y \in rows \ lucky :
                Fraction(amount, rows, x) >= Fraction(amount, rows, y)
    BY DEF allocatePaise
  <2>2. \A x \in rows : f[x] = Fraction(amount, rows, x)
    OBVIOUS
  <2> HIDE DEF q, f
  <2> QED  BY <2>1, <2>2
<1>4. DOMAIN q = rows
  BY DEF Floors
<1> HIDE DEF W, q, f
<1>5. SumFunctionOnSet(q, rows) \in Nat
  BY <1>2, SumNat
<1>6. Cardinality(lucky) = amount - SumFunctionOnSet(q, rows)
  BY <1>3, <1>4 DEF SumFunction
<1>7. \A x \in rows : paise[x] = q[x] + (IF x \in lucky THEN 1 ELSE 0)
  BY <1>3
<1>8. SumFunctionOnSet(paise, rows) = amount
  <2>1. Numbers(q, rows)
    BY <1>2 DEF Numbers
  <2>2. SumFunctionOnSet(paise, rows) = SumFunctionOnSet(q, rows) + Cardinality(lucky)
    BY <1>7, <2>1, SumPlusOnes
  <2> QED  BY <1>5, <1>6, <2>2
<1>9. SumFunctionOnSet(f, rows) = W * Cardinality(lucky)
  <2>1. Numbers(Days(rows), rows) /\ Numbers(q, rows) /\ Numbers(f, rows)
    BY <1>2 DEF Numbers, Days
  <2>2. \A x \in rows : amount * Days(rows)[x] = W * q[x] + f[x]
    BY <1>2 DEF Days
  <2>3. amount * W = W * SumFunctionOnSet(q, rows) + SumFunctionOnSet(f, rows)
    BY <1>1, <2>1, <2>2, SumCombined
  <2>4. SumFunctionOnSet(f, rows) \in Nat
    BY <1>2, SumNat
  <2>5. PICK n, m, g : /\ n = SumFunctionOnSet(q, rows) /\ m = Cardinality(lucky)
                       /\ g = SumFunctionOnSet(f, rows)
    OBVIOUS
  <2>6. n \in Nat /\ g \in Nat /\ m = amount - n /\ amount * W = W * n + g
    BY <1>5, <1>6, <2>3, <2>4, <2>5
  <2>7. W * (amount - n) = W * amount - W * n /\ amount * W = W * amount
    BY <1>1, <2>6
  <2>8. W * n \in Int /\ W * amount \in Int
    BY <1>1, <2>6
  <2>9. g = W * amount - W * n
    BY <2>6, <2>7, <2>8
  <2> QED  BY <2>5, <2>6, <2>7, <2>9
<1>10. ASSUME NEW c \in lucky  PROVE f[c] > 0
  <2>1. SUFFICES ASSUME f[c] = 0  PROVE FALSE
    BY <1>2
  <2>2. \A e \in rows : f[e] \in Nat /\ f[e] <= W /\ (e \notin lucky \ {c} => f[e] = 0)
    BY <1>1, <1>2, <1>3, <2>1
  <2>3. SumFunctionOnSet(f, rows) <= W * Cardinality(lucky \ {c})
    BY <1>1, <2>2, SumAtMost
  <2>4. IsFiniteSet(lucky) /\ Cardinality(lucky) \in Nat
    BY FS_Subset, FS_CardinalityType
  <2>5. Cardinality(lucky \ {c}) = Cardinality(lucky) - 1
    BY <2>4, FS_RemoveElement
  <2>6. W * Cardinality(lucky) <= W * (Cardinality(lucky) - 1)
    BY <1>9, <2>3, <2>5
  <2>7. W * (Cardinality(lucky) - 1) = W * Cardinality(lucky) - W /\ W * Cardinality(lucky) \in Int
    BY <1>1, <2>4
  <2> QED  BY <1>1, <2>6, <2>7
<1>11. ASSUME NEW x \in rows
       PROVE  LET off == paise[x] * W - amount * x.days  IN -W < off /\ off < W
  <2>1. amount * x.days = W * q[x] + f[x] /\ q[x] \in Nat /\ f[x] \in Nat /\ f[x] < W
    BY <1>2
  <2>2. W * q[x] \in Int /\ q[x] * W = W * q[x] /\ (q[x] + 1) * W = W * q[x] + W
    BY <1>1, <2>1
  <2>3. CASE x \in lucky
    <3>1. paise[x] = q[x] + 1 /\ f[x] > 0
      BY <1>7, <1>10, <2>3
    <3> QED  BY <1>1, <2>1, <2>2, <3>1
  <2>4. CASE x \notin lucky
    <3>1. paise[x] = q[x]
      BY <1>7, <2>1, <2>4
    <3> QED  BY <1>1, <2>1, <2>2, <3>1
  <2> QED  BY <2>3, <2>4
<1>12. paise \in [rows -> Nat]
  BY <1>2, <1>3
<1> QED  BY <1>8, <1>11, <1>12 DEF W

LEMMA SplitNat ==
    ASSUME NEW amount \in Nat, NEW rows, IsFiniteSet(rows), \A x \in rows : x.days \in Nat,
           NEW paise \in splitElectricity(amount, rows)
    PROVE  paise \in [rows -> Nat]
<1>1. CASE total(rows) = 0
  BY <1>1 DEF splitElectricity
<1>2. CASE total(rows) # 0
  <2>1. total(rows) > 0
    BY <1>2, TotalIsSum
  <2>2. paise \in allocatePaise(amount, rows)
    BY <1>2 DEF splitElectricity
  <2> QED  BY <2>1, <2>2, AllocatedPaise
<1> QED  BY <1>1, <1>2
-----------------------------------------------------------------------------
(* A request arrives: those in flight are no longer alone, and the answers *)
(* of earlier ones are forgotten.                                          *)
Busy == {v \in Workers : InFlight(v)}

LEMMA Arrives ==
    ASSUME call \in [Actors -> CallRows], NEW w \in Workers, NEW row \in CallRows, Begin(w, row)
    PROVE  /\ call' \in [Actors -> CallRows]
           /\ UNCHANGED <<lives, reading, bill, mishaps>>
           /\ ~InFlight(w) /\ w # Job /\ calls' = calls + 1
           /\ call'[w] = [row EXCEPT !.alone = (Busy = {})]
           /\ \A v \in Actors \ {w} :
                 /\ v \in Busy => call'[v] = [call[v] EXCEPT !.alone = FALSE]
                 /\ (v \notin Busy /\ v = Job) => call'[v] = call[v]
                 /\ (v \notin Busy /\ v # Job) => call'[v] = NoCall
<1> DEFINE after(v) == CASE v = w -> [row EXCEPT !.alone = (Busy = {})]
                         [] v \in Busy -> [call[v] EXCEPT !.alone = FALSE]
                         [] v = Job -> call[v]
                         [] OTHER -> NoCall
<1>1. call' = [v \in Actors |-> after(v)]
  BY Zenon DEF Begin, Busy
<1>2. w \notin Busy /\ w # Job /\ Job \notin Busy /\ w \in Actors
  BY ElectricityAssumption DEF Begin, Busy, Actors
<1>3. after(w) = [row EXCEPT !.alone = (Busy = {})]
  BY <1>2
<1>4. ASSUME NEW v \in Actors \ {w}
      PROVE  /\ v \in Busy => after(v) = [call[v] EXCEPT !.alone = FALSE]
             /\ (v \notin Busy /\ v = Job) => after(v) = call[v]
             /\ (v \notin Busy /\ v # Job) => after(v) = NoCall
  <2>1. CASE v \in Busy
    BY <1>2, <2>1
  <2>2. CASE v \notin Busy /\ v = Job
    BY <1>2, <2>2
  <2>3. CASE v \notin Busy /\ v # Job
    BY <1>2, <2>3
  <2> QED  BY <2>1, <2>2, <2>3
<1>5. \A b \in BOOLEAN : [row EXCEPT !.alone = b] \in CallRows
  BY DEF CallRows
<1>6. \A v \in Actors : [call[v] EXCEPT !.alone = FALSE] \in CallRows
  BY DEF CallRows
<1>7. NoCall \in CallRows
  BY DEF NoCall, CallRows, Labels
<1>8. (Busy = {}) \in BOOLEAN
  OBVIOUS
<1> HIDE DEF after
<1>9. \A v \in Actors : call'[v] = after(v) /\ after(v) \in CallRows
  <2> TAKE v \in Actors
  <2>1. after(v) \in CallRows
    <3>1. PICK b \in BOOLEAN : b = (Busy = {})
      BY <1>8
    <3>2. CASE v = w
      BY <1>3, <1>5, <3>1, <3>2
    <3>3. CASE v # w /\ v \in Busy
      BY <1>4, <1>6, <3>3
    <3>4. CASE v # w /\ v \notin Busy
      BY <1>4, <1>7, <3>4
    <3> QED  BY <3>2, <3>3, <3>4
  <2> QED  BY <1>1, <2>1
<1>10. call' \in [Actors -> CallRows]
  BY <1>1, <1>9
<1> QED  BY <1>2, <1>3, <1>4, <1>9, <1>10 DEF Begin

LEMMA Marked ==
    ASSUME NEW c, Good(c), NEW b \in BOOLEAN
    PROVE  Good([c EXCEPT !.alone = b])
<1> DEFINE d == [c EXCEPT !.alone = b]
<1>1. c \in CallRows /\ WorksOn(c) /\ IsFiniteSet(c.charges)
  BY DEF Good
<1>2. /\ d \in CallRows /\ d.at = c.at /\ d.existing = c.existing /\ d.charges = c.charges
      /\ d.known = c.known /\ d.room = c.room /\ d.stay = c.stay /\ d.line = c.line
  BY <1>1 DEF CallRows
<1> HIDE DEF d
<1>3. WorksOn(d)
  BY <1>1, <1>2 DEF WorksOn
<1>4. Good(d)
  BY <1>1, <1>2, <1>3 DEF Good
<1> QED  BY <1>4 DEF d

LEMMA BeginTyped ==
    ASSUME Typed, NEW w \in Workers, NEW row, Good(row), Begin(w, row)
    PROVE  Typed'
<1>1. row \in CallRows /\ call \in [Actors -> CallRows] /\ w \in Actors
  BY DEF Good, Typed, CallsOK, Actors
<1>2. Tables' /\ Grows
  <2>1. UNCHANGED <<lives, reading, bill, mishaps>> /\ calls' = calls + 1 /\ Tables
    BY <1>1, Arrives DEF Typed
  <2>2. Tables'
    BY <2>1 DEF Tables
  <2> QED  BY <2>1, <2>2, Unread
<1>3. ASSUME NEW v \in Actors  PROVE Good(call'[v])
  <2>1. Good(call[v]) /\ Good(NoCall) /\ (Busy = {}) \in BOOLEAN
    BY NoCallGood DEF Typed, CallsOK
  <2>2. CASE v = w
    <3>1. PICK b \in BOOLEAN : b = (Busy = {})
      BY <2>1
    <3>2. call'[w] = [row EXCEPT !.alone = b]
      BY <1>1, <3>1, Arrives
    <3> QED  BY <2>2, <3>2, Marked
  <2>3. CASE v # w /\ v \in Busy
    <3>1. call'[v] = [call[v] EXCEPT !.alone = FALSE]
      BY <1>1, <2>3, Arrives
    <3> QED  BY <2>1, <3>1, Marked
  <2>4. CASE v # w /\ v \notin Busy
    BY <1>1, <2>1, <2>4, Arrives
  <2> QED  BY <2>2, <2>3, <2>4
<1>4. ASSUME NEW v \in Actors  PROVE Good(call[v])'
  <2>1. PICK c : c = call'[v]
    OBVIOUS
  <2>2. Good(c)
    BY <1>3, <2>1
  <2>3. Good(c)'
    BY <1>2, <2>2, StillGood DEF Typed
  <2> QED  BY <2>1, <2>3
<1>5. call' \in [Actors -> CallRows]
  BY <1>1, Arrives
<1> QED  BY <1>2, <1>4, <1>5 DEF Typed, CallsOK

LEMMA SharesOf ==
    ASSUME Tables, NEW i \in DOMAIN reading, NEW s \in SharedBy(i)
    PROVE  Charge(i, s) \in Charges /\ Charge(i, s).of \in 0..Len(reading)
<1>1. DOMAIN reading = 1..Len(reading) /\ Len(reading) \in Nat /\ reading[i] \in Readings
  BY Positions DEF Tables
<1>2. reading[i].share \in [Stays -> Nat \cup {None}]
  BY <1>1 DEF Readings
<1> QED  BY <1>1, <1>2 DEF Charge, Charges, SharedBy

LEMMA FiniteImage ==
    ASSUME NEW S, IsFiniteSet(S), NEW f
    PROVE  IsFiniteSet({f[x] : x \in S})
<1> DEFINE g == [x \in S |-> f[x]]
<1>1. g \in Surjection(S, {f[x] : x \in S})
  BY DEF Surjection
<1> QED  BY <1>1, FS_Surjection

LEMMA ActiveSharesTyped ==
    ASSUME Tables
    PROVE  /\ IsFiniteSet(ActiveShares) /\ ActiveShares \subseteq Charges
           /\ \A e \in ActiveShares : e.of \in 0..Len(reading)
<1>1. DOMAIN reading = 1..Len(reading) /\ Len(reading) \in Nat
  BY Positions DEF Tables
<1>2. ASSUME NEW e \in ActiveShares
      PROVE  \E i \in DOMAIN reading, s \in Stays : s \in SharedBy(i) /\ e = Charge(i, s)
  BY DEF ActiveShares, AllShares, SharedBy
<1>3. \A e \in ActiveShares : e \in Charges /\ e.of \in 0..Len(reading)
  BY <1>2, SharesOf
<1>4. IsFiniteSet(ActiveShares)
  <2> DEFINE pairs == (1..Len(reading)) \X Stays
             f == [p \in pairs |-> Charge(p[1], p[2])]
  <2>1. IsFiniteSet(1..Len(reading)) /\ IsFiniteSet(Stays)
    BY <1>1, FS_Interval, ElectricityAssumption
  <2>2. IsFiniteSet(pairs)
    BY <2>1, FS_Product
  <2>3. ActiveShares \subseteq {f[p] : p \in pairs}
    <3>1. ASSUME NEW e \in ActiveShares  PROVE e \in {f[p] : p \in pairs}
      <4>1. PICK i \in DOMAIN reading, s \in Stays : e = Charge(i, s)
        BY <1>2
      <4>2. <<i, s>> \in pairs /\ f[<<i, s>>] = Charge(i, s)
        BY <1>1
      <4> HIDE DEF pairs, f
      <4> QED  BY <4>1, <4>2
    <3> QED  BY <3>1
  <2> HIDE DEF pairs, f
  <2>4. IsFiniteSet({f[p] : p \in pairs})
    BY <2>2, FiniteImage
  <2> QED  BY <2>3, <2>4, FS_Subset
<1> QED  BY <1>3, <1>4

(* Every request begins with a row that is well formed.                    *)
Opened(w, row) == Good(row) /\ row.at \in {"find", "share", "entries", "edit"} /\ Begin(w, row)

LEMMA Starts ==
    ASSUME Typed, NEW w \in Workers, Start(w)
    PROVE  \E row : Opened(w, row)
<1>1. Tables /\ Good(NoCall) /\ NoCall \in CallRows /\ IsFiniteSet({})
  BY NoCallGood, FS_EmptySet DEF Typed, Good
<1>2. DOMAIN reading = 1..Len(reading) /\ Len(reading) \in Nat
  BY <1>1, Positions DEF Tables
<1>3. Amounts \subseteq Nat
  BY ElectricityAssumption
<1>4. ASSUME NEW r \in Rooms, NEW a \in Amounts, StartReading(w, r, a)  PROVE \E row : Opened(w, row)
  <2> DEFINE row == [NoCall EXCEPT !.at = "find", !.room = r, !.amount = a, !.rows = lives[r]]
  <2>1. lives[r] \in SUBSET AllocationRows
    BY <1>1 DEF Tables
  <2>2. row \in CallRows /\ row.at = "find"
    BY <1>3, <2>1 DEF NoCall, CallRows, Labels
  <2>3. WorksOn(row) /\ IsFiniteSet(row.charges)
    BY <1>1, <1>2 DEF WorksOn, NoCall
  <2>4. Begin(w, row)
    BY <1>4 DEF StartReading
  <2> HIDE DEF row
  <2> QED  BY <2>2, <2>3, <2>4 DEF Good, Opened
<1>5. ASSUME NEW i \in DOMAIN reading, NEW s \in Stays, NEW a \in Amounts, StartShare(w, i, s, a)
      PROVE  \E row : Opened(w, row)
  <2> DEFINE row == [NoCall EXCEPT !.at = "share", !.existing = i, !.stay = s, !.amount = a]
  <2>0. i \in Nat /\ a \in Nat
    BY <1>2, <1>3
  <2>1. row \in CallRows /\ row.at = "share"
    BY <2>0 DEF NoCall, CallRows, Labels
  <2>2. WorksOn(row) /\ IsFiniteSet(row.charges)
    BY <1>1, <1>2, <1>5 DEF WorksOn, NoCall, StartShare
  <2>3. Begin(w, row)
    BY <1>5 DEF StartShare
  <2> HIDE DEF row
  <2> QED  BY <2>1, <2>2, <2>3 DEF Good, Opened
<1>6. ASSUME NEW S \in SUBSET Stays, NEW e \in [S -> Amounts \ {0}], StartEntries(w, e)
      PROVE  \E row : Opened(w, row)
  <2> DEFINE entry == [s \in S |-> [of |-> BY_HAND, stay |-> s, amount |-> e[s]]]
             entries == {entry[s] : s \in S}
             row == [NoCall EXCEPT !.at = "entries", !.charges = entries]
  <2>1. entries = {[of |-> BY_HAND, stay |-> s, amount |-> e[s]] : s \in DOMAIN e}
    OBVIOUS
  <2>2. Begin(w, row)
    BY <1>6, <2>1 DEF StartEntries
  <2>3. \A s \in S : entry[s] \in Charges /\ entry[s].of = 0
    BY <1>3 DEF Charges, BY_HAND
  <2>4. IsFiniteSet(entries)
    <3>1. IsFiniteSet(S)
      BY ElectricityAssumption, FS_Subset
    <3> HIDE DEF entry
    <3> QED  BY <3>1, FiniteImage
  <2>5. entries \subseteq Charges /\ \A x \in entries : x.of = 0
    <3> HIDE DEF entry
    <3> QED  BY <2>3
  <2> HIDE DEF entries
  <2>6. row \in CallRows /\ row.at = "entries"
    BY <2>5 DEF NoCall, CallRows, Labels
  <2>7. WorksOn(row) /\ IsFiniteSet(row.charges)
    BY <1>1, <1>2, <2>4, <2>5 DEF WorksOn, NoCall
  <2> HIDE DEF row
  <2> QED  BY <2>2, <2>6, <2>7 DEF Good, Opened
<1>7. ASSUME NEW s \in Stays, NEW a \in Amounts, StartEdit(w, s, a)  PROVE \E row : Opened(w, row)
  <2>1. PICK k \in DOMAIN bill[s] :
            Begin(w, [NoCall EXCEPT !.at = "edit", !.stay = s, !.amount = a, !.line = k])
    BY <1>7 DEF StartEdit
  <2> DEFINE row == [NoCall EXCEPT !.at = "edit", !.stay = s, !.amount = a, !.line = k]
  <2>2. k \in Nat
    BY <1>1, Positions DEF Tables
  <2>3. row \in CallRows /\ row.at = "edit"
    BY <1>3, <2>2 DEF NoCall, CallRows, Labels
  <2>4. WorksOn(row) /\ IsFiniteSet(row.charges)
    BY <1>1, <1>2, <2>1 DEF WorksOn, NoCall
  <2>5. Begin(w, row)
    BY <2>1
  <2> HIDE DEF row
  <2> QED  BY <2>3, <2>4, <2>5 DEF Good, Opened
<1> QED  BY <1>4, <1>5, <1>6, <1>7 DEF Start

LEMMA StartTyped ==
    ASSUME Typed, NEW w \in Workers, Start(w)
    PROVE  Typed'
<1>1. PICK row : Opened(w, row)
  BY Starts
<1> QED  BY <1>1, BeginTyped DEF Opened
-----------------------------------------------------------------------------
LEMMA FindReadingTyped ==
    ASSUME Typed, NEW w \in Workers, FindReading(w)
    PROVE  Typed'
<1>1. w \in Actors /\ Good(call[w]) /\ call[w].at = "find" /\ Tables
  BY DEF Typed, CallsOK, Actors, FindReading
<1>2. DOMAIN reading = 1..Len(reading) /\ Len(reading) \in Nat
  BY <1>1, Positions DEF Tables
<1>3. PICK i \in IF ActiveIn(call[w].room) = {} THEN {0} ELSE ActiveIn(call[w].room) :
          Goto(w, [call[w] EXCEPT !.at = "record", !.existing = i])
  BY DEF FindReading
<1>4. i \in 0..Len(reading) /\ i \in Nat
  BY <1>2, <1>3 DEF ActiveIn
<1> DEFINE c == [call[w] EXCEPT !.at = "record", !.existing = i]
<1>5. /\ c \in CallRows /\ c.at = "record" /\ c.existing = i /\ c.charges = call[w].charges
      /\ c.known = call[w].known /\ c.room = call[w].room
  BY <1>1, <1>4 DEF Good, CallRows, Labels
<1>6. Goto(w, c) /\ UNCHANGED <<lives, reading, bill, calls, mishaps>>
  BY <1>3 DEF FindReading
<1> HIDE DEF c
<1>7. Good(c)
  BY <1>1, <1>4, <1>5 DEF Good, WorksOn
<1> QED  BY <1>1, <1>6, <1>7, MovesOn

LEMMA FiniteRows ==
    ASSUME NEW c \in CallRows
    PROVE  /\ IsFiniteSet(c.rows) /\ \A x \in c.rows : x.stay \in Stays /\ x.days \in Nat
           /\ c.amount \in Nat
BY ElectricityAssumption, FS_Subset DEF CallRows

(* What recordReading writes: the reading it corrects gets a successor,    *)
(* which has a share for each resident of the room.                        *)
Successor(row, c, paise) ==
    /\ row \in Readings /\ row.room = c.room /\ row.amount = c.amount /\ row.by = 0
    /\ \A s \in Stays : (\A x \in c.rows : x.stay # s) => row.share[s] = None
    /\ \A x \in c.rows : row.share[x.stay] = paise[x] /\ row.days[x.stay] = x.days

Follow(old, n, row) ==
    /\ reading' \in Seq(Readings) /\ Len(reading') = n + 1 /\ DOMAIN reading' = 1..(n + 1)
    /\ reading'[n + 1] = row
    /\ old # 0 => reading'[old] = [reading[old] EXCEPT !.by = n + 1]
    /\ \A j \in 1..n : j # old => reading'[j] = reading[j]

LEMMA Recording ==
    ASSUME Typed, NEW w \in Workers, CommitReading(w), ~Fails(w)
    PROVE  /\ \E paise \in splitElectricity(call[w].amount, call[w].rows) :
                 \E row : /\ Successor(row, call[w], paise)
                          /\ Follow(call[w].existing, Len(reading), row)
           /\ Goto(w, [call[w] EXCEPT !.at = "shares"])
           /\ UNCHANGED <<lives, bill, calls, mishaps>>
           /\ call[w].at = "record" /\ OneRowEach(call[w].rows)
           /\ ActiveIn(call[w].room) \subseteq {call[w].existing}
<1> DEFINE c == call[w]
           old == c.existing
           n == Len(reading)
<1>1. w \in Actors /\ Good(c) /\ Tables /\ c \in CallRows /\ c.at = "record"
  BY DEF Typed, CallsOK, Actors, CommitReading, Good
<1>2. n \in Nat /\ DOMAIN reading = 1..n /\ reading \in [1..n -> Readings] /\ reading \in Seq(Readings)
  BY <1>1, Positions DEF Tables
<1>3. PICK paise \in splitElectricity(c.amount, c.rows) : reading' = Recorded(w, paise)
  BY DEF CommitReading
<1>4. /\ Goto(w, [call[w] EXCEPT !.at = "shares"]) /\ UNCHANGED <<lives, bill, calls, mishaps>>
      /\ OneRowEach(c.rows) /\ ActiveIn(c.room) \subseteq {old}
  BY DEF CommitReading
<1>5. old \in 0..n /\ c.room \in Rooms
  BY <1>1 DEF Good, WorksOn
<1>6. /\ IsFiniteSet(c.rows) /\ \A x \in c.rows : x.stay \in Stays /\ x.days \in Nat
      /\ c.amount \in Nat
  BY <1>1, FiniteRows
<1>7. paise \in [c.rows -> Nat]
  BY <1>3, <1>6, SplitNat
<1> DEFINE of == [s \in Stays |-> {x \in c.rows : x.stay = s}]
           share == [s \in Stays |-> IF of[s] = {} THEN None ELSE paise[CHOOSE x \in of[s] : TRUE]]
           days == [s \in Stays |-> IF of[s] = {} THEN 0 ELSE (CHOOSE x \in of[s] : TRUE).days]
           row == [room |-> c.room, amount |-> c.amount, by |-> 0, share |-> share, days |-> days]
           gone == [reading[old] EXCEPT !.by = n + 1]
           corrected == IF old = 0 THEN reading ELSE [reading EXCEPT ![old] = gone]
<1>8. reading' = Append(corrected, row)
  BY <1>3 DEF Recorded
<1>9. \A s \in Stays : of[s] # {} => (CHOOSE x \in of[s] : TRUE) \in of[s]
  OBVIOUS
<1>10. \A x \in c.rows : x \in of[x.stay] /\ (CHOOSE y \in of[x.stay] : TRUE) = x
  <2> TAKE x \in c.rows
  <2>1. x.stay \in Stays /\ x \in of[x.stay]
    BY <1>6
  <2>2. PICK y : y = CHOOSE z \in of[x.stay] : TRUE
    OBVIOUS
  <2>3. y \in of[x.stay]
    BY <1>9, <2>1, <2>2
  <2>4. y \in c.rows /\ y.stay = x.stay
    BY <2>1, <2>3
  <2>5. y = x
    BY <1>4, <2>4 DEF OneRowEach
  <2> HIDE DEF of
  <2> QED  BY <2>1, <2>2, <2>5
<1>11. \A s \in Stays : of[s] \subseteq c.rows
  OBVIOUS
<1>12. \A s \in Stays : (\A x \in c.rows : x.stay # s) => of[s] = {}
  OBVIOUS
<1> HIDE DEF of
<1>13. share \in [Stays -> Nat \cup {None}] /\ days \in [Stays -> Nat]
  <2>1. ASSUME NEW s \in Stays  PROVE share[s] \in Nat \cup {None} /\ days[s] \in Nat
    <3>1. CASE of[s] = {}
      BY <3>1
    <3>2. CASE of[s] # {}
      <4>1. PICK x : x = CHOOSE z \in of[s] : TRUE
        OBVIOUS
      <4>2. x \in c.rows
        BY <1>9, <1>11, <3>2, <4>1
      <4> QED  BY <1>6, <1>7, <3>2, <4>1, <4>2
    <3> QED  BY <3>1, <3>2
  <2> QED  BY <2>1
<1>14. ASSUME NEW x \in c.rows  PROVE share[x.stay] = paise[x] /\ days[x.stay] = x.days
  BY <1>6, <1>10
<1>15. ASSUME NEW s \in Stays, \A x \in c.rows : x.stay # s  PROVE share[s] = None
  BY <1>12, <1>15
<1> HIDE DEF share, days
<1>16. row \in Readings
  BY <1>5, <1>6, <1>13 DEF Readings
<1>17. Successor(row, c, paise)
  BY <1>14, <1>15, <1>16 DEF Successor
<1> HIDE DEF row
<1>18. /\ corrected \in Seq(Readings) /\ Len(corrected) = n /\ DOMAIN corrected = 1..n
       /\ old # 0 => corrected[old] = gone
       /\ \A j \in 1..n : j # old => corrected[j] = reading[j]
  <2>1. CASE old = 0
    BY <1>2, <2>1
  <2>2. CASE old # 0
    <3>1. old \in DOMAIN reading /\ reading[old] \in Readings
      BY <1>2, <1>5, <2>2
    <3>2. gone \in Readings
      <4>1. PICK r, m : r = reading[old] /\ m = n + 1
        OBVIOUS
      <4>2. r \in Readings /\ m \in Nat
        BY <1>2, <3>1, <4>1
      <4>3. [r EXCEPT !.by = m] \in Readings
        BY <4>2 DEF Readings
      <4> QED  BY <4>1, <4>3
    <3> HIDE DEF gone
    <3>3. LET t == [reading EXCEPT ![old] = gone]
          IN  /\ t \in Seq(Readings) /\ DOMAIN t = DOMAIN reading /\ Len(t) = Len(reading)
              /\ t[old] = gone /\ \A j \in DOMAIN reading : j # old => t[j] = reading[j]
      BY <1>2, <3>1, <3>2, Put
    <3> QED  BY <1>2, <2>2, <3>3
  <2> QED  BY <2>1, <2>2
<1> HIDE DEF corrected
<1>19. Follow(old, n, row)
  <2>1. row \in Readings
    BY <1>17 DEF Successor
  <2>2. /\ reading' \in Seq(Readings) /\ Len(reading') = n + 1 /\ DOMAIN reading' = 1..(n + 1)
        /\ reading'[n + 1] = row /\ \A j \in 1..n : reading'[j] = corrected[j]
    BY <1>8, <1>18, <2>1, Added
  <2>3. old # 0 => old \in 1..n
    BY <1>2, <1>5
  <2> QED  BY <1>18, <2>2, <2>3 DEF Follow
<1> QED  BY <1>1, <1>3, <1>4, <1>17, <1>19

LEMMA CommitReadingTyped ==
    ASSUME Typed, NEW w \in Workers, CommitReading(w)
    PROVE  Typed'
<1>1. w \in Actors /\ Good(call[w]) /\ Tables
  BY DEF Typed, CallsOK, Actors
<1>2. CASE Fails(w)
  BY <1>1, <1>2, FailsTyped DEF CommitReading, Tables
<1>3. CASE ~Fails(w)
  <2>1. PICK paise, row : /\ Successor(row, call[w], paise)
                          /\ Follow(call[w].existing, Len(reading), row)
    BY <1>3, Recording
  <2>2. Goto(w, [call[w] EXCEPT !.at = "shares"]) /\ UNCHANGED <<lives, bill, calls, mishaps>>
    BY <1>3, Recording
  <2>3. /\ Len(reading) \in Nat /\ DOMAIN reading = 1..Len(reading)
        /\ reading \in [1..Len(reading) -> Readings]
        /\ \A s \in Stays : Len(bill[s]) \in Nat
    BY <1>1, Positions DEF Tables
  <2>4. Tables'
    BY <1>1, <2>1, <2>2 DEF Tables, Follow
  <2>5. \A i \in 1..Len(reading) : reading'[i].share = reading[i].share
    <3> TAKE i \in 1..Len(reading)
    <3>1. CASE i = call[w].existing
      <4>1. reading'[i] = [reading[i] EXCEPT !.by = Len(reading) + 1] /\ reading[i] \in Readings
        BY <2>1, <2>3, <3>1 DEF Follow
      <4> QED  BY <4>1 DEF Readings
    <3>2. CASE i # call[w].existing
      BY <2>1, <3>2 DEF Follow
    <3> QED  BY <3>1, <3>2
  <2>6. Grows
    BY <2>1, <2>2, <2>3, <2>5 DEF Grows, Follow, SharedBy
  <2>7. PICK c : c = [call[w] EXCEPT !.at = "shares"]
    OBVIOUS
  <2>8. Good(c)
    BY <1>1, <2>7, Relabelled DEF Plain
  <2>9. Good(c)'
    BY <1>1, <2>4, <2>6, <2>8, StillGood
  <2> QED  BY <1>1, <2>2, <2>4, <2>6, <2>7, <2>9, OneCall
<1> QED  BY <1>2, <1>3

(* What updateElectricityShare writes.                                     *)
LEMMA Sharing ==
    ASSUME Typed, NEW w \in Workers, NEW i \in DOMAIN reading, NEW s \in Stays, NEW a \in Amounts,
           UpdateShare(w, i, s, a)
    PROVE  /\ reading' \in Seq(Readings) /\ DOMAIN reading' = DOMAIN reading
           /\ Len(reading') = Len(reading)
           /\ \A j \in DOMAIN reading : reading'[j].room = reading[j].room
                                        /\ reading'[j].by = reading[j].by
           /\ \A j \in DOMAIN reading : SharedBy(j) \subseteq SharedBy(j)'
           /\ Goto(w, [call[w] EXCEPT !.at = "shares"])
           /\ UNCHANGED <<lives, bill, calls, mishaps>>
<1>1. reading \in Seq(Readings)
  BY DEF Typed, Tables
<1>2. reading[i] \in Readings /\ a \in Nat /\ a # None
  BY <1>1, Positions, ElectricityAssumption
<1> DEFINE row == Edited(reading[i], s, a)
<1>3. row \in Readings /\ row.room = reading[i].room /\ row.by = reading[i].by
      /\ row.share = [reading[i].share EXCEPT ![s] = a]
  BY <1>2 DEF Edited, Readings
<1>4. reading' = [reading EXCEPT ![i] = row]
  BY DEF UpdateShare
<1>5. \A t \in Stays : reading[i].share[t] # None => row.share[t] # None
  <2>1. reading[i].share \in [Stays -> Nat \cup {None}]
    BY <1>2 DEF Readings
  <2> HIDE DEF row
  <2> QED  BY <1>2, <1>3, <2>1
<1> HIDE DEF row
<1>6. LET t == [reading EXCEPT ![i] = row]
      IN  /\ t \in Seq(Readings) /\ DOMAIN t = DOMAIN reading /\ Len(t) = Len(reading)
          /\ t[i] = row /\ \A j \in DOMAIN reading : j # i => t[j] = reading[j]
  BY <1>1, <1>3, Put
<1>7. \A j \in DOMAIN reading : SharedBy(j) \subseteq SharedBy(j)'
  BY <1>4, <1>5, <1>6 DEF SharedBy
<1> QED  BY <1>3, <1>4, <1>6, <1>7 DEF UpdateShare

LEMMA UpdateShareTyped ==
    ASSUME Typed, NEW w \in Workers, NEW i \in DOMAIN reading, NEW s \in Stays, NEW a \in Amounts,
           UpdateShare(w, i, s, a)
    PROVE  Typed'
<1>1. w \in Actors /\ Good(call[w]) /\ Tables
  BY DEF Typed, CallsOK, Actors
<1>2. Tables' /\ Grows /\ Goto(w, [call[w] EXCEPT !.at = "shares"])
  <2>1. Len(reading) \in Nat /\ \A t \in Stays : Len(bill[t]) \in Nat
    BY <1>1, Positions DEF Tables
  <2>2. /\ reading' \in Seq(Readings) /\ Len(reading') = Len(reading)
        /\ \A j \in DOMAIN reading : SharedBy(j) \subseteq SharedBy(j)'
        /\ Goto(w, [call[w] EXCEPT !.at = "shares"])
        /\ UNCHANGED <<lives, bill, calls, mishaps>>
    BY Sharing
  <2>3. Tables'
    BY <1>1, <2>2 DEF Tables
  <2>4. Grows
    BY <2>1, <2>2 DEF Grows
  <2> QED  BY <2>2, <2>3, <2>4
<1>3. PICK c : c = [call[w] EXCEPT !.at = "shares"]
  OBVIOUS
<1>4. Good(c)
  BY <1>1, <1>3, Relabelled DEF Plain
<1>5. Good(c)'
  BY <1>1, <1>2, <1>4, StillGood
<1> QED  BY <1>1, <1>2, <1>3, <1>5, OneCall
-----------------------------------------------------------------------------
(* The steps that read and write bills.                                    *)
LEMMA BillRows ==
    ASSUME Tables
    PROVE  /\ \A s \in Stays : /\ bill[s] \in Seq(Lines) /\ Len(bill[s]) \in Nat
                               /\ DOMAIN bill[s] = 1..Len(bill[s])
                               /\ bill[s] \in [1..Len(bill[s]) -> Lines]
                               /\ bill[s] = <<>> <=> Len(bill[s]) = 0
           /\ Billed \subseteq Stays /\ Cardinality(Billed) \in Nat
<1>1. Billed \subseteq Stays
  BY DEF Billed
<1>2. Cardinality(Billed) \in Nat
  BY <1>1, ElectricityAssumption, FS_Subset, FS_CardinalityType
<1> QED  BY <1>1, <1>2, Positions DEF Tables

LEMMA ReadSharesTyped ==
    ASSUME Typed, NEW w \in Workers, ReadShares(w)
    PROVE  Typed'
<1>1. w \in Actors /\ Good(call[w]) /\ Tables
  BY DEF Typed, CallsOK, Actors
<1>2. PICK l \in Plain : l = IF ActiveShares = {} THEN "attached" ELSE "bills"
  BY DEF Plain
<1> DEFINE c == [call[w] EXCEPT !.charges = ActiveShares, !.at = l]
<1>3. Goto(w, c) /\ UNCHANGED <<lives, reading, bill, calls, mishaps>>
  BY <1>2 DEF ReadShares
<1>4. /\ c \in CallRows /\ c.at = l /\ c.charges = ActiveShares /\ c.known = call[w].known
      /\ c.existing = call[w].existing
  BY <1>1, <1>2, ActiveSharesTyped DEF Good, CallRows, Labels, Plain
<1> HIDE DEF c
<1>5. Good(c)
  BY <1>1, <1>4, ActiveSharesTyped DEF Good, WorksOn, Plain
<1> QED  BY <1>1, <1>3, <1>5, MovesOn

LEMMA ReadBillsTyped ==
    ASSUME Typed, NEW w \in Workers, ReadBills(w)
    PROVE  Typed'
<1>1. w \in Actors /\ Good(call[w]) /\ Tables
  BY DEF Typed, CallsOK, Actors
<1>2. PICK l \in Plain : l = IF call[w].at = "bills" THEN "attach" ELSE "enter"
  BY DEF Plain
<1> DEFINE c == [call[w] EXCEPT !.at = l, !.known = Billed, !.count = Cardinality(Billed)]
<1>3. Goto(w, c) /\ UNCHANGED <<lives, reading, bill, calls, mishaps>>
  BY <1>2 DEF ReadBills
<1>4. /\ c \in CallRows /\ c.at = l /\ c.charges = call[w].charges /\ c.known = Billed
      /\ c.existing = call[w].existing
  BY <1>1, <1>2, BillRows DEF Good, CallRows, Labels, Plain
<1> HIDE DEF c
<1>5. Good(c)
  BY <1>1, <1>4 DEF Good, WorksOn, Plain, Billed
<1> QED  BY <1>1, <1>3, <1>5, MovesOn

LEMMA LinesTyped ==
    ASSUME Tables, NEW w \in Actors, Good(call[w]), NEW s \in Stays, MayRaise(w),
           NEW b \in LinesAfter(w, s)
    PROVE  b \in Seq(Lines) /\ Len(bill[s]) <= Len(b)
<1>1. /\ bill[s] \in Seq(Lines) /\ Len(bill[s]) \in Nat /\ DOMAIN bill[s] = 1..Len(bill[s])
      /\ bill[s] \in [1..Len(bill[s]) -> Lines]
  BY BillRows
<1>2. \A e \in ChargesOf(w, s) : e \in Charges /\ Line(e) \in Lines
  BY DEF Good, CallRows, ChargesOf, Line, Lines, Charges
<1>3. CASE b = bill[s]
  BY <1>1, <1>3
<1>4. ASSUME NEW e \in ChargesOf(w, s), b = Append(bill[s], Line(e))
      PROVE  b \in Seq(Lines) /\ Len(bill[s]) <= Len(b)
  BY <1>1, <1>2, <1>4, Added
<1>5. CASE b \in Refreshed(bill[s], ChargesOf(w, s))
  <2>1. PICK K \in SUBSET DOMAIN bill[s] : \E g \in Injection(K, ChargesOf(w, s)) :
            b = [k \in DOMAIN bill[s] |-> IF k \in DOMAIN g THEN Line(g[k]) ELSE bill[s][k]]
    BY <1>5 DEF Refreshed
  <2>2. PICK g \in Injection(K, ChargesOf(w, s)) :
            b = [k \in DOMAIN bill[s] |-> IF k \in DOMAIN g THEN Line(g[k]) ELSE bill[s][k]]
    BY <2>1
  <2>3. g \in [K -> ChargesOf(w, s)]
    BY DEF Injection
  <2>4. b \in [1..Len(bill[s]) -> Lines]
    BY <1>1, <1>2, <2>2, <2>3
  <2>5. b \in Seq(Lines)
    BY <1>1, <2>4, SeqDef
  <2>6. Len(b) = Len(bill[s])
    BY <1>1, <2>4, <2>5, Positions
  <2> QED  BY <1>1, <2>5, <2>6
<1>6. ASSUME NEW e \in ChargesOf(w, s), ChargesOf(w, s) \cap ToRaise(w) # {}, b = <<Line(e)>>
      PROVE  b \in Seq(Lines) /\ Len(bill[s]) <= Len(b)
  <2>1. bill[s] = <<>>
    BY <1>6 DEF MayRaise, ChargesOf
  <2> QED  BY <1>1, <1>2, <1>6, <2>1
<1> QED  BY <1>3, <1>4, <1>5, <1>6 DEF LinesAfter

LEMMA ChargedTyped ==
    ASSUME Typed, NEW w \in Actors, NEW done \in {"attached", "done"}, Charged(w, done)
    PROVE  Typed'
<1>1. Good(call[w]) /\ Tables
  BY DEF Typed, CallsOK
<1>2. CASE Fails(w)
  BY <1>1, <1>2, FailsTyped DEF Charged, Tables
<1>3. CASE ~Fails(w)
  <2>1. /\ MayRaise(w) /\ Goto(w, [call[w] EXCEPT !.at = done])
        /\ UNCHANGED <<lives, reading, calls, mishaps>>
        /\ bill' \in [Stays -> UNION {LinesAfter(w, s) : s \in Stays}]
        /\ \A s \in Stays : bill'[s] \in LinesAfter(w, s)
    BY <1>3 DEF Charged
  <2>2. \A s \in Stays : bill'[s] \in Seq(Lines) /\ Len(bill[s]) <= Len(bill'[s])
    BY <1>1, <2>1, LinesTyped
  <2>3. bill' \in [Stays -> Seq(Lines)]
    BY <2>1, <2>2
  <2>4. Tables'
    BY <1>1, <2>1, <2>3 DEF Tables
  <2>5. Grows
    BY <1>1, <2>1, <2>2, Positions DEF Grows, SharedBy, Tables
  <2>6. PICK c : c = [call[w] EXCEPT !.at = done]
    OBVIOUS
  <2>7. Good(c)'
    BY <1>1, <2>4, <2>5, <2>6, Relabelled, StillGood DEF Plain
  <2> QED  BY <2>1, <2>4, <2>5, <2>6, <2>7, OneCall
<1> QED  BY <1>2, <1>3

LEMMA CommitEditTyped ==
    ASSUME Typed, NEW w \in Workers, CommitEdit(w)
    PROVE  Typed'
<1> DEFINE s == call[w].stay
           k == call[w].line
<1>1. w \in Actors /\ Good(call[w]) /\ Tables /\ call[w].at = "edit"
  BY DEF Typed, CallsOK, Actors, CommitEdit
<1>2. s \in Stays /\ k \in DOMAIN bill[s] /\ call[w].amount \in Nat
  BY <1>1 DEF Good, WorksOn, CallRows
<1>3. bill[s] \in Seq(Lines) /\ bill[s][k] \in Lines
  BY <1>1, <1>2, BillRows
<1>4. PICK line : line = [bill[s][k] EXCEPT !.amount = call[w].amount]
  OBVIOUS
<1>5. line \in Lines
  BY <1>2, <1>3, <1>4 DEF Lines
<1>6. PICK b : b = [bill[s] EXCEPT ![k] = line]
  OBVIOUS
<1>7. b \in Seq(Lines) /\ Len(b) = Len(bill[s])
  BY <1>2, <1>3, <1>5, <1>6, Put
<1>8. bill' = [bill EXCEPT ![s] = b]
  <2>1. bill' = [bill EXCEPT ![s] = [bill[s] EXCEPT ![k] =
                                        [bill[s][k] EXCEPT !.amount = call[w].amount]]]
    <3>1. bill \in [Stays -> Seq(Lines)] /\ s \in Stays /\ bill[s] \in [DOMAIN bill[s] -> Lines]
          /\ k \in DOMAIN bill[s]
      BY <1>1, <1>2, BillRows DEF Tables
    <3> QED  BY <3>1 DEF CommitEdit, Lines
  <2> HIDE DEF s, k
  <2> QED  BY <2>1, <1>4, <1>6
<1>9. UNCHANGED <<lives, reading, calls, mishaps>> /\ Goto(w, [call[w] EXCEPT !.at = "done"])
  BY DEF CommitEdit
<1> HIDE DEF s
<1>10. bill' \in [Stays -> Seq(Lines)] /\ \A t \in Stays : Len(bill'[t]) = Len(bill[t])
  BY <1>1, <1>7, <1>8 DEF Tables
<1>11. Tables'
  BY <1>1, <1>9, <1>10 DEF Tables
<1>12. Grows
  BY <1>1, <1>9, <1>10, BillRows, Positions DEF Grows, SharedBy, Tables
<1>13. PICK c : c = [call[w] EXCEPT !.at = "done"]
  OBVIOUS
<1>14. Good(c)'
  BY <1>1, <1>11, <1>12, <1>13, Relabelled, StillGood DEF Plain
<1> QED  BY <1>1, <1>9, <1>11, <1>12, <1>13, <1>14, OneCall

LEMMA ListStaysTyped == ASSUME Typed, ListStays  PROVE Typed'
<1>1. Job \in Actors /\ Tables
  BY DEF Typed, Actors
<1> DEFINE c == [NoCall EXCEPT !.at = "next", !.charges = ActiveShares]
<1>2. /\ c \in CallRows /\ c.at = "next" /\ c.charges = ActiveShares
      /\ c.existing = 0 /\ c.known = {}
  BY <1>1, ActiveSharesTyped DEF NoCall, CallRows, Labels
<1>3. UNCHANGED <<lives, reading, bill, mishaps>> /\ calls' = calls + 1
  BY DEF ListStays
<1>7. PICK d : d = c
  OBVIOUS
<1>8. Goto(Job, d)
  BY <1>7 DEF ListStays
<1> HIDE DEF c
<1>4. Good(d)
  BY <1>1, <1>2, <1>7, ActiveSharesTyped, Positions DEF Good, WorksOn, Tables
<1>5. Tables' /\ Grows
  <2>1. Tables'
    BY <1>1, <1>3 DEF Tables
  <2> QED  BY <1>1, <1>3, <2>1, Unread
<1>6. Good(d)'
  BY <1>1, <1>4, <1>5, StillGood
<1> QED  BY <1>1, <1>5, <1>6, <1>8, OneCall

LEMMA NumberBillTyped == ASSUME Typed, NumberBill  PROVE Typed'
<1>1. Job \in Actors /\ Tables /\ Good(call[Job]) /\ call[Job].at = "next"
  BY DEF Typed, CallsOK, Actors, NumberBill
<1>2. PICK s \in {e.stay : e \in call[Job].charges} :
          Goto(Job, IF bill[s] # <<>> THEN [call[Job] EXCEPT !.charges = @ \ ChargesOf(Job, s)]
                    ELSE [call[Job] EXCEPT !.at = "insert", !.stay = s,
                                           !.count = Cardinality(Billed)])
  BY DEF NumberBill
<1>3. UNCHANGED <<lives, reading, bill, calls, mishaps>>
  BY DEF NumberBill
<1>4. s \in Stays
  BY <1>1, <1>2 DEF Good, CallRows, Charges
<1>5. CASE bill[s] # <<>>
  <2> DEFINE rest == call[Job].charges \ ChargesOf(Job, s)
             c == [call[Job] EXCEPT !.charges = rest]
  <2>1. Goto(Job, c)
    BY <1>2, <1>5
  <2>2. rest \subseteq call[Job].charges
    OBVIOUS
  <2> HIDE DEF rest
  <2>3. /\ c \in CallRows /\ c.at = "next" /\ c.charges = rest /\ c.known = call[Job].known
        /\ c.existing = call[Job].existing
    BY <1>1, <2>2 DEF Good, CallRows
  <2> HIDE DEF c
  <2>4. Good(c)
    BY <1>1, <2>2, <2>3, FS_Subset DEF Good, WorksOn
  <2> QED  BY <1>1, <1>3, <2>1, <2>4, MovesOn
<1>6. CASE ~(bill[s] # <<>>)
  <2> DEFINE c == [call[Job] EXCEPT !.at = "insert", !.stay = s, !.count = Cardinality(Billed)]
  <2>1. Goto(Job, c)
    BY <1>2, <1>6
  <2>2. /\ c \in CallRows /\ c.at = "insert" /\ c.charges = call[Job].charges /\ c.stay = s
        /\ c.known = call[Job].known /\ c.existing = call[Job].existing
    BY <1>1, <1>4, BillRows DEF Good, CallRows, Labels
  <2> HIDE DEF c
  <2>3. Good(c)
    BY <1>1, <1>4, <2>2 DEF Good, WorksOn
  <2> QED  BY <1>1, <1>3, <2>1, <2>3, MovesOn
<1> QED  BY <1>5, <1>6

LEMMA InsertBillTyped == ASSUME Typed, InsertBill  PROVE Typed'
<1> DEFINE s == call[Job].stay
           charges == ChargesOf(Job, s)
           rest == call[Job].charges \ charges
<1>1. Job \in Actors /\ Tables /\ Good(call[Job]) /\ call[Job].at = "insert"
  BY DEF Typed, CallsOK, Actors, InsertBill
<1>2. CASE Fails(Job)
  BY <1>1, <1>2, FailsTyped DEF InsertBill, Tables
<1>3. CASE ~Fails(Job)
  <2>1. /\ bill[s] = <<>> /\ UNCHANGED <<lives, reading, calls, mishaps>>
        /\ Goto(Job, [call[Job] EXCEPT !.at = "next", !.charges = rest])
    BY <1>3 DEF InsertBill
  <2>2. PICK f \in Bijection(1..Cardinality(charges), charges) :
            bill' = [bill EXCEPT ![s] = [k \in DOMAIN f |-> Line(f[k])]]
    BY <1>3 DEF InsertBill
  <2>3. s \in Stays /\ charges \subseteq Charges /\ charges \subseteq call[Job].charges
    BY <1>1 DEF Good, WorksOn, CallRows, ChargesOf
  <2>4. Cardinality(charges) \in Nat
    BY <1>1, <2>3, FS_Subset, FS_CardinalityType DEF Good
  <2>5. f \in [1..Cardinality(charges) -> charges]
    BY DEF Bijection, Injection
  <2>6. rest \subseteq call[Job].charges
    OBVIOUS
  <2> DEFINE b == [k \in DOMAIN f |-> Line(f[k])]
             c == [call[Job] EXCEPT !.at = "next", !.charges = rest]
  <2> HIDE DEF charges, rest
  <2>7. b \in [1..Cardinality(charges) -> Lines]
    BY <2>3, <2>5 DEF Line, Lines, Charges
  <2>8. b \in Seq(Lines)
    BY <2>4, <2>7, SeqDef
  <2>9. bill' = [bill EXCEPT ![s] = b]
    BY <2>2
  <2>10. Len(b) \in Nat
    BY <2>8, Positions
  <2> HIDE DEF b, s
  <2>11. /\ bill' \in [Stays -> Seq(Lines)]
         /\ \A t \in Stays : Len(bill[t]) <= Len(bill'[t])
    BY <1>1, <2>1, <2>3, <2>8, <2>9, <2>10, BillRows DEF Tables
  <2>12. Tables'
    BY <1>1, <2>1, <2>11 DEF Tables
  <2>13. Grows
    BY <1>1, <2>1, <2>11, Positions DEF Grows, SharedBy, Tables
  <2>14. /\ c \in CallRows /\ c.at = "next" /\ c.charges = rest /\ c.known = call[Job].known
         /\ c.existing = call[Job].existing
    BY <1>1, <2>6 DEF Good, CallRows, Labels
  <2>18. PICK d : d = c
    OBVIOUS
  <2>15. Goto(Job, d)
    BY <2>1, <2>18
  <2> HIDE DEF c
  <2>16. Good(d)
    BY <1>1, <2>6, <2>14, <2>18, FS_Subset DEF Good, WorksOn
  <2>17. Good(d)'
    BY <1>1, <2>12, <2>13, <2>16, StillGood
  <2> QED  BY <1>1, <2>12, <2>13, <2>15, <2>17, OneCall
<1> QED  BY <1>2, <1>3

LEMMA FinishTyped == ASSUME Typed, Finish  PROVE Typed'
<1>1. Job \in Actors /\ Good(NoCall)
  BY NoCallGood DEF Typed, Actors
<1> QED  BY <1>1, MovesOn DEF Finish

LEMMA RehouseTyped == ASSUME Typed, NEW r \in Rooms, Rehouse(r)  PROVE Typed'
<1>1. PICK rows \in Histories[r] : lives' = [lives EXCEPT ![r] = rows]
  BY DEF Rehouse
<1>2. rows \in SUBSET AllocationRows
  BY DEF AllocationRows
<1>3. Tables'
  BY <1>1, <1>2 DEF Typed, Tables, Rehouse
<1>4. Grows
  BY Unread DEF Typed, Rehouse
<1>5. ASSUME NEW w \in Actors  PROVE Good(call[w])'
  <2>1. PICK c : c = call[w]
    OBVIOUS
  <2>2. Good(c)'
    BY <1>3, <1>4, <2>1, StillGood DEF Typed, CallsOK
  <2> QED  BY <2>1, <2>2 DEF Rehouse
<1> QED  BY <1>3, <1>5 DEF Typed, CallsOK, Rehouse

LEMMA TypedInit == Init => Typed
<1> SUFFICES ASSUME Init  PROVE Typed
  OBVIOUS
<1>1. lives \in [Rooms -> SUBSET AllocationRows]
  <2>1. \A r \in Rooms : \A rows \in Histories[r] : rows \in SUBSET AllocationRows
    BY DEF AllocationRows
  <2>2. \A r \in Rooms : lives[r] \in SUBSET AllocationRows
    BY <2>1 DEF Init
  <2> QED  BY <2>2 DEF Init
<1>2. reading \in Seq(Readings) /\ bill \in [Stays -> Seq(Lines)] /\ calls \in Nat /\ mishaps \in Nat
  BY EmptySeq DEF Init
<1>3. Tables
  BY <1>1, <1>2 DEF Tables
<1>4. Good(NoCall) /\ NoCall \in CallRows
  BY <1>3, NoCallGood DEF Good
<1>5. CallsOK
  BY <1>4 DEF Init, CallsOK
<1> QED  BY <1>3, <1>5 DEF Typed

LEMMA TypedStep == Typed /\ [Next]_vars => Typed'
<1> SUFFICES ASSUME Typed, [Next]_vars  PROVE Typed'
  OBVIOUS
<1>1. ASSUME NEW w \in Workers, Start(w)  PROVE Typed'
  BY <1>1, StartTyped
<1>2. ASSUME NEW w \in Workers, FindReading(w)  PROVE Typed'
  BY <1>2, FindReadingTyped
<1>3. ASSUME NEW w \in Workers, CommitReading(w)  PROVE Typed'
  BY <1>3, CommitReadingTyped
<1>4. ASSUME NEW w \in Workers, NEW i \in DOMAIN reading, NEW s \in Stays, NEW a \in Amounts,
             UpdateShare(w, i, s, a)
      PROVE  Typed'
  BY <1>4, UpdateShareTyped
<1>5. ASSUME NEW w \in Workers, ReadShares(w)  PROVE Typed'
  BY <1>5, ReadSharesTyped
<1>6. ASSUME NEW w \in Workers, ReadBills(w)  PROVE Typed'
  BY <1>6, ReadBillsTyped
<1>7. ASSUME NEW w \in Workers, CommitShares(w) \/ CommitEntries(w)  PROVE Typed'
  BY <1>7, ChargedTyped DEF CommitShares, CommitEntries, Actors
<1>8. ASSUME NEW w \in Workers, CommitEdit(w)  PROVE Typed'
  BY <1>8, CommitEditTyped
<1>9. CASE ListStays \/ NumberBill \/ InsertBill \/ Finish
  BY <1>9, ListStaysTyped, NumberBillTyped, InsertBillTyped, FinishTyped
<1>10. ASSUME NEW w \in Actors, Fail(w)  PROVE Typed'
  BY <1>10, FailsTyped DEF Fail, Typed, Tables
<1>11. ASSUME NEW r \in Rooms, Rehouse(r)  PROVE Typed'
  BY <1>11, RehouseTyped
<1>12. CASE UNCHANGED vars
  BY <1>12 DEF vars, Typed, Tables, CallsOK, Good, WorksOn, SharedBy
<1> QED  BY <1>1, <1>2, <1>3, <1>4, <1>5, <1>6, <1>7, <1>8, <1>9, <1>10, <1>11, <1>12 DEF Next

(* Readings, bills and calls stay well formed, and what a call works on    *)
(* exists: readings and lines are never taken away, and a resident who has *)
(* a share of a reading keeps one.                                         *)
THEOREM ElectricityWellFormed == Spec => []TypeOK
BY TypedInit, TypedStep, TypedIsTypeOK, PTL DEF Spec
-----------------------------------------------------------------------------
(* The readings of a room form one chain.  A request that is about to      *)
(* record a correction has found a reading of its room, and a room that    *)
(* has a reading always has an ACTIVE one.                                 *)
Found(c) ==
    /\ c.existing \in DOMAIN reading
    /\ reading[c.existing].room = c.room
    /\ ActiveIn(c.room) # {}

AllFound == \A w \in Actors : (call[w].at = "record" /\ call[w].existing # 0) => Found(call[w])

(* A step keeps what the requests in flight have found.                    *)
Kept ==
    /\ DOMAIN reading \subseteq DOMAIN reading'
    /\ \A i \in DOMAIN reading : reading'[i].room = reading[i].room
    /\ \A r \in Rooms : ActiveIn(r) # {} => ActiveIn(r)' # {}

(* Nobody else comes to the point of recording.                            *)
SameRecorders ==
    \A w \in Actors : call'[w].at = "record" =>
        /\ call[w].at = "record" /\ call'[w].room = call[w].room
        /\ call'[w].existing = call[w].existing

LEMMA StillFound ==
    ASSUME Typed, AllFound, Kept, SameRecorders
    PROVE  AllFound'
<1>1. \A w \in Actors : call[w].at = "record" => call[w].room \in Rooms
  BY DEF Typed, CallsOK, Good, WorksOn
<1> QED  BY <1>1 DEF AllFound, Kept, SameRecorders, Found

LEMMA NothingRead ==
    ASSUME UNCHANGED reading
    PROVE  Kept /\ (ReadingsFormChains => ReadingsFormChains')
BY DEF Kept, ReadingsFormChains, CorrectedBy, Active, ActiveIn

LEMMA GotoElsewhere ==
    ASSUME Typed, NEW w \in Actors, NEW c, Goto(w, c), c.at # "record"
    PROVE  SameRecorders
BY DEF Typed, CallsOK, Goto, SameRecorders

LEMMA LabelElsewhere ==
    ASSUME Typed, NEW w \in Actors, NEW l, l # "record", Goto(w, [call[w] EXCEPT !.at = l])
    PROVE  SameRecorders
<1>1. PICK c : c = [call[w] EXCEPT !.at = l]
  OBVIOUS
<1>2. c.at = l
  BY <1>1 DEF Typed, CallsOK, CallRows
<1> QED  BY <1>1, <1>2, GotoElsewhere

LEMMA BeginElsewhere ==
    ASSUME Typed, NEW w \in Workers, NEW row \in CallRows, row.at # "record", Begin(w, row)
    PROVE  SameRecorders /\ UNCHANGED reading
<1>1. call \in [Actors -> CallRows]
  BY DEF Typed, CallsOK
<1>2. ASSUME NEW v \in Actors, call'[v].at = "record"
      PROVE  /\ call[v].at = "record" /\ call'[v].room = call[v].room
             /\ call'[v].existing = call[v].existing
  <2>1. CASE v = w
    <3>1. call'[v] = [row EXCEPT !.alone = (Busy = {})]
      BY <1>1, <2>1, Arrives
    <3>2. call'[v].at = row.at
      BY <3>1 DEF CallRows
    <3> QED  BY <1>2, <3>2
  <2>2. CASE v # w /\ v \in Busy
    <3>1. call'[v] = [call[v] EXCEPT !.alone = FALSE] /\ call[v] \in CallRows
      BY <1>1, <2>2, Arrives
    <3> QED  BY <1>2, <3>1 DEF CallRows
  <2>3. CASE v # w /\ v \notin Busy
    <3>1. call'[v] = call[v] \/ call'[v] = NoCall
      BY <1>1, <2>3, Arrives
    <3> QED  BY <1>2, <3>1 DEF NoCall
  <2> QED  BY <2>1, <2>2, <2>3
<1> QED  BY <1>1, <1>2, Arrives DEF SameRecorders

LEMMA StartElsewhere ==
    ASSUME Typed, NEW w \in Workers, Start(w)
    PROVE  SameRecorders /\ UNCHANGED reading
<1>1. PICK row : Opened(w, row)
  BY Starts
<1>2. row \in CallRows /\ row.at # "record" /\ Begin(w, row)
  BY <1>1 DEF Opened, Good
<1> QED  BY <1>2, BeginElsewhere

Chained == AllFound /\ ReadingsFormChains

LEMMA ChainedBeside ==
    ASSUME Typed, Chained, SameRecorders, UNCHANGED reading
    PROVE  Chained'
BY StillFound, NothingRead DEF Chained

LEMMA FindReadingChained ==
    ASSUME Typed, Chained, NEW w \in Workers, FindReading(w)
    PROVE  Chained'
<1>1. w \in Actors /\ call[w] \in CallRows /\ UNCHANGED reading /\ call \in [Actors -> CallRows]
  BY DEF Typed, CallsOK, Actors, FindReading
<1>2. PICK i \in IF ActiveIn(call[w].room) = {} THEN {0} ELSE ActiveIn(call[w].room) :
          Goto(w, [call[w] EXCEPT !.at = "record", !.existing = i])
  BY DEF FindReading
<1>3. PICK c : c = [call[w] EXCEPT !.at = "record", !.existing = i]
  OBVIOUS
<1>4. c.existing = i /\ c.room = call[w].room
  BY <1>1, <1>3 DEF CallRows
<1>5. i # 0 => Found(c)
  BY <1>2, <1>4 DEF Found, ActiveIn
<1>6. \A d : Found(d) => Found(d)'
  BY <1>1 DEF Found, ActiveIn, Active
<1>7. call'[w] = c /\ \A v \in Actors : v # w => call'[v] = call[v]
  BY <1>1, <1>2, <1>3 DEF Goto
<1>8. AllFound'
  BY <1>4, <1>5, <1>6, <1>7 DEF Chained, AllFound, Found, ActiveIn, Active
<1> QED  BY <1>1, <1>8, NothingRead DEF Chained

(* The reading that a correction supersedes, if there is one, was the only *)
(* ACTIVE one of its room, and the new row comes after all others.         *)
LEMMA CommitReadingChained ==
    ASSUME Typed, Chained, NEW w \in Workers, CommitReading(w)
    PROVE  Chained'
<1>1. w \in Actors /\ Good(call[w]) /\ Tables
  BY DEF Typed, CallsOK, Actors
<1>2. CASE Fails(w)
  BY <1>1, <1>2, LabelElsewhere, ChainedBeside DEF Fails
<1>3. CASE ~Fails(w)
  <2> DEFINE old == call[w].existing
             n == Len(reading)
             here == call[w].room
  <2>1. PICK paise, row : Successor(row, call[w], paise) /\ Follow(old, n, row)
    BY <1>3, Recording
  <2>2. /\ Goto(w, [call[w] EXCEPT !.at = "shares"]) /\ call[w].at = "record"
        /\ ActiveIn(here) \subseteq {old}
    BY <1>3, Recording
  <2>3. n \in Nat /\ DOMAIN reading = 1..n /\ \A j \in 1..n : reading[j] \in Readings
    BY <1>1, Positions DEF Tables
  <2>4. row.room = here /\ row.by = 0 /\ here \in Rooms
    BY <1>1, <2>1, <2>2 DEF Successor, Good, WorksOn
  <2>5. old = 0 \/ /\ old \in 1..n /\ reading[old].room = here
                   /\ ActiveIn(here) = {old} /\ reading[old].by = 0
    BY <1>1, <2>2, <2>3 DEF Chained, AllFound, Found, ActiveIn, Active
  <2>6. old = 0 => ActiveIn(here) = {}
    BY <2>2, <2>3 DEF ActiveIn
  <2>7. old # 0 => reading'[old].room = here /\ reading'[old].by = n + 1
    <3>1. SUFFICES ASSUME old # 0  PROVE reading'[old].room = here /\ reading'[old].by = n + 1
      OBVIOUS
    <3>2. reading'[old] = [reading[old] EXCEPT !.by = n + 1] /\ reading[old] \in Readings
      BY <2>1, <2>3, <2>5, <3>1 DEF Follow
    <3> QED  BY <2>5, <3>1, <3>2 DEF Readings
  <2> HIDE DEF old, n, here
  <2>8. \A j \in 1..n : j # old => reading'[j] = reading[j]
    BY <2>1 DEF Follow
  <2>9. DOMAIN reading' = 1..(n + 1) /\ reading'[n + 1].room = here /\ reading'[n + 1].by = 0
    BY <2>1, <2>4 DEF Follow
  <2>10. \A j \in 1..n : reading'[j].room = reading[j].room
                         /\ reading'[j].by = (IF j = old THEN n + 1 ELSE reading[j].by)
    BY <2>5, <2>7, <2>8
  <2>11. ReadingsFormChains'
    <3>1. /\ \A i \in 1..n : reading[i].by = 0 \/ /\ reading[i].by \in 1..n /\ reading[i].by > i
                                                  /\ reading[reading[i].by].room = reading[i].room
          /\ \A i, j \in 1..n : reading[i].room = reading[j].room /\ reading[i].by = reading[j].by
                                  => i = j
      BY <2>3 DEF Chained, ReadingsFormChains, CorrectedBy, Active
    <3>2. \A i \in 1..n : reading[i].room = here /\ reading[i].by = 0 => i = old
      BY <2>3, <2>5, <2>6 DEF ActiveIn, Active
    <3>3. ASSUME NEW i \in 1..(n + 1)
          PROVE  reading'[i].by = 0 \/ /\ reading'[i].by \in 1..(n + 1) /\ reading'[i].by > i
                                       /\ reading'[reading'[i].by].room = reading'[i].room
      BY <3>1, <2>3, <2>5, <2>9, <2>10
    <3>4. ASSUME NEW i \in 1..(n + 1), NEW j \in 1..(n + 1),
                 reading'[i].room = reading'[j].room, reading'[i].by = reading'[j].by
          PROVE  i = j
      BY <3>1, <3>2, <3>4, <2>3, <2>5, <2>9, <2>10
    <3> QED  BY <3>3, <3>4, <2>9 DEF ReadingsFormChains, CorrectedBy, Active
  <2>12. Kept
    <3>1. ASSUME NEW r \in Rooms, r = here  PROVE n + 1 \in ActiveIn(r)'
      BY <3>1, <2>3, <2>9 DEF ActiveIn, Active
    <3>2. ASSUME NEW r \in Rooms, ActiveIn(r) # {}, r # here  PROVE ActiveIn(r)' # {}
      BY <3>2, <2>3, <2>5, <2>8, <2>9 DEF ActiveIn, Active
    <3> QED  BY <3>1, <3>2, <2>3, <2>9, <2>10 DEF Kept
  <2>13. SameRecorders
    BY <1>1, <2>2, LabelElsewhere
  <2> QED  BY <2>11, <2>12, <2>13, StillFound DEF Chained
<1> QED  BY <1>2, <1>3

LEMMA UpdateShareChained ==
    ASSUME Typed, Chained, NEW w \in Workers, NEW i \in DOMAIN reading, NEW s \in Stays,
           NEW a \in Amounts, UpdateShare(w, i, s, a)
    PROVE  Chained'
<1>1. w \in Actors /\ DOMAIN reading' = DOMAIN reading
      /\ \A j \in DOMAIN reading : reading'[j].room = reading[j].room
                                   /\ reading'[j].by = reading[j].by
  BY Sharing DEF Actors
<1>2. Kept /\ (ReadingsFormChains => ReadingsFormChains')
  BY <1>1 DEF Kept, ActiveIn, Active, ReadingsFormChains, CorrectedBy
<1>3. SameRecorders
  BY <1>1, Sharing, LabelElsewhere
<1> QED  BY <1>2, <1>3, StillFound DEF Chained

LEMMA BillsChained ==
    ASSUME Typed, Chained, NEW w \in Workers,
           ReadShares(w) \/ ReadBills(w) \/ CommitShares(w) \/ CommitEntries(w) \/ CommitEdit(w)
    PROVE  Chained'
<1>1. w \in Actors /\ call[w] \in CallRows
  BY DEF Typed, CallsOK, Actors
<1>2. CASE ReadShares(w)
  <2>1. PICK l \in Plain : l = IF ActiveShares = {} THEN "attached" ELSE "bills"
    BY DEF Plain
  <2>2. PICK c : c = [call[w] EXCEPT !.charges = ActiveShares, !.at = l]
    OBVIOUS
  <2>3. Goto(w, c) /\ UNCHANGED reading
    BY <1>2, <2>1, <2>2 DEF ReadShares
  <2>4. c.at = l /\ l # "record"
    BY <1>1, <2>1, <2>2 DEF CallRows, Plain
  <2> QED  BY <1>1, <2>3, <2>4, GotoElsewhere, ChainedBeside
<1>3. CASE ReadBills(w)
  <2>1. PICK l \in Plain : l = IF call[w].at = "bills" THEN "attach" ELSE "enter"
    BY DEF Plain
  <2>2. PICK c : c = [call[w] EXCEPT !.at = l, !.known = Billed, !.count = Cardinality(Billed)]
    OBVIOUS
  <2>3. Goto(w, c) /\ UNCHANGED reading
    BY <1>3, <2>1, <2>2 DEF ReadBills
  <2>4. c.at = l /\ l # "record"
    BY <1>1, <2>1, <2>2 DEF CallRows, Plain
  <2> QED  BY <1>1, <2>3, <2>4, GotoElsewhere, ChainedBeside
<1>4. CASE CommitShares(w) \/ CommitEntries(w) \/ CommitEdit(w)
  <2>1. PICK l \in Plain : Goto(w, [call[w] EXCEPT !.at = l]) /\ UNCHANGED reading
    BY <1>4 DEF CommitShares, CommitEntries, Charged, Fails, CommitEdit, Plain
  <2>2. l # "record"
    BY DEF Plain
  <2> QED  BY <1>1, <2>1, <2>2, LabelElsewhere, ChainedBeside
<1> QED  BY <1>2, <1>3, <1>4

LEMMA JobChained ==
    ASSUME Typed, Chained, ListStays \/ NumberBill \/ InsertBill \/ Finish
    PROVE  Chained'
<1>1. Job \in Actors /\ call[Job] \in CallRows /\ call \in [Actors -> CallRows]
  BY DEF Typed, CallsOK, Actors
<1>2. UNCHANGED reading
  BY DEF ListStays, NumberBill, InsertBill, Finish, Fails
<1>3. PICK c : Goto(Job, c) /\ c.at # "record"
  <2>1. CASE ListStays
    <3>1. PICK c : c = [NoCall EXCEPT !.at = "next", !.charges = ActiveShares]
      OBVIOUS
    <3>2. c.at = "next"
      BY <3>1 DEF NoCall
    <3> QED  BY <2>1, <3>1, <3>2 DEF ListStays
  <2>2. CASE NumberBill
    <3>1. PICK s : call[Job].at = "next" /\ Goto(Job,
              IF bill[s] # <<>> THEN [call[Job] EXCEPT !.charges = @ \ ChargesOf(Job, s)]
              ELSE [call[Job] EXCEPT !.at = "insert", !.stay = s, !.count = Cardinality(Billed)])
      BY <2>2 DEF NumberBill
    <3>2. PICK c : c = IF bill[s] # <<>> THEN [call[Job] EXCEPT !.charges = @ \ ChargesOf(Job, s)]
                       ELSE [call[Job] EXCEPT !.at = "insert", !.stay = s,
                                              !.count = Cardinality(Billed)]
      OBVIOUS
    <3>3. c.at # "record"
      BY <1>1, <3>1, <3>2 DEF CallRows
    <3> QED  BY <3>1, <3>2, <3>3
  <2>3. CASE InsertBill
    <3>1. PICK rest : Goto(Job, [call[Job] EXCEPT !.at = "next", !.charges = rest])
                      \/ Goto(Job, [call[Job] EXCEPT !.at = "failed"])
      BY <2>3 DEF InsertBill, Fails
    <3>2. PICK c, d : /\ c = [call[Job] EXCEPT !.at = "next", !.charges = rest]
                      /\ d = [call[Job] EXCEPT !.at = "failed"]
      OBVIOUS
    <3>3. c.at = "next" /\ d.at = "failed"
      BY <1>1, <3>2 DEF CallRows
    <3> QED  BY <3>1, <3>2, <3>3
  <2>4. CASE Finish
    BY <2>4 DEF Finish, NoCall
  <2> QED  BY <2>1, <2>2, <2>3, <2>4
<1> QED  BY <1>1, <1>2, <1>3, GotoElsewhere, ChainedBeside

LEMMA ChainedInit == Init => Chained
<1> SUFFICES ASSUME Init  PROVE Chained
  OBVIOUS
<1>1. DOMAIN reading = {}
  BY EmptySeq, Positions DEF Init
<1>2. \A w \in Actors : call[w].at = "idle"
  BY DEF Init, NoCall
<1> QED  BY <1>1, <1>2 DEF Chained, AllFound, ReadingsFormChains

LEMMA ChainedStep == Typed /\ Chained /\ [Next]_vars => Chained'
<1> SUFFICES ASSUME Typed, Chained, [Next]_vars  PROVE Chained'
  OBVIOUS
<1>1. ASSUME NEW w \in Workers, Start(w)  PROVE Chained'
  BY <1>1, StartElsewhere, ChainedBeside
<1>2. ASSUME NEW w \in Workers, FindReading(w)  PROVE Chained'
  BY <1>2, FindReadingChained
<1>3. ASSUME NEW w \in Workers, CommitReading(w)  PROVE Chained'
  BY <1>3, CommitReadingChained
<1>4. ASSUME NEW w \in Workers, NEW i \in DOMAIN reading, NEW s \in Stays, NEW a \in Amounts,
             UpdateShare(w, i, s, a)
      PROVE  Chained'
  BY <1>4, UpdateShareChained
<1>5. ASSUME NEW w \in Workers,
             ReadShares(w) \/ ReadBills(w) \/ CommitShares(w) \/ CommitEntries(w) \/ CommitEdit(w)
      PROVE  Chained'
  BY <1>5, BillsChained
<1>6. CASE ListStays \/ NumberBill \/ InsertBill \/ Finish
  BY <1>6, JobChained
<1>7. ASSUME NEW w \in Actors, Fail(w)  PROVE Chained'
  BY <1>7, LabelElsewhere, ChainedBeside DEF Fail, Fails
<1>8. ASSUME NEW r \in Rooms, Rehouse(r)  PROVE Chained'
  BY <1>8, ChainedBeside DEF Rehouse, SameRecorders
<1>9. CASE UNCHANGED vars
  BY <1>9, ChainedBeside DEF vars, SameRecorders
<1> QED  BY <1>1, <1>2, <1>3, <1>4, <1>5, <1>6, <1>7, <1>8, <1>9 DEF Next

(* However many corrections of a room meet, fail or are cut off, its       *)
(* readings are one chain: recordReading frees the slot of the one ACTIVE  *)
(* reading, the unique index gives it to one successor only, and the rest  *)
(* of the transaction is undone with it.                                   *)
THEOREM ReadingsChained == Spec => []ReadingsFormChains
<1>1. Chained => ReadingsFormChains
  BY DEF Chained
<1> QED  BY <1>1, TypedInit, TypedStep, ChainedInit, ChainedStep, PTL DEF Spec
-----------------------------------------------------------------------------
(* "The shares sum exactly to the bill; no paise is created or lost": the  *)
(* only step that adds a reading is that of a correction or a first entry, *)
(* and its shares are those of allocatePaise.                              *)
LEMMA RowIsExact ==
    ASSUME NEW c \in CallRows, OneRowEach(c.rows), NEW paise \in splitElectricity(c.amount, c.rows),
           NEW row, Successor(row, c, paise)
    PROVE  Exact(row)
<1> DEFINE rows == c.rows
           sharing == {s \in Stays : row.share[s] # None}
           W == SumFunctionOnSet(row.days, sharing)
           name == [x \in rows |-> x.stay]
<1>1. /\ IsFiniteSet(rows) /\ \A x \in rows : x.stay \in Stays /\ x.days \in Nat
      /\ c.amount \in Nat
  BY FiniteRows
<1>2. paise \in [rows -> Nat]
  BY <1>1, SplitNat
<1>3. /\ row.amount = c.amount
      /\ \A s \in Stays : (\A x \in rows : x.stay # s) => row.share[s] = None
      /\ \A x \in rows : row.share[x.stay] = paise[x] /\ row.days[x.stay] = x.days
  BY DEF Successor
<1>4. \A x \in rows : name[x] = x.stay
  OBVIOUS
<1>5. sharing = {name[x] : x \in rows}
  <2>1. \A n \in Nat : n # None
    BY ElectricityAssumption
  <2>2. ASSUME NEW x \in rows  PROVE x.stay \in sharing
    BY <1>1, <1>2, <1>3, <2>1
  <2>3. ASSUME NEW s \in sharing  PROVE \E x \in rows : x.stay = s
    BY <1>3
  <2> HIDE DEF name
  <2> QED  BY <1>4, <2>2, <2>3
<1> HIDE DEF name
<1>6. \A x, y \in rows : name[x] = name[y] => x = y
  BY <1>4 DEF OneRowEach
<1>7. W = total(rows)
  <2>1. Numbers(Days(rows), rows) /\ \A x \in rows : row.days[name[x]] = Days(rows)[x]
    BY <1>1, <1>3, <1>4 DEF Numbers, Days
  <2>2. SumFunctionOnSet(row.days, {name[x] : x \in rows}) = SumFunctionOnSet(Days(rows), rows)
    BY <1>1, <1>6, <2>1, SumRenamed
  <2> QED  BY <1>1, <1>5, <2>2, TotalIsSum
<1>8. SumFunctionOnSet(row.share, sharing) = SumFunctionOnSet(paise, rows)
  <2>1. Numbers(paise, rows) /\ \A x \in rows : row.share[name[x]] = paise[x]
    BY <1>2, <1>3, <1>4 DEF Numbers
  <2>2. SumFunctionOnSet(row.share, {name[x] : x \in rows}) = SumFunctionOnSet(paise, rows)
    BY <1>1, <1>6, <2>1, SumRenamed
  <2> QED  BY <1>5, <2>2
<1>9. SUFFICES ASSUME W > 0
              PROVE  /\ SumFunctionOnSet(row.share, sharing) = row.amount
                     /\ \A s \in sharing : LET off == row.share[s] * W - row.amount * row.days[s]
                                           IN  -W < off /\ off < W
  BY DEF Exact
<1>10. paise \in allocatePaise(c.amount, rows) /\ total(rows) > 0
  BY <1>7, <1>9 DEF splitElectricity
<1>11. /\ SumFunctionOnSet(paise, rows) = c.amount
       /\ \A x \in rows : LET off == paise[x] * total(rows) - c.amount * x.days
                          IN  -total(rows) < off /\ off < total(rows)
  BY <1>1, <1>10, AllocatedPaise
<1>12. ASSUME NEW s \in sharing
       PROVE  LET off == row.share[s] * W - row.amount * row.days[s]  IN -W < off /\ off < W
  <2>1. PICK x \in rows : x.stay = s
    BY <1>4, <1>5
  <2>2. row.share[s] = paise[x] /\ row.days[s] = x.days /\ row.amount = c.amount
    BY <1>3, <2>1
  <2> HIDE DEF W
  <2> QED  BY <1>7, <1>11, <2>2
<1> QED  BY <1>3, <1>8, <1>11, <1>12

(* Splitting a reading loses no paisa, however many residents share it,    *)
(* for however many days, and whatever else happens meanwhile.             *)
THEOREM NoPaisaLost == Spec => SharesAreExact
<1> DEFINE New == \A i \in DOMAIN reading' \ DOMAIN reading : Exact(reading'[i])
<1>1. ASSUME Typed, [Next]_vars  PROVE New
  <2>1. CASE DOMAIN reading' = DOMAIN reading
    BY <2>1
  <2>2. ASSUME NEW w \in Workers, CommitReading(w), ~Fails(w)  PROVE New
    <3>1. PICK paise \in splitElectricity(call[w].amount, call[w].rows) :
              \E row : /\ Successor(row, call[w], paise)
                       /\ Follow(call[w].existing, Len(reading), row)
      BY <2>2, Recording, <1>1
    <3>2. PICK row : /\ Successor(row, call[w], paise)
                     /\ Follow(call[w].existing, Len(reading), row)
      BY <3>1
    <3>3. OneRowEach(call[w].rows) /\ call[w] \in CallRows
      BY <1>1, <2>2, Recording DEF Typed, CallsOK, Actors
    <3>4. Exact(row)
      BY <3>2, <3>3, RowIsExact
    <3>5. DOMAIN reading = 1..Len(reading) /\ Len(reading) \in Nat
      BY <1>1, Positions DEF Typed, Tables
    <3>6. \A i \in DOMAIN reading' \ DOMAIN reading : reading'[i] = row
      BY <3>2, <3>5 DEF Follow
    <3> QED  BY <3>4, <3>6
  <2>3. CASE \E w \in Workers, i \in DOMAIN reading, s \in Stays, a \in Amounts :
                UpdateShare(w, i, s, a)
    <3>1. DOMAIN reading' = DOMAIN reading
      BY <1>1, <2>3, Sharing
    <3> QED  BY <3>1, <2>1
  <2>4. CASE UNCHANGED reading
    BY <2>4
  <2>5. ASSUME NEW w \in Workers, Start(w)  PROVE UNCHANGED reading
    BY <1>1, <2>5, StartElsewhere
  <2>6. CASE Next
    <3>1. ASSUME NEW w \in Workers,
                 \/ FindReading(w) \/ ReadShares(w) \/ ReadBills(w) \/ CommitShares(w)
                 \/ CommitEntries(w) \/ CommitEdit(w)
          PROVE  UNCHANGED reading
      BY <3>1 DEF FindReading, ReadShares, ReadBills, CommitShares, CommitEntries, CommitEdit,
                  Charged, Fails
    <3>2. CASE ListStays \/ NumberBill \/ InsertBill \/ Finish
      BY <2>4, <3>2 DEF ListStays, NumberBill, InsertBill, Finish, Fails
    <3>3. CASE (\E w \in Actors : Fail(w)) \/ \E r \in Rooms : Rehouse(r)
      BY <2>4, <3>3 DEF Fail, Fails, Rehouse
    <3>4. ASSUME NEW w \in Workers, CommitReading(w)  PROVE New
      BY <2>2, <2>4, <3>4 DEF Fails
    <3> QED  BY <2>3, <2>4, <2>5, <2>6, <3>1, <3>2, <3>3, <3>4 DEF Next
  <2> QED  BY <1>1, <2>4, <2>6 DEF vars
<1>2. Typed /\ [Next]_vars => [New]_vars
  BY <1>1
<1> QED  BY <1>2, TypedInit, TypedStep, PTL DEF Spec, SharesAreExact
-----------------------------------------------------------------------------
(* Bills follow readings.  While a request of the owner is alone no other  *)
(* is in flight; so the shares it read are those of the active readings    *)
(* until it has attached them, and the billing run in between inserts only *)
(* bills that did not exist.                                               *)
AloneOK ==
    \A w \in Workers : (call[w].alone /\ call[w].at # "idle") =>
        \A v \in Workers \ {w} : ~InFlight(v)

InStep ==
    \A w \in Workers : call[w].alone =>
        /\ call[w].at \in {"bills", "attach"} => call[w].charges = ActiveShares
        /\ call[w].at = "attached" => Followed

Following == AloneOK /\ InStep

(* What a step of one request makes of the others.                         *)
OnlyMoves(w) ==
    /\ \A v \in Actors : v # w => call'[v] = call[v]
    /\ call'[w].alone = call[w].alone
    /\ InFlight(w) /\ call'[w].at # "idle"

LEMMA StillAlone ==
    ASSUME AloneOK, NEW w \in Workers, OnlyMoves(w)
    PROVE  AloneOK'
BY DEF AloneOK, OnlyMoves, InFlight, Actors

(* Nobody alone has read shares or attached them while another request is  *)
(* in flight.                                                              *)
LEMMA NobodyElse ==
    ASSUME AloneOK, NEW w \in Workers, InFlight(w), NEW v \in Workers, v # w, call[v].alone
    PROVE  call[v].at \notin {"bills", "attach", "attached"}
BY DEF AloneOK, InFlight

LEMMA StillInStep ==
    ASSUME AloneOK, InStep, NEW w \in Workers, OnlyMoves(w),
           call[w].alone =>
               /\ call'[w].at \in {"bills", "attach"} => call'[w].charges = ActiveShares'
               /\ call'[w].at = "attached" => Followed'
    PROVE  InStep'
<1>1. ASSUME NEW v \in Workers, v # w, call'[v].alone
      PROVE  call'[v].at \notin {"bills", "attach", "attached"}
  BY <1>1, NobodyElse DEF OnlyMoves, Actors
<1> QED  BY <1>1 DEF InStep, OnlyMoves

LEMMA SameShares ==
    ASSUME UNCHANGED <<reading, bill>>
    PROVE  ActiveShares' = ActiveShares /\ (Followed => Followed')
BY DEF ActiveShares, AllShares, SharedBy, Charge, Active, Followed

LEMMA StartFollowing ==
    ASSUME Typed, Following, NEW w \in Workers, Start(w)
    PROVE  Following'
<1>1. PICK row : Good(row) /\ row.at \in {"find", "share", "entries", "edit"} /\ Begin(w, row)
  BY Starts DEF Opened
<1>2. call \in [Actors -> CallRows] /\ row \in CallRows
  BY <1>1 DEF Typed, CallsOK, Good
<1>3. /\ UNCHANGED <<reading, bill>> /\ ~InFlight(w) /\ w # Job
      /\ call'[w] = [row EXCEPT !.alone = (Busy = {})]
      /\ \A v \in Actors \ {w} :
            /\ v \in Busy => call'[v] = [call[v] EXCEPT !.alone = FALSE]
            /\ (v \notin Busy /\ v = Job) => call'[v] = call[v]
            /\ (v \notin Busy /\ v # Job) => call'[v] = NoCall
  BY <1>1, <1>2, Arrives
<1>4. call'[w].at = row.at /\ call'[w].alone = (Busy = {})
  BY <1>2, <1>3 DEF CallRows
<1>5. ASSUME NEW v \in Workers, v # w
      PROVE  \/ v \in Busy /\ ~call'[v].alone
             \/ v \notin Busy /\ call'[v].at = "idle"
  <2>1. v \in Actors /\ v # Job
    BY ElectricityAssumption DEF Actors
  <2>2. CASE v \in Busy
    <3>1. call'[v] = [call[v] EXCEPT !.alone = FALSE] /\ call[v] \in CallRows
      BY <1>2, <1>3, <1>5, <2>1, <2>2
    <3> QED  BY <2>2, <3>1 DEF CallRows
  <2>3. CASE v \notin Busy
    <3>1. v \in Actors \ {w} /\ call'[v] = NoCall
      BY <1>3, <1>5, <2>1, <2>3
    <3>2. NoCall.at = "idle"
      BY DEF NoCall
    <3> QED  BY <2>3, <3>1, <3>2
  <2> QED  BY <2>2, <2>3
<1>6. AloneOK'
  <2>1. ASSUME NEW u \in Workers, call'[u].alone, call'[u].at # "idle", NEW v \in Workers, v # u
        PROVE  ~InFlight(v)'
    <3>1. u = w
      BY <1>5, <2>1
    <3>2. Busy = {}
      BY <1>4, <2>1, <3>1
    <3>3. call'[v].at = "idle"
      BY <1>5, <2>1, <3>1, <3>2
    <3> QED  BY <3>3 DEF InFlight
  <2> QED  BY <2>1 DEF AloneOK
<1>7. InStep'
  BY <1>1, <1>4, <1>5 DEF InStep
<1> QED  BY <1>6, <1>7 DEF Following

LEMMA GotoMoves ==
    ASSUME Typed, NEW w \in Workers, InFlight(w), NEW c \in CallRows, Goto(w, c),
           c.alone = call[w].alone, c.at # "idle"
    PROVE  OnlyMoves(w) /\ call'[w] = c
BY DEF Typed, CallsOK, Goto, OnlyMoves, Actors

LEMMA LabelMoves ==
    ASSUME Typed, NEW w \in Workers, InFlight(w), NEW l \in Labels \ {"idle"},
           Goto(w, [call[w] EXCEPT !.at = l])
    PROVE  OnlyMoves(w) /\ call'[w].at = l /\ call'[w].charges = call[w].charges
<1>1. PICK c : c = [call[w] EXCEPT !.at = l]
  OBVIOUS
<1>2. call[w] \in CallRows
  BY DEF Typed, CallsOK, Actors
<1>3. c \in CallRows /\ c.alone = call[w].alone /\ c.at = l /\ c.charges = call[w].charges
  BY <1>1, <1>2 DEF CallRows
<1> QED  BY <1>1, <1>3, GotoMoves

(* A label that promises nothing about shares or bills.                    *)
LEMMA LabelFollows ==
    ASSUME Typed, Following, NEW w \in Workers, InFlight(w),
           NEW l \in Labels \ {"idle", "bills", "attach", "attached"},
           Goto(w, [call[w] EXCEPT !.at = l])
    PROVE  Following'
<1>1. OnlyMoves(w) /\ call'[w].at = l
  BY LabelMoves
<1> QED  BY <1>1, StillAlone, StillInStep DEF Following

LEMMA RecordFollowing ==
    ASSUME Typed, Following, NEW w \in Workers,
           \/ FindReading(w) \/ CommitReading(w) \/ CommitEntries(w) \/ CommitEdit(w)
           \/ \E i \in DOMAIN reading, s \in Stays, a \in Amounts : UpdateShare(w, i, s, a)
    PROVE  Following'
<1>1. call[w] \in CallRows
  BY DEF Typed, CallsOK, Actors
<1>2. InFlight(w)
  BY DEF InFlight, FindReading, CommitReading, CommitEntries, CommitEdit, UpdateShare
<1>3. CASE FindReading(w)
  <2>1. PICK i \in IF ActiveIn(call[w].room) = {} THEN {0} ELSE ActiveIn(call[w].room) :
            Goto(w, [call[w] EXCEPT !.at = "record", !.existing = i])
    BY <1>3 DEF FindReading
  <2>2. i \in Nat
    BY <2>1, Positions DEF ActiveIn, Typed, Tables
  <2>3. PICK c : c = [call[w] EXCEPT !.at = "record", !.existing = i]
    OBVIOUS
  <2>4. c \in CallRows /\ c.at = "record" /\ c.alone = call[w].alone
    BY <1>1, <2>2, <2>3 DEF CallRows, Labels
  <2>5. OnlyMoves(w) /\ call'[w].at = "record"
    BY <1>2, <2>1, <2>3, <2>4, GotoMoves
  <2> QED  BY <2>5, StillAlone, StillInStep DEF Following
<1>4. CASE ~FindReading(w)
  <2>1. PICK l \in {"shares", "done", "failed"} : Goto(w, [call[w] EXCEPT !.at = l])
    BY <1>4 DEF CommitReading, CommitEntries, Charged, CommitEdit, UpdateShare, Fails
  <2>2. l \in Labels \ {"idle", "bills", "attach", "attached"}
    BY DEF Labels
  <2> QED  BY <1>2, <2>1, <2>2, LabelFollows
<1> QED  BY <1>3, <1>4

LEMMA ReadFollowing ==
    ASSUME Typed, Following, NEW w \in Workers, ReadShares(w) \/ ReadBills(w)
    PROVE  Following'
<1>1. call[w] \in CallRows /\ UNCHANGED <<reading, bill>>
  BY DEF Typed, CallsOK, Actors, ReadShares, ReadBills
<1>2. InFlight(w)
  BY DEF InFlight, ReadShares, ReadBills
<1>3. CASE ReadShares(w)
  <2>1. PICK c : c = [call[w] EXCEPT !.charges = ActiveShares,
                                     !.at = IF ActiveShares = {} THEN "attached" ELSE "bills"]
    OBVIOUS
  <2>2. Goto(w, c)
    BY <1>3, <2>1 DEF ReadShares
  <2>3. /\ c \in CallRows /\ c.alone = call[w].alone /\ c.charges = ActiveShares
        /\ c.at = IF ActiveShares = {} THEN "attached" ELSE "bills"
    BY <1>1, <2>1, ActiveSharesTyped DEF CallRows, Labels, Typed
  <2>4. OnlyMoves(w) /\ call'[w] = c
    BY <1>2, <2>2, <2>3, GotoMoves
  <2>5. ActiveShares = {} => Followed
    <3>1. SUFFICES ASSUME ActiveShares = {}, NEW s \in Stays
                   PROVE  Cardinality({e \in ActiveShares : e.stay = s}) # 1
      BY DEF Followed
    <3>2. {e \in ActiveShares : e.stay = s} = {}
      BY <3>1
    <3> QED  BY <3>2, FS_EmptySet
  <2> QED  BY <1>1, <2>3, <2>4, <2>5, SameShares, StillAlone, StillInStep DEF Following
<1>4. CASE ReadBills(w)
  <2>1. PICK c : c = [call[w] EXCEPT !.at = IF @ = "bills" THEN "attach" ELSE "enter",
                                     !.known = Billed, !.count = Cardinality(Billed)]
    OBVIOUS
  <2>2. Goto(w, c)
    BY <1>4, <2>1 DEF ReadBills
  <2>3. /\ c \in CallRows /\ c.alone = call[w].alone /\ c.charges = call[w].charges
        /\ c.at = IF call[w].at = "bills" THEN "attach" ELSE "enter"
    BY <1>1, <2>1, BillRows DEF CallRows, Labels, Typed
  <2>4. OnlyMoves(w) /\ call'[w] = c
    BY <1>2, <2>2, <2>3, GotoMoves
  <2>5. (call[w].alone /\ call[w].at = "bills") => call[w].charges = ActiveShares
    BY DEF Following, InStep
  <2> QED  BY <1>1, <2>3, <2>4, <2>5, SameShares, StillAlone, StillInStep DEF Following
<1> QED  BY <1>3, <1>4

(* The bill of whoever has one share, once the shares are attached.        *)
LEMMA OneShareOneLine ==
    ASSUME Tables, NEW w \in Actors, Good(call[w]), call[w].at = "attach", MayRaise(w),
           NEW s \in Stays, NEW e, ChargesOf(w, s) = {e}, NEW b \in LinesAfter(w, s)
    PROVE  b = <<Line(e)>> \/ Len(b) > 1
<1>1. /\ bill[s] \in Seq(Lines) /\ Len(bill[s]) \in Nat /\ DOMAIN bill[s] = 1..Len(bill[s])
      /\ bill[s] = <<>> <=> Len(bill[s]) = 0
  BY BillRows
<1>2. CASE ChargesOf(w, s) \cap ToRaise(w) # {}
  <2>0. ChargesOf(w, s) # {}
    OBVIOUS
  <2>1. LinesAfter(w, s) = {<<Line(f)>> : f \in ChargesOf(w, s)}
    <3> QED  BY <1>2, <2>0, Zenon DEF LinesAfter
  <2>2. PICK f \in ChargesOf(w, s) : b = <<Line(f)>>
    BY <2>1
  <2> QED  BY <2>2
<1>3. CASE ChargesOf(w, s) \cap ToRaise(w) = {}
  <2>1. e.stay = s /\ e \in call[w].charges /\ e \notin ToRaise(w)
    BY <1>3 DEF ChargesOf
  <2>2. s \in call[w].known
    BY <2>1 DEF ToRaise
  <2>3. Len(bill[s]) > 0
    BY <1>1, <2>2 DEF Good, WorksOn
  <2>4. b \in Refreshed(bill[s], {e})
    BY <1>3 DEF LinesAfter
  <2>5. PICK K \in (SUBSET DOMAIN bill[s]) \ {{}} : \E g \in Injection(K, {e}) :
            b = [k \in DOMAIN bill[s] |-> IF k \in DOMAIN g THEN Line(g[k]) ELSE bill[s][k]]
    BY <2>4 DEF Refreshed
  <2>6. PICK g \in Injection(K, {e}) :
            b = [k \in DOMAIN bill[s] |-> IF k \in DOMAIN g THEN Line(g[k]) ELSE bill[s][k]]
    BY <2>5
  <2>7. g \in [K -> {e}]
    BY DEF Injection
  <2>8. b \in Seq(Lines) /\ Len(bill[s]) <= Len(b)
    BY LinesTyped
  <2>9. CASE Len(bill[s]) = 1
    <3>1. DOMAIN bill[s] = {1} /\ K = {1}
      BY <1>1, <2>5, <2>9
    <3>2. b = [k \in {1} |-> Line(e)]
      BY <2>6, <2>7, <3>1
    <3>3. b = <<Line(e)>>
      BY <3>2
    <3> QED  BY <3>3
  <2>10. CASE Len(bill[s]) # 1
    <3>1. PICK m, n : m = Len(b) /\ n = Len(bill[s])
      OBVIOUS
    <3>2. m \in Nat
      BY <2>8, <3>1, Positions
    <3>3. n \in Nat /\ n > 0 /\ n # 1 /\ n <= m
      BY <1>1, <2>3, <2>8, <2>10, <3>1
    <3>4. m > 1
      BY <3>2, <3>3
    <3> QED  BY <3>1, <3>4
  <2> QED  BY <2>9, <2>10
<1> QED  BY <1>2, <1>3

LEMMA AttachFollowing ==
    ASSUME Typed, Following, NEW w \in Workers, CommitShares(w)
    PROVE  Following'
<1>1. InFlight(w) /\ call[w].at = "attach" /\ w \in Actors /\ Good(call[w]) /\ Tables
  BY DEF InFlight, CommitShares, Typed, CallsOK, Actors
<1>2. CASE Fails(w)
  <2>1. Goto(w, [call[w] EXCEPT !.at = "failed"])
        /\ "failed" \in Labels \ {"idle", "bills", "attach", "attached"}
    BY <1>2 DEF Fails, Labels
  <2> QED  BY <1>1, <2>1, LabelFollows
<1>3. CASE ~Fails(w)
  <2>1. /\ MayRaise(w) /\ Goto(w, [call[w] EXCEPT !.at = "attached"]) /\ UNCHANGED reading
        /\ \A s \in Stays : bill'[s] \in LinesAfter(w, s)
    BY <1>3 DEF CommitShares, Charged
  <2>2. OnlyMoves(w) /\ call'[w].at = "attached"
    BY <1>1, <2>1, LabelMoves DEF Labels
  <2>3. ASSUME call[w].alone  PROVE Followed'
    <3>1. call[w].charges = ActiveShares
      BY <1>1, <2>3 DEF Following, InStep
    <3>2. ActiveShares' = ActiveShares
      BY <2>1 DEF ActiveShares, AllShares, SharedBy, Charge, Active
    <3>3. ASSUME NEW s \in Stays, Cardinality({e \in ActiveShares : e.stay = s}) = 1
          PROVE  \E e \in {x \in ActiveShares : x.stay = s} :
                     bill'[s] = <<Line(e)>> \/ Len(bill'[s]) > 1
      <4>1. ChargesOf(w, s) = {e \in ActiveShares : e.stay = s}
        BY <3>1 DEF ChargesOf
      <4>2. IsFiniteSet(ChargesOf(w, s)) /\ Cardinality(ChargesOf(w, s)) = 1
        BY <1>1, <3>3, <4>1, FS_Subset DEF Good, ChargesOf
      <4>3. PICK e : ChargesOf(w, s) = {e}
        BY <4>2, FS_Singleton
      <4>4. bill'[s] = <<Line(e)>> \/ Len(bill'[s]) > 1
        BY <1>1, <2>1, <4>3, OneShareOneLine
      <4> QED  BY <4>1, <4>3, <4>4
    <3> QED  BY <3>2, <3>3 DEF Followed, Line
  <2> QED  BY <2>2, <2>3, StillAlone, StillInStep DEF Following
<1> QED  BY <1>2, <1>3

(* The billing run inserts the bill of somebody who has none, hence of     *)
(* nobody whose share has been attached.                                   *)
LEMMA JobFollowing ==
    ASSUME Typed, Following, ListStays \/ NumberBill \/ InsertBill \/ Finish
    PROVE  Following'
<1>1. UNCHANGED reading /\ \A w \in Workers : call'[w] = call[w] /\ w \in Actors
  BY ElectricityAssumption
     DEF ListStays, NumberBill, InsertBill, Finish, Fails, Goto, Typed, CallsOK, Actors
<1>2. ActiveShares' = ActiveShares
  BY <1>1 DEF ActiveShares, AllShares, SharedBy, Charge, Active
<1>3. Followed => Followed'
  <2>1. CASE UNCHANGED bill
    BY <1>1, <2>1, SameShares
  <2>2. CASE ~ UNCHANGED bill
    <3> DEFINE j == call[Job].stay
    <3>1. bill[j] = <<>> /\ \A s \in Stays : s # j => bill'[s] = bill[s]
      BY <2>2 DEF ListStays, NumberBill, InsertBill, Finish, Fails, Typed, Tables
    <3>2. \A e : <<Line(e)>> # <<>> /\ Len(<<>>) = 0
      BY EmptySeq
    <3>3. ASSUME Followed, NEW s \in Stays, Cardinality({e \in ActiveShares : e.stay = s}) = 1
          PROVE  \E e \in {x \in ActiveShares : x.stay = s} :
                     bill'[s] = <<Line(e)>> \/ Len(bill'[s]) > 1
      <4>1. PICK e \in {x \in ActiveShares : x.stay = s} :
                     bill[s] = <<Line(e)>> \/ Len(bill[s]) > 1
        BY <3>3 DEF Followed
      <4>2. s # j
        BY <3>1, <3>2, <4>1
      <4> QED  BY <3>1, <4>1, <4>2
    <3> QED  BY <1>2, <3>3 DEF Followed, Line
  <2> QED  BY <2>1, <2>2
<1>4. AloneOK'
  BY <1>1 DEF Following, AloneOK, InFlight
<1>5. InStep'
  BY <1>1, <1>2, <1>3 DEF Following, InStep
<1> QED  BY <1>4, <1>5 DEF Following

LEMMA FailFollowing ==
    ASSUME Typed, Following, NEW w \in Actors, Fail(w)
    PROVE  Following'
<1>1. InFlight(w) /\ Goto(w, [call[w] EXCEPT !.at = "failed"]) /\ UNCHANGED <<reading, bill>>
  BY DEF Fail, Fails
<1>2. CASE w \in Workers
  BY <1>1, <1>2, LabelFollows DEF Labels
<1>3. CASE w = Job
  <2>1. \A v \in Workers : call'[v] = call[v]
    BY <1>1, <1>3, ElectricityAssumption DEF Goto, Typed, CallsOK, Actors
  <2> QED  BY <1>1, <2>1, SameShares DEF Following, AloneOK, InStep, InFlight
<1> QED  BY <1>2, <1>3 DEF Actors

LEMMA FollowingInit == Init => Following
<1> SUFFICES ASSUME Init  PROVE Following
  OBVIOUS
<1>1. \A w \in Workers : call[w].at = "idle"
  BY DEF Init, NoCall, Actors
<1> QED  BY <1>1 DEF Following, AloneOK, InStep

LEMMA FollowingStep == Typed /\ Following /\ [Next]_vars => Following'
<1> SUFFICES ASSUME Typed, Following, [Next]_vars  PROVE Following'
  OBVIOUS
<1>1. ASSUME NEW w \in Workers, Start(w)  PROVE Following'
  BY <1>1, StartFollowing
<1>2. ASSUME NEW w \in Workers,
             \/ FindReading(w) \/ CommitReading(w) \/ CommitEntries(w) \/ CommitEdit(w)
             \/ \E i \in DOMAIN reading, s \in Stays, a \in Amounts : UpdateShare(w, i, s, a)
      PROVE  Following'
  BY <1>2, RecordFollowing
<1>3. ASSUME NEW w \in Workers, ReadShares(w) \/ ReadBills(w)  PROVE Following'
  BY <1>3, ReadFollowing
<1>4. ASSUME NEW w \in Workers, CommitShares(w)  PROVE Following'
  BY <1>4, AttachFollowing
<1>5. CASE ListStays \/ NumberBill \/ InsertBill \/ Finish
  BY <1>5, JobFollowing
<1>6. ASSUME NEW w \in Actors, Fail(w)  PROVE Following'
  BY <1>6, FailFollowing
<1>7. ASSUME UNCHANGED <<reading, bill, call>>  PROVE Following'
  BY <1>7, SameShares DEF Following, AloneOK, InStep, InFlight
<1>8. ASSUME NEW r \in Rooms, Rehouse(r)  PROVE Following'
  BY <1>7, <1>8 DEF Rehouse
<1>9. CASE UNCHANGED vars
  BY <1>7, <1>9 DEF vars
<1> QED  BY <1>1, <1>2, <1>3, <1>4, <1>5, <1>6, <1>8, <1>9 DEF Next

(* Whatever failed before, and whatever the billing run does meanwhile: a  *)
(* request that nobody overlapped leaves the bills as the readings say.    *)
THEOREM BillsFollow == Spec => []BillsFollowReadings
<1>1. Following => BillsFollowReadings
  BY DEF Following, InStep, BillsFollowReadings
<1> QED  BY <1>1, TypedInit, TypedStep, FollowingInit, FollowingStep, PTL DEF Spec
=============================================================================
