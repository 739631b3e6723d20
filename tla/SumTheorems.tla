---------------------------- MODULE SumTheorems ----------------------------
(***************************************************************************)
(* What the sums of the models (SumFunctionOnSet and SumFunction of the    *)
(* community modules) add up to, for every finite set of indices.  The     *)
(* community module defines a sum as the value of a function on the        *)
(* subsets of the indices that takes away one element at a time; each      *)
(* fact below is proved by looking at a smallest set that it fails for.    *)
(* Facts about naturals and sequences, for the same argument on functions  *)
(* on numbers and for the nodes' lists, come first.                        *)
(***************************************************************************)
EXTENDS Functions, SequencesExt, SequenceTheorems, FiniteSetTheorems, TLAPS

\* The element that is taken away first.
Taken(T) == CHOOSE x \in T : TRUE

\* g computes the sums of f over the subsets of S.
Sums(g, f, S) ==
  g = [T \in SUBSET S |->
         IF T = {} THEN 0 ELSE f[Taken(T)] + g[T \ {Taken(T)}]]

\* Not more than unfolding the definitions of the community modules.
LEMMA SumIsIter ==
  ASSUME NEW f, NEW S
  PROVE  SumFunctionOnSet(f, S) = (CHOOSE g : Sums(g, f, S))[S]
BY DEF SumFunctionOnSet, FoldFunctionOnSet, MapThenFoldSet, Sums, Taken

LEMMA AnyMember ==
  ASSUME NEW T, T # {}
  PROVE  Taken(T) \in T
BY DEF Taken

\* Among the subsets of a finite set that have some property one is smallest.
LEMMA MinimalSet ==
  ASSUME NEW S, IsFiniteSet(S), NEW B, B \subseteq SUBSET S, B # {}
  PROVE  \E X \in B : \A Y \in B : Y \subseteq X => Y = X
<1>1. IsWellFoundedOn(StrictSubsetOrdering(S), SUBSET S)
  BY FS_StrictSubsetOrderingWellFounded, FS_FiniteSubsetsOfFinite
<1>2. \E x \in B : \A y \in B : ~ (<<y, x>> \in StrictSubsetOrdering(S))
  BY <1>1, WFMin
<1>3. QED
  BY <1>2 DEF StrictSubsetOrdering

\* A set of naturals has a least element.
LEMMA LeastNat ==
  ASSUME NEW S, S \subseteq Nat, S # {}
  PROVE  \E m \in S : \A n \in S : m <= n
<1>1. PICK k \in S : TRUE
  OBVIOUS
<1>2. PICK K : K = 0 .. k /\ IsFiniteSet(K)
  BY FS_Interval
<1> DEFINE B == {X \in SUBSET K : \E n \in S : X = 0 .. n}
<1>3. B \subseteq SUBSET K
  OBVIOUS
<1>4. B # {}
  <2>1. 0 .. k \in B
    BY <1>2
  <2>2. QED
    BY <2>1
<1>5. PICK X \in B : \A Y \in B : Y \subseteq X => Y = X
  <2>1. IsFiniteSet(K)
    BY <1>2
  <2> HIDE DEF B
  <2>2. QED
    BY <1>3, <1>4, <2>1, MinimalSet
<1>6. PICK m \in S : X = 0 .. m
  OBVIOUS
<1>7. ASSUME NEW n \in S, n < m
      PROVE  FALSE
  <2>1. 0 .. n \in B /\ 0 .. n \subseteq X
    BY <1>2, <1>6, <1>7
  <2>2. 0 .. n = 0 .. m
    BY <1>5, <1>6, <2>1
  <2>3. m \in 0 .. m /\ m \notin 0 .. n
    BY <1>7
  <2>4. QED
    BY <2>2, <2>3
<1>8. QED
  BY <1>7

\* A function on an initial segment is a sequence.
LEMMA FunctionsAreSeqs ==
  ASSUME NEW S, NEW n \in Nat, NEW f \in [1 .. n -> S]
  PROVE  f \in Seq(S) /\ Len(f) = n
<1>1. f = [i \in 1 .. n |-> f[i]] /\ \A i \in 1 .. n : f[i] \in S
  OBVIOUS
<1>2. [i \in 1 .. n |-> f[i]] \in Seq(S) /\ Len([i \in 1 .. n |-> f[i]]) = n
  BY <1>1
<1>3. QED
  BY <1>1, <1>2

\* SetToSeq lists the set.
LEMMA SetToSeqLists ==
  ASSUME NEW S, IsFiniteSet(S)
  PROVE  SetToSeq(S) \in Seq(S) /\ Range(SetToSeq(S)) = S
<1> DEFINE n == Cardinality(S)
           D == 1 .. n
<1>1. n \in Nat /\ ExistsBijection(D, S)
  BY FS_CardinalityType
<1>2. PICK b : b \in Bijection(D, S)
  BY <1>1 DEF ExistsBijection
<1>3. b \in [D -> S] /\ IsInjective(b)
  BY <1>2 DEF Bijection, Injection
<1> DEFINE f == SetToSeq(S)
<1>4. f \in [D -> S] /\ IsInjective(f)
  BY <1>3 DEF SetToSeq
<1> HIDE DEF f
<1>5. f \in Seq(S)
  BY <1>1, <1>4, FunctionsAreSeqs
<1>6. f \in Injection(D, S)
  BY <1>4 DEF Injection
<1>7. IsFiniteSet(D) /\ Cardinality(D) = n
  <2>1. IsFiniteSet(1 .. n) /\ Cardinality(1 .. n) = n
    BY <1>1, FS_Interval
  <2> QED
    BY <2>1
<1>8. f \in Surjection(D, S)
  BY <1>6, <1>7, FS_Injection
<1>9. Range(f) = S
  BY <1>4, <1>8 DEF Surjection, Range
<1>10. QED
  BY <1>5, <1>9 DEF f

\* What an appended list has.
LEMMA AppendRange ==
  ASSUME NEW S, NEW list \in Seq(S), NEW e \in S
  PROVE  /\ Range(Append(list, e)) = Range(list) \union {e}
         /\ DOMAIN Append(list, e) = 1 .. Len(list) + 1
         /\ \A i \in DOMAIN list : Append(list, e)[i] = list[i]
         /\ Append(list, e)[Len(list) + 1] = e
<1>1. /\ Append(list, e) \in Seq(S) /\ Len(Append(list, e)) = Len(list) + 1
      /\ \A i \in 1 .. Len(list) : Append(list, e)[i] = list[i]
      /\ Append(list, e)[Len(list) + 1] = e
  BY AppendProperties
<1>2. /\ Len(list) \in Nat /\ DOMAIN list = 1 .. Len(list)
      /\ DOMAIN Append(list, e) = 1 .. Len(list) + 1
  BY <1>1
<1>3. Range(Append(list, e)) = Range(list) \union {e}
  BY <1>1, <1>2 DEF Range
<1>4. QED
  BY <1>1, <1>2, <1>3

\* What a consumed list has.
LEMMA TailRange ==
  ASSUME NEW S, NEW list \in Seq(S), list # <<>>
  PROVE  /\ Range(list) = Range(Tail(list)) \union {Head(list)}
         /\ \A i \in DOMAIN Tail(list) :
              i + 1 \in DOMAIN list /\ Tail(list)[i] = list[i + 1]
         /\ 1 \in DOMAIN list /\ Head(list) = list[1]
<1>1. /\ Len(list) \in Nat /\ Len(list) > 0 /\ DOMAIN list = 1 .. Len(list)
      /\ Head(list) = list[1]
  BY EmptySeq, LenProperties
<1>2. /\ Tail(list) \in Seq(S) /\ Len(Tail(list)) = Len(list) - 1
      /\ \A i \in 1 .. Len(Tail(list)) : Tail(list)[i] = list[i + 1]
  BY HeadTailProperties
<1>3. DOMAIN Tail(list) = 1 .. Len(list) - 1
  BY <1>2, LenProperties
<1>4. ASSUME NEW i \in DOMAIN list
      PROVE  list[i] = Head(list) \/ list[i] \in Range(Tail(list))
  <2>1. CASE i = 1
    BY <1>1, <2>1
  <2>2. CASE i # 1
    <3>1. i - 1 \in DOMAIN Tail(list) /\ Tail(list)[i - 1] = list[i]
      BY <1>1, <1>2, <1>3, <1>4, <2>2
    <3>2. QED
      BY <3>1 DEF Range
  <2>3. QED
    BY <2>1, <2>2
<1>5. \A i \in DOMAIN Tail(list) :
        i + 1 \in DOMAIN list /\ Tail(list)[i] = list[i + 1]
  BY <1>1, <1>2, <1>3
<1>6. 1 \in DOMAIN list
  BY <1>1
<1>7. Range(list) = Range(Tail(list)) \union {Head(list)}
  <2>1. Range(list) \subseteq Range(Tail(list)) \union {Head(list)}
    BY <1>4 DEF Range
  <2>2. Range(Tail(list)) \subseteq Range(list) /\ Head(list) \in Range(list)
    BY <1>1, <1>5, <1>6 DEF Range
  <2>3. QED
    BY <2>1, <2>2
<1>8. QED
  BY <1>1, <1>5, <1>6, <1>7

\* Two functions that agree on a set have the same sum over it, whichever
\* sets the sums were computed for.
LEMMA SumsAgree ==
  ASSUME NEW S, IsFiniteSet(S), NEW R, NEW f, NEW k, NEW g, NEW h,
         Sums(g, f, S), Sums(h, k, R),
         NEW T, T \subseteq S, T \subseteq R, \A x \in T : f[x] = k[x]
  PROVE  g[T] = h[T]
<1> DEFINE Bad == {X \in SUBSET T : g[X] # h[X]}
<1>1. SUFFICES ASSUME Bad # {} PROVE FALSE
  OBVIOUS
<1>2. Bad \subseteq SUBSET S
  OBVIOUS
<1>3. PICK X \in Bad : \A Y \in Bad : Y \subseteq X => Y = X
  <2> HIDE DEF Bad
  <2>1. QED
    BY <1>1, <1>2, MinimalSet
<1>4. X \subseteq T /\ g[X] # h[X] /\ X \in SUBSET S /\ X \in SUBSET R
  OBVIOUS
<1>5. /\ g[X] = IF X = {} THEN 0 ELSE f[Taken(X)] + g[X \ {Taken(X)}]
      /\ h[X] = IF X = {} THEN 0 ELSE k[Taken(X)] + h[X \ {Taken(X)}]
  BY <1>4 DEF Sums
<1>6. X # {}
  BY <1>4, <1>5
<1>7. Taken(X) \in X
  BY <1>6, AnyMember
<1>8. g[X \ {Taken(X)}] = h[X \ {Taken(X)}]
  BY <1>3, <1>4, <1>7
<1>9. QED
  BY <1>4, <1>5, <1>6, <1>7, <1>8

\* Over a finite set the sums exist.
LEMMA SumsExist ==
  ASSUME NEW S, IsFiniteSet(S), NEW f
  PROVE  \E g : Sums(g, f, S)
<1> DEFINE Bad == {X \in SUBSET S : ~ \E g : Sums(g, f, X)}
<1>1. SUFFICES ASSUME Bad # {} PROVE FALSE
  OBVIOUS
<1>2. PICK X \in Bad : \A Y \in Bad : Y \subseteq X => Y = X
  <2>1. Bad \subseteq SUBSET S
    OBVIOUS
  <2> HIDE DEF Bad
  <2>2. QED
    BY <1>1, <2>1, MinimalSet
<1>3. X \in SUBSET S
  OBVIOUS
<1> DEFINE G(Y) == CHOOSE g : Sums(g, f, Y)
           new == [R \in SUBSET X |->
                     IF R = {} THEN 0
                     ELSE f[Taken(R)] + G(R \ {Taken(R)})[R \ {Taken(R)}]]
<1>4. ASSUME NEW Y \in SUBSET X, Y # X
      PROVE  Sums(G(Y), f, Y)
  <2>1. Y \notin Bad
    BY <1>2, <1>4
  <2>2. \E g : Sums(g, f, Y)
    BY <1>3, <2>1
  <2>3. QED
    BY <2>2
<1>5. ASSUME NEW Y \in SUBSET X, Y # X
      PROVE  new[Y] = G(Y)[Y]
  <2>1. Sums(G(Y), f, Y) /\ IsFiniteSet(Y)
    BY <1>3, <1>4, <1>5, FS_Subset
  <2> HIDE DEF G
  <2>2. G(Y)[Y] = IF Y = {} THEN 0 ELSE f[Taken(Y)] + G(Y)[Y \ {Taken(Y)}]
    BY <2>1 DEF Sums
  <2>3. CASE Y = {}
    BY <2>2, <2>3
  <2>4. CASE Y # {}
    <3> DEFINE Z == Y \ {Taken(Y)}
    <3>1. Taken(Y) \in Y
      BY <2>4, AnyMember
    <3>2. Z \in SUBSET X /\ Z # X /\ Z \subseteq Y
      BY <3>1
    <3>3. Sums(G(Z), f, Z)
      BY <1>4, <3>2
    <3>4. G(Y)[Z] = G(Z)[Z]
      <4> HIDE DEF Z
      <4>1. \A x \in Z : f[x] = f[x]
        OBVIOUS
      <4>2. QED
        BY <2>1, <3>2, <3>3, <4>1, SumsAgree
    <3>5. QED
      BY <2>2, <2>4, <3>4
  <2>5. QED
    BY <2>3, <2>4
<1>6. Sums(new, f, X)
  <2>1. ASSUME NEW R \in SUBSET X, R # {}
        PROVE  new[R \ {Taken(R)}] = G(R \ {Taken(R)})[R \ {Taken(R)}]
    <3>1. Taken(R) \in R
      BY <2>1, AnyMember
    <3>2. R \ {Taken(R)} \in SUBSET X /\ R \ {Taken(R)} # X
      BY <3>1
    <3> HIDE DEF new, G
    <3>3. QED
      BY <1>5, <3>2
  <2> DEFINE Step(R) == IF R = {} THEN 0 ELSE f[Taken(R)] + new[R \ {Taken(R)}]
  <2>2. \A R \in SUBSET X : new[R] = Step(R)
    <3> SUFFICES ASSUME NEW R \in SUBSET X PROVE new[R] = Step(R)
      OBVIOUS
    <3>1. CASE R = {}
      BY <3>1
    <3>2. CASE R # {}
      <4>1. new[R] = f[Taken(R)] + G(R \ {Taken(R)})[R \ {Taken(R)}]
        BY <3>2
      <4> HIDE DEF new, G
      <4>2. QED
        BY <2>1, <3>2, <4>1
    <3>3. QED
      BY <3>1, <3>2
  <2>3. new = [R \in SUBSET X |-> new[R]]
    OBVIOUS
  <2> HIDE DEF new
  <2>4. new = [R \in SUBSET X |-> Step(R)]
    <3> HIDE DEF Step
    <3>1. QED
      BY <2>2, <2>3
  <2>5. QED
    BY <2>4 DEF Sums
<1>7. QED
  BY <1>2, <1>6

\* The sum of nothing.
LEMMA SumEmpty ==
  ASSUME NEW f
  PROVE  SumFunctionOnSet(f, {}) = 0
<1>1. IsFiniteSet({})
  BY FS_EmptySet
<1> DEFINE g == CHOOSE g : Sums(g, f, {})
<1>2. Sums(g, f, {})
  BY <1>1, SumsExist
<1>3. g[{}] = 0
  <2> HIDE DEF g
  <2>1. QED
    BY <1>2 DEF Sums
<1>4. QED
  BY <1>3, SumIsIter

\* Only the values on the set count.
LEMMA SumSame ==
  ASSUME NEW S, IsFiniteSet(S), NEW f, NEW k, \A x \in S : f[x] = k[x]
  PROVE  SumFunctionOnSet(f, S) = SumFunctionOnSet(k, S)
<1> DEFINE g == CHOOSE g : Sums(g, f, S)
           h == CHOOSE h : Sums(h, k, S)
<1>1. Sums(g, f, S) /\ Sums(h, k, S)
  BY SumsExist
<1> HIDE DEF g, h
<1>2. g[S] = h[S]
  BY <1>1, SumsAgree
<1>3. QED
  BY <1>2, SumIsIter DEF g, h

\* One step of the sum, in the order that the definition takes.
LEMMA SumStep ==
  ASSUME NEW S, IsFiniteSet(S), NEW f, S # {}
  PROVE  /\ Taken(S) \in S
         /\ SumFunctionOnSet(f, S)
              = f[Taken(S)] + SumFunctionOnSet(f, S \ {Taken(S)})
<1> DEFINE R == S \ {Taken(S)}
           g == CHOOSE g : Sums(g, f, S)
           h == CHOOSE h : Sums(h, f, R)
<1>1. Taken(S) \in S /\ R \subseteq S /\ IsFiniteSet(R)
  BY AnyMember, FS_Subset
<1>2. Sums(g, f, S) /\ Sums(h, f, R)
  BY <1>1, SumsExist
<1>3. g[S] = f[Taken(S)] + g[R]
  <2> HIDE DEF g
  <2>1. QED
    BY <1>2 DEF Sums
<1>4. g[R] = h[R]
  <2> HIDE DEF g, h, R
  <2>1. \A x \in R : f[x] = f[x]
    OBVIOUS
  <2>2. QED
    BY <1>1, <1>2, <2>1, SumsAgree
<1>5. SumFunctionOnSet(f, S) = g[S] /\ SumFunctionOnSet(f, R) = h[R]
  BY SumIsIter
<1>6. QED
  BY <1>1, <1>3, <1>4, <1>5

LEMMA SumInt ==
  ASSUME NEW S, IsFiniteSet(S), NEW f, \A x \in S : f[x] \in Int
  PROVE  SumFunctionOnSet(f, S) \in Int
<1> DEFINE Bad == {X \in SUBSET S : SumFunctionOnSet(f, X) \notin Int}
<1>1. SUFFICES ASSUME Bad # {} PROVE FALSE
  OBVIOUS
<1>2. PICK X \in Bad : \A Y \in Bad : Y \subseteq X => Y = X
  <2>1. Bad \subseteq SUBSET S
    OBVIOUS
  <2> HIDE DEF Bad
  <2>2. QED
    BY <1>1, <2>1, MinimalSet
<1>3. X \in SUBSET S /\ IsFiniteSet(X) /\ SumFunctionOnSet(f, X) \notin Int
  BY FS_Subset
<1>4. X # {}
  BY <1>3, SumEmpty
<1>5. /\ Taken(X) \in X
      /\ SumFunctionOnSet(f, X)
           = f[Taken(X)] + SumFunctionOnSet(f, X \ {Taken(X)})
  BY <1>3, <1>4, SumStep
<1>6. SumFunctionOnSet(f, X \ {Taken(X)}) \in Int
  BY <1>2, <1>3, <1>5
<1>7. QED
  BY <1>3, <1>5, <1>6

LEMMA SumNat ==
  ASSUME NEW S, IsFiniteSet(S), NEW f, \A x \in S : f[x] \in Nat
  PROVE  SumFunctionOnSet(f, S) \in Nat
<1> DEFINE Bad == {X \in SUBSET S : SumFunctionOnSet(f, X) \notin Nat}
<1>1. SUFFICES ASSUME Bad # {} PROVE FALSE
  OBVIOUS
<1>2. PICK X \in Bad : \A Y \in Bad : Y \subseteq X => Y = X
  <2>1. Bad \subseteq SUBSET S
    OBVIOUS
  <2> HIDE DEF Bad
  <2>2. QED
    BY <1>1, <2>1, MinimalSet
<1>3. X \in SUBSET S /\ IsFiniteSet(X) /\ SumFunctionOnSet(f, X) \notin Nat
  BY FS_Subset
<1>4. X # {}
  BY <1>3, SumEmpty
<1>5. /\ Taken(X) \in X
      /\ SumFunctionOnSet(f, X)
           = f[Taken(X)] + SumFunctionOnSet(f, X \ {Taken(X)})
  BY <1>3, <1>4, SumStep
<1>6. SumFunctionOnSet(f, X \ {Taken(X)}) \in Nat
  BY <1>2, <1>3, <1>5
<1>7. QED
  BY <1>3, <1>5, <1>6

\* The order in which the elements are taken does not matter.
LEMMA SumRemove ==
  ASSUME NEW S, IsFiniteSet(S), NEW f, \A x \in S : f[x] \in Int,
         NEW a \in S
  PROVE  SumFunctionOnSet(f, S) = f[a] + SumFunctionOnSet(f, S \ {a})
<1> DEFINE Holds(X, x) ==
      SumFunctionOnSet(f, X) = f[x] + SumFunctionOnSet(f, X \ {x})
    Bad == {X \in SUBSET S : \E x \in X : ~Holds(X, x)}
<1>1. SUFFICES ASSUME Bad # {} PROVE FALSE
  OBVIOUS
<1>2. PICK X \in Bad : \A Y \in Bad : Y \subseteq X => Y = X
  <2>1. Bad \subseteq SUBSET S
    OBVIOUS
  <2> HIDE DEF Bad
  <2>2. QED
    BY <1>1, <2>1, MinimalSet
<1>3. PICK x \in X : ~Holds(X, x)
  OBVIOUS
<1>4. X \in SUBSET S /\ IsFiniteSet(X)
  BY FS_Subset
<1> DEFINE y == Taken(X)
<1>5. y \in X /\ Holds(X, y)
  BY <1>3, <1>4, SumStep
<1>6. x # y
  BY <1>3, <1>5
<1>7. Holds(X \ {y}, x) /\ Holds(X \ {x}, y)
  <2> HIDE DEF Holds
  <2>1. X \ {y} \notin Bad /\ X \ {x} \notin Bad
    BY <1>2, <1>5
  <2>2. QED
    BY <1>4, <1>5, <1>6, <2>1
<1>8. (X \ {y}) \ {x} = (X \ {x}) \ {y}
  OBVIOUS
<1> DEFINE rest == SumFunctionOnSet(f, (X \ {x}) \ {y})
<1>9. rest \in Int /\ f[x] \in Int /\ f[y] \in Int
  <2>1. (X \ {x}) \ {y} \subseteq S /\ IsFiniteSet((X \ {x}) \ {y})
    BY <1>4, FS_Subset
  <2>2. QED
    BY <1>4, <1>5, <2>1, SumInt
<1>10. /\ SumFunctionOnSet(f, X) = f[y] + (f[x] + rest)
       /\ SumFunctionOnSet(f, X \ {x}) = f[y] + rest
  BY <1>5, <1>7, <1>8
<1>11. Holds(X, x)
  <2> HIDE DEF rest, y
  <2>1. QED
    BY <1>9, <1>10
<1>12. QED
  BY <1>3, <1>11
-----------------------------------------------------------------------------
(* How a sum changes *)

LEMMA SumAdd ==
  ASSUME NEW S, IsFiniteSet(S), NEW f, \A x \in S : f[x] \in Int,
         NEW a, a \notin S, f[a] \in Int
  PROVE  SumFunctionOnSet(f, S \union {a}) = f[a] + SumFunctionOnSet(f, S)
<1>1. IsFiniteSet(S \union {a})
  BY FS_AddElement
<1>2. (S \union {a}) \ {a} = S
  OBVIOUS
<1>3. \A x \in S \union {a} : f[x] \in Int
  OBVIOUS
<1>4. QED
  BY <1>1, <1>2, <1>3, SumRemove

\* One entry that changes changes the sum by as much.
LEMMA SumChange ==
  ASSUME NEW S, IsFiniteSet(S), NEW f, NEW k, NEW a \in S,
         \A x \in S : f[x] \in Int /\ k[x] \in Int,
         \A x \in S \ {a} : k[x] = f[x]
  PROVE  SumFunctionOnSet(k, S) = SumFunctionOnSet(f, S) + (k[a] - f[a])
<1> DEFINE R == S \ {a}
<1>1. IsFiniteSet(R) /\ R \subseteq S
  BY FS_Subset
<1>2. SumFunctionOnSet(f, R) = SumFunctionOnSet(k, R)
  BY <1>1, SumSame
<1>3. SumFunctionOnSet(f, R) \in Int
  BY <1>1, SumInt
<1>4. /\ SumFunctionOnSet(f, S) = f[a] + SumFunctionOnSet(f, R)
      /\ SumFunctionOnSet(k, S) = k[a] + SumFunctionOnSet(k, R)
  <2>1. \A x \in S : f[x] \in Int
    OBVIOUS
  <2>2. \A x \in S : k[x] \in Int
    OBVIOUS
  <2>3. QED
    BY <2>1, <2>2, SumRemove
<1> HIDE DEF R
<1>5. QED
  BY <1>2, <1>3, <1>4

\* One entry of naturals is at most their sum.
LEMMA SumMember ==
  ASSUME NEW S, IsFiniteSet(S), NEW f, \A x \in S : f[x] \in Nat,
         NEW a \in S
  PROVE  f[a] <= SumFunctionOnSet(f, S)
<1>1. IsFiniteSet(S \ {a}) /\ \A x \in S \ {a} : f[x] \in Nat
  BY FS_Subset
<1>2. SumFunctionOnSet(f, S \ {a}) \in Nat
  BY <1>1, SumNat
<1>3. \A x \in S : f[x] \in Int
  OBVIOUS
<1>4. SumFunctionOnSet(f, S) = f[a] + SumFunctionOnSet(f, S \ {a})
  BY <1>3, SumRemove
<1>5. QED
  BY <1>2, <1>4

\* A sum over two parts of a set.
LEMMA SumSplit ==
  ASSUME NEW S, IsFiniteSet(S), NEW f, \A x \in S : f[x] \in Int,
         NEW R, R \subseteq S
  PROVE  SumFunctionOnSet(f, S)
           = SumFunctionOnSet(f, R) + SumFunctionOnSet(f, S \ R)
<1> DEFINE Q == S \ R
           Holds(X) == SumFunctionOnSet(f, Q \union X)
                         = SumFunctionOnSet(f, X) + SumFunctionOnSet(f, Q)
           Bad == {X \in SUBSET R : ~Holds(X)}
<1>1. SUFFICES ASSUME Bad # {} PROVE FALSE
  <2>1. S = Q \union R /\ R \in SUBSET R
    OBVIOUS
  <2>2. QED
    BY <2>1
<1>2. IsFiniteSet(R) /\ IsFiniteSet(Q)
  BY FS_Subset
<1>3. PICK X \in Bad : \A Y \in Bad : Y \subseteq X => Y = X
  <2>1. Bad \subseteq SUBSET R
    OBVIOUS
  <2> HIDE DEF Bad
  <2>2. QED
    BY <1>1, <1>2, <2>1, MinimalSet
<1>4. X \subseteq R /\ ~Holds(X) /\ IsFiniteSet(X) /\ IsFiniteSet(Q \union X)
  BY <1>2, FS_Subset, FS_Union
<1>5. SumFunctionOnSet(f, Q) \in Int
  BY <1>2, SumInt
<1>6. X # {}
  <2>1. Q \union {} = Q
    OBVIOUS
  <2>2. Holds({})
    BY <1>5, <2>1, SumEmpty
  <2>3. QED
    BY <1>4, <2>2
<1>7. PICK a \in X : TRUE
  BY <1>6
<1> DEFINE Y == X \ {a}
<1>8. Holds(Y)
  <2> HIDE DEF Holds
  <2>1. Y \notin Bad
    BY <1>3
  <2>2. QED
    BY <1>4, <2>1
<1>9. SumFunctionOnSet(f, Q \union X) = f[a] + SumFunctionOnSet(f, Q \union Y)
  <2>1. (Q \union X) \ {a} = Q \union Y
    BY <1>4
  <2>2. \A x \in Q \union X : f[x] \in Int
    BY <1>4
  <2> HIDE DEF Q, Y
  <2>3. QED
    BY <1>4, <2>1, <2>2, SumRemove
<1>10. SumFunctionOnSet(f, X) = f[a] + SumFunctionOnSet(f, Y)
  <2>1. \A x \in X : f[x] \in Int
    BY <1>4
  <2>2. QED
    BY <1>4, <2>1, SumRemove
<1>11. SumFunctionOnSet(f, Y) \in Int /\ f[a] \in Int
  <2>1. IsFiniteSet(Y) /\ Y \subseteq S
    BY <1>4, FS_Subset
  <2>2. QED
    BY <1>4, <2>1, SumInt
<1>12. Holds(X)
  <2> HIDE DEF Q, Y
  <2>1. QED
    BY <1>5, <1>8, <1>9, <1>10, <1>11
<1>13. QED
  BY <1>4, <1>12

\* Naturals that are each no larger have no larger sum.
LEMMA SumAtMost ==
  ASSUME NEW S, IsFiniteSet(S), NEW f, NEW k,
         \A x \in S : f[x] \in Int /\ k[x] \in Int /\ f[x] <= k[x]
  PROVE  SumFunctionOnSet(f, S) <= SumFunctionOnSet(k, S)
<1> DEFINE Holds(X) == SumFunctionOnSet(f, X) <= SumFunctionOnSet(k, X)
           Bad == {X \in SUBSET S : ~Holds(X)}
<1>1. SUFFICES ASSUME Bad # {} PROVE FALSE
  OBVIOUS
<1>2. PICK X \in Bad : \A Y \in Bad : Y \subseteq X => Y = X
  <2>1. Bad \subseteq SUBSET S
    OBVIOUS
  <2> HIDE DEF Bad
  <2>2. QED
    BY <1>1, <2>1, MinimalSet
<1>3. X \subseteq S /\ ~Holds(X) /\ IsFiniteSet(X)
  BY FS_Subset
<1>4. X # {}
  BY <1>3, SumEmpty
<1>5. PICK a \in X : TRUE
  BY <1>4
<1> DEFINE Y == X \ {a}
<1>6. Y \subseteq S /\ IsFiniteSet(Y) /\ Holds(Y)
  <2> HIDE DEF Holds
  <2>1. Y \notin Bad
    BY <1>2
  <2>2. QED
    BY <1>3, <2>1, FS_Subset
<1>7. /\ SumFunctionOnSet(f, X) = f[a] + SumFunctionOnSet(f, Y)
      /\ SumFunctionOnSet(k, X) = k[a] + SumFunctionOnSet(k, Y)
  BY <1>3, SumRemove
<1>8. SumFunctionOnSet(f, Y) \in Int /\ SumFunctionOnSet(k, Y) \in Int
  BY <1>6, SumInt
<1>9. f[a] \in Int /\ k[a] \in Int /\ f[a] <= k[a]
  BY <1>3
<1>10. Holds(X)
  <2> HIDE DEF Y
  <2>1. QED
    BY <1>6, <1>7, <1>8, <1>9
<1>11. QED
  BY <1>3, <1>10

\* A sum of zeros.
LEMMA SumZero ==
  ASSUME NEW S, IsFiniteSet(S), NEW f, \A x \in S : f[x] = 0
  PROVE  SumFunctionOnSet(f, S) = 0
<1> DEFINE Bad == {X \in SUBSET S : SumFunctionOnSet(f, X) # 0}
<1>1. SUFFICES ASSUME Bad # {} PROVE FALSE
  OBVIOUS
<1>2. PICK X \in Bad : \A Y \in Bad : Y \subseteq X => Y = X
  <2>1. Bad \subseteq SUBSET S
    OBVIOUS
  <2> HIDE DEF Bad
  <2>2. QED
    BY <1>1, <2>1, MinimalSet
<1>3. X \subseteq S /\ SumFunctionOnSet(f, X) # 0 /\ IsFiniteSet(X)
  BY FS_Subset
<1>4. X # {}
  BY <1>3, SumEmpty
<1>5. /\ Taken(X) \in X
      /\ SumFunctionOnSet(f, X)
           = f[Taken(X)] + SumFunctionOnSet(f, X \ {Taken(X)})
  BY <1>3, <1>4, SumStep
<1>6. SumFunctionOnSet(f, X \ {Taken(X)}) = 0
  BY <1>2, <1>3, <1>5
<1>7. QED
  BY <1>3, <1>5, <1>6
\* A sum of sums.
LEMMA SumPlus ==
  ASSUME NEW S, IsFiniteSet(S), NEW f, NEW g, NEW k,
         \A x \in S : f[x] \in Int /\ g[x] \in Int /\ k[x] = f[x] + g[x]
  PROVE  SumFunctionOnSet(k, S)
           = SumFunctionOnSet(f, S) + SumFunctionOnSet(g, S)
<1> DEFINE Holds(X) == SumFunctionOnSet(k, X)
                         = SumFunctionOnSet(f, X) + SumFunctionOnSet(g, X)
           Bad == {X \in SUBSET S : ~Holds(X)}
<1>1. SUFFICES ASSUME Bad # {} PROVE FALSE
  OBVIOUS
<1>2. PICK X \in Bad : \A Y \in Bad : Y \subseteq X => Y = X
  <2>1. Bad \subseteq SUBSET S
    OBVIOUS
  <2> HIDE DEF Bad
  <2>2. QED
    BY <1>1, <2>1, MinimalSet
<1>3. X \subseteq S /\ ~Holds(X) /\ IsFiniteSet(X)
  BY FS_Subset
<1>4. X # {}
  BY <1>3, SumEmpty
<1>5. PICK a \in X : TRUE
  BY <1>4
<1> DEFINE Y == X \ {a}
<1>6. Y \subseteq S /\ IsFiniteSet(Y) /\ Holds(Y)
  <2> HIDE DEF Holds
  <2>1. Y \notin Bad
    BY <1>2
  <2>2. QED
    BY <1>3, <2>1, FS_Subset
<1>7. f[a] \in Int /\ g[a] \in Int /\ k[a] = f[a] + g[a]
  BY <1>3
<1>8. /\ SumFunctionOnSet(f, X) = f[a] + SumFunctionOnSet(f, Y)
      /\ SumFunctionOnSet(g, X) = g[a] + SumFunctionOnSet(g, Y)
      /\ SumFunctionOnSet(k, X) = k[a] + SumFunctionOnSet(k, Y)
  <2>1. \A x \in X : f[x] \in Int /\ g[x] \in Int /\ k[x] \in Int
    BY <1>3
  <2>2. QED
    BY <1>3, <2>1, SumRemove
<1>9. SumFunctionOnSet(f, Y) \in Int /\ SumFunctionOnSet(g, Y) \in Int
  BY <1>6, SumInt
<1>10. Holds(X)
  <2> HIDE DEF Y
  <2>1. QED
    BY <1>6, <1>7, <1>8, <1>9
<1>11. QED
  BY <1>3, <1>10

\* A multiple of a sum.
LEMMA SumTimes ==
  ASSUME NEW S, IsFiniteSet(S), NEW f, NEW k, NEW c \in Int,
         \A x \in S : f[x] \in Int /\ k[x] = c * f[x]
  PROVE  SumFunctionOnSet(k, S) = c * SumFunctionOnSet(f, S)
<1> DEFINE Holds(X) == SumFunctionOnSet(k, X) = c * SumFunctionOnSet(f, X)
           Bad == {X \in SUBSET S : ~Holds(X)}
<1>1. SUFFICES ASSUME Bad # {} PROVE FALSE
  OBVIOUS
<1>2. PICK X \in Bad : \A Y \in Bad : Y \subseteq X => Y = X
  <2>1. Bad \subseteq SUBSET S
    OBVIOUS
  <2> HIDE DEF Bad
  <2>2. QED
    BY <1>1, <2>1, MinimalSet
<1>3. X \subseteq S /\ ~Holds(X) /\ IsFiniteSet(X)
  BY FS_Subset
<1>4. X # {}
  <2>1. Holds({})
    BY SumEmpty
  <2>2. QED
    BY <1>3, <2>1
<1>5. PICK a \in X : TRUE
  BY <1>4
<1> DEFINE Y == X \ {a}
<1>6. Y \subseteq S /\ IsFiniteSet(Y) /\ Holds(Y)
  <2> HIDE DEF Holds
  <2>1. Y \notin Bad
    BY <1>2
  <2>2. QED
    BY <1>3, <2>1, FS_Subset
<1>7. f[a] \in Int /\ k[a] = c * f[a]
  BY <1>3
<1>8. /\ SumFunctionOnSet(f, X) = f[a] + SumFunctionOnSet(f, Y)
      /\ SumFunctionOnSet(k, X) = k[a] + SumFunctionOnSet(k, Y)
  <2>1. \A x \in X : f[x] \in Int /\ k[x] \in Int
    BY <1>3
  <2>2. QED
    BY <1>3, <2>1, SumRemove
<1>9. PICK rest \in Int : rest = SumFunctionOnSet(f, Y)
  BY <1>6, SumInt
<1>10. c * (f[a] + rest) = c * f[a] + c * rest
  BY <1>7
<1>11. Holds(X)
  <2> HIDE DEF Y
  <2>1. QED
    BY <1>6, <1>7, <1>8, <1>9, <1>10
<1>12. QED
  BY <1>3, <1>11
-----------------------------------------------------------------------------
(* The same, of a function that is summed over its domain *)

LEMMA SumOfFunction ==
  ASSUME NEW S, NEW f \in [S -> Int]
  PROVE  SumFunction(f) = SumFunctionOnSet(f, S)
BY DEF SumFunction

LEMMA SumFunctionInt ==
  ASSUME NEW S, IsFiniteSet(S), NEW f \in [S -> Int]
  PROVE  SumFunction(f) \in Int
BY SumOfFunction, SumInt

LEMMA SumFunctionNat ==
  ASSUME NEW S, IsFiniteSet(S), NEW f \in [S -> Nat]
  PROVE  SumFunction(f) \in Nat
<1>1. f \in [S -> Int]
  OBVIOUS
<1>2. QED
  BY <1>1, SumOfFunction, SumNat

LEMMA SumFunctionZero ==
  ASSUME NEW S, IsFiniteSet(S), NEW f \in [S -> Int], \A x \in S : f[x] = 0
  PROVE  SumFunction(f) = 0
BY SumOfFunction, SumZero

LEMMA SumFunctionMember ==
  ASSUME NEW S, IsFiniteSet(S), NEW f \in [S -> Nat], NEW a \in S
  PROVE  f[a] <= SumFunction(f)
<1>1. f \in [S -> Int]
  OBVIOUS
<1>2. QED
  BY <1>1, SumOfFunction, SumMember

LEMMA SumFunctionChange ==
  ASSUME NEW S, IsFiniteSet(S), NEW f \in [S -> Int], NEW k \in [S -> Int],
         NEW a \in S, \A x \in S \ {a} : k[x] = f[x]
  PROVE  SumFunction(k) = SumFunction(f) + (k[a] - f[a])
BY SumOfFunction, SumChange

\* k extends f by an entry for a.
AddsEntry(k, f, S, a) ==
  /\ IsFiniteSet(S) /\ a \notin S
  /\ f \in [S -> Int] /\ k \in [S \union {a} -> Int]
  /\ \A x \in S : k[x] = f[x]

LEMMA SumFunctionAdd ==
  ASSUME NEW k, NEW f, NEW S, NEW a, AddsEntry(k, f, S, a)
  PROVE  SumFunction(k) = SumFunction(f) + k[a]
<1>1. /\ IsFiniteSet(S) /\ a \notin S
      /\ f \in [S -> Int] /\ k \in [S \union {a} -> Int]
      /\ \A x \in S : k[x] = f[x]
  BY DEF AddsEntry
<1>2. SumFunctionOnSet(k, S \union {a}) = k[a] + SumFunctionOnSet(k, S)
  BY <1>1, SumAdd
<1>3. SumFunctionOnSet(k, S) = SumFunctionOnSet(f, S)
  BY <1>1, SumSame
<1>4. SumFunctionOnSet(f, S) \in Int /\ k[a] \in Int
  BY <1>1, SumInt
<1>5. QED
  BY <1>1, <1>2, <1>3, <1>4, SumOfFunction
=============================================================================
