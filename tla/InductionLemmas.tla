--------------------------- MODULE InductionLemmas ---------------------------
(***************************************************************************)
(* Induction and folds, for the proofs of this project.  The induction     *)
(* theorems of the library take a predicate; these take the set of what    *)
(* satisfies it.                                                           *)
(***************************************************************************)
EXTENDS
    Integers, Sequences, FiniteSets, SequencesExt, FiniteSetsExt,
    WellFoundedInduction, FiniteSetTheorems, SequenceTheorems, TLAPS

-----------------------------------------------------------------------------
(* Numbers and finite sets. *)


(* A set of numbers has a least one.                                       *)
LEMMA LeastNumber ==
    ASSUME NEW T, T \subseteq Nat, T # {}
    PROVE  \E n \in T : \A m \in T : n <= m
<1> DEFINE R == StrictSubsetOrdering(Nat)
<1> DEFINE F == FiniteSubsetsOf(Nat)
<1> DEFINE W == {0 .. n : n \in T}
<1>1. IsWellFoundedOn(R, F)
  BY FS_StrictSubsetOrderingWellFounded
<1>2. W \subseteq F /\ W # {}
  <2>1. \A n \in T : 0 .. n \in SUBSET Nat /\ IsFiniteSet(0 .. n)
    BY FS_Interval
  <2>2. \A n \in T : 0 .. n \in F
    BY <2>1 DEF FiniteSubsetsOf
  <2>3. W # {}
    OBVIOUS
  <2> QED BY <2>2, <2>3
<1>3. PICK w \in W : \A y \in W : <<y, w>> \notin R
  <2> HIDE DEF W, R, F
  <2> QED BY <1>1, <1>2, WFMin, Zenon
<1>4. PICK n \in T : w = 0 .. n
  BY <1>3
<1>5. ASSUME NEW m \in T, ~ (n <= m) PROVE FALSE
  <2>1. 0 .. m \in SUBSET Nat /\ 0 .. n \in SUBSET Nat /\ 0 .. m \subseteq 0 .. n /\ 0 .. m # 0 .. n
    BY <1>5
  <2>2. <<0 .. m, 0 .. n>> \in R
    BY <2>1 DEF StrictSubsetOrdering
  <2> QED BY <1>3, <1>4, <2>2
<1> QED
  BY <1>5

(* A set that holds 0, and with a number the next, holds all of them.     *)
LEMMA NumbersByInduction ==
    ASSUME NEW S, 0 \in S, \A n \in Nat : n \in S => n + 1 \in S
    PROVE  Nat \subseteq S
<1> SUFFICES ASSUME NEW k \in Nat, k \notin S PROVE FALSE
  OBVIOUS
<1>1. PICK n \in {m \in Nat : m \notin S} : \A m \in {m \in Nat : m \notin S} : n <= m
  <2> DEFINE T == {m \in Nat : m \notin S}
  <2>1. T \subseteq Nat /\ T # {} OBVIOUS
  <2> HIDE DEF T
  <2>2. \E n \in T : \A m \in T : n <= m BY <2>1, LeastNumber
  <2> QED BY <2>2 DEF T
<1>2. n # 0 /\ n - 1 \in Nat
  BY <1>1
<1>3. n - 1 \in S
  BY <1>1, <1>2
<1> QED
  BY <1>1, <1>2, <1>3

(* Some element of a finite set comes first in a strict order.              *)
LEMMA FirstInOrder ==
    ASSUME NEW S, IsFiniteSet(S), S # {}, NEW R,
           \A x \in S : <<x, x>> \notin R,
           \A x, y, z \in S : <<x, y>> \in R /\ <<y, z>> \in R => <<x, z>> \in R
    PROVE  \E x \in S : \A y \in S : <<y, x>> \notin R
<1> DEFINE Below(x) == {y \in S : <<y, x>> \in R}
<1> DEFINE Sizes == {Cardinality(Below(x)) : x \in S}
<1>1. \A x \in S : IsFiniteSet(Below(x)) /\ Cardinality(Below(x)) \in Nat
  <2> TAKE x \in S
  <2>1. Below(x) \in SUBSET S
    OBVIOUS
  <2> HIDE DEF Below
  <2> QED BY <2>1, FS_Subset, FS_CardinalityType
<1>2. Sizes \subseteq Nat /\ Sizes # {}
  <2> HIDE DEF Below
  <2> QED BY <1>1
<1>3. PICK n \in Sizes : \A m \in Sizes : n <= m
  <2> HIDE DEF Sizes
  <2> QED BY <1>2, LeastNumber
<1>4. PICK x \in S : n = Cardinality(Below(x))
  OBVIOUS
<1>5. ASSUME NEW y \in S, <<y, x>> \in R PROVE FALSE
  <2>1. Below(y) \in SUBSET Below(x) /\ y \in Below(x) /\ y \notin Below(y)
    BY <1>5
  <2> HIDE DEF Below
  <2>2. Cardinality(Below(y)) <= Cardinality(Below(x)) /\ Cardinality(Below(y)) # Cardinality(Below(x))
    BY <2>1, <1>1, FS_Subset
  <2>3. Cardinality(Below(x)) <= Cardinality(Below(y))
    BY <1>3, <1>4
  <2> QED BY <2>2, <2>3, <1>1
<1> QED
  BY <1>5

(* What holds of a finite set once it holds of the set without any one of *)
(* its elements holds of every subset.                                    *)
LEMMA SubsetsByInduction ==
    ASSUME NEW S, IsFiniteSet(S), NEW W,
           \A T \in SUBSET S : (\A x \in T : T \ {x} \in W) => T \in W
    PROVE  SUBSET S \subseteq W
<1> DEFINE R == StrictSubsetOrdering(S)
<1> DEFINE N == {T \in SUBSET S : T \notin W}
<1> SUFFICES ASSUME N # {} PROVE FALSE
  OBVIOUS
<1>1. IsWellFoundedOn(R, SUBSET S)
  <2>1. FiniteSubsetsOf(S) = SUBSET S
    BY FS_FiniteSubsetsOfFinite
  <2>2. IsWellFoundedOn(R, FiniteSubsetsOf(S))
    BY FS_StrictSubsetOrderingWellFounded
  <2> HIDE DEF R
  <2> QED BY <2>1, <2>2, Zenon
<1>2. PICK T \in N : \A y \in N : <<y, T>> \notin R
  <2>1. N \subseteq SUBSET S
    OBVIOUS
  <2> HIDE DEF N, R
  <2> QED BY <1>1, <2>1, WFMin, Zenon
<1>3. PICK x \in T : T \ {x} \notin W
  OBVIOUS
<1>4. T \ {x} \in N /\ T \ {x} # T
  BY <1>2, <1>3
<1>5. <<T \ {x}, T>> \in R
  BY <1>2, <1>4 DEF StrictSubsetOrdering
<1> QED
  BY <1>2, <1>4, <1>5

(* What holds of {} and is kept by adding an element holds of a finite set. *)
LEMMA FiniteByInduction ==
    ASSUME NEW S, IsFiniteSet(S), NEW U, {} \in U,
           \A T \in SUBSET S : \A x \in S \ T : T \in U => T \cup {x} \in U
    PROVE  S \in U
<1>1. ASSUME NEW T \in SUBSET S, \A x \in T : T \ {x} \in U PROVE T \in U
  <2>1. CASE T = {}
    BY <2>1
  <2>2. ASSUME NEW x \in T PROVE T \in U
    <3>1. T \ {x} \in SUBSET S /\ x \in S \ (T \ {x}) /\ T = (T \ {x}) \cup {x}
      BY <2>2
    <3> QED BY <1>1, <2>2, <3>1
  <2> QED BY <2>1, <2>2
<1>2. SUBSET S \subseteq U
  BY <1>1, SubsetsByInduction
<1> QED
  BY <1>2

(* A finite set of numbers has a greatest one, and Max is it.              *)
LEMMA GreatestNumber ==
    ASSUME NEW T, T \subseteq Nat, IsFiniteSet(T), T # {}
    PROVE  Max(T) \in T /\ \A n \in T : n <= Max(T)
<1> DEFINE R == {mn \in T \X T : mn[1] > mn[2]}
<1>1. \E n \in T : \A m \in T : <<m, n>> \notin R
  <2>1. \A m \in T : <<m, m>> \notin R
    OBVIOUS
  <2>2. \A k, m, n \in T : <<k, m>> \in R /\ <<m, n>> \in R => <<k, n>> \in R
    OBVIOUS
  <2> HIDE DEF R
  <2> QED BY <2>1, <2>2, FirstInOrder
<1>2. \E n \in T : \A m \in T : n >= m
  <2>1. PICK n \in T : \A m \in T : <<m, n>> \notin R
    BY <1>1
  <2>2. \A m \in T : ~ (m > n)
    BY <2>1
  <2> HIDE DEF R
  <2> QED BY <2>2
<1> QED
  BY <1>2 DEF Max

(* Some of the first n numbers are finitely many.                           *)
LEMMA FiniteNumbers ==
    ASSUME NEW n \in Nat, NEW T, T \subseteq 1..n
    PROVE  IsFiniteSet(T) /\ T \subseteq Nat
<1>1. IsFiniteSet(1..n)
  BY FS_Interval
<1>2. IsFiniteSet(T)
  BY <1>1, FS_Subset
<1> QED
  BY <1>2

(* Distinct elements with distinct images are as many as these.             *)
LEMMA ImageSize ==
    ASSUME NEW S, IsFiniteSet(S), NEW f, NEW T, T = {f[x] : x \in S}
    PROVE  /\ IsFiniteSet(T) /\ Cardinality(T) \in Nat
           /\ (\A x, y \in S : f[x] = f[y] => x = y) => Cardinality(T) = Cardinality(S)
<1> DEFINE g == [x \in S |-> f[x]]
<1>1. g \in Surjection(S, T)
  BY DEF Surjection
<1>2. (\A x, y \in S : f[x] = f[y] => x = y) => g \in Injection(S, T)
  BY DEF Injection, IsInjective
<1> HIDE DEF g
<1> QED
  BY <1>1, <1>2, FS_Surjection, FS_CardinalityType

(* A set in three parts is as large as they are together.                   *)
LEMMA ThreeParts ==
    ASSUME NEW S, IsFiniteSet(S), NEW A, NEW B, NEW C, S = A \cup B \cup C,
           A \cap B = {}, A \cap C = {}, B \cap C = {}
    PROVE  /\ Cardinality(A) \in Nat /\ Cardinality(B) \in Nat /\ Cardinality(C) \in Nat
           /\ Cardinality(S) = Cardinality(A) + Cardinality(B) + Cardinality(C)
<1>1. A \in SUBSET S /\ B \in SUBSET S /\ C \in SUBSET S
  OBVIOUS
<1>2. IsFiniteSet(A) /\ IsFiniteSet(B) /\ IsFiniteSet(C)
  BY <1>1, FS_Subset
<1>3. Cardinality(A) \in Nat /\ Cardinality(B) \in Nat /\ Cardinality(C) \in Nat
  BY <1>2, FS_CardinalityType
<1>4. /\ IsFiniteSet(A \cup B)
      /\ Cardinality(A \cup B) = Cardinality(A) + Cardinality(B) - Cardinality({})
  BY <1>2, FS_Union
<1>5. (A \cup B) \cap C = {}
  OBVIOUS
<1>6. Cardinality((A \cup B) \cup C) = Cardinality(A \cup B) + Cardinality(C) - Cardinality({})
  <2>1. Cardinality((A \cup B) \cup C)
          = Cardinality(A \cup B) + Cardinality(C) - Cardinality((A \cup B) \cap C)
    BY <1>2, <1>4, FS_Union
  <2> QED BY <2>1, <1>5
<1> QED
  BY <1>3, <1>4, <1>6, FS_EmptySet

(* The least and the greatest of finitely many integers.                     *)
LEMMA EndsOfIntegers ==
    ASSUME NEW T, T \subseteq Int, IsFiniteSet(T), T # {}
    PROVE  /\ Min(T) \in T /\ \A x \in T : Min(T) <= x
           /\ Max(T) \in T /\ \A x \in T : x <= Max(T)
<1> DEFINE R == {e \in T \X T : e[1] < e[2]}
<1> DEFINE Q == {e \in T \X T : e[1] > e[2]}
<1>1. PICK a \in T : \A y \in T : <<y, a>> \notin R
  <2>1. /\ \A x \in T : <<x, x>> \notin R
        /\ \A x, y, z \in T : <<x, y>> \in R /\ <<y, z>> \in R => <<x, z>> \in R
    OBVIOUS
  <2> HIDE DEF R
  <2> QED BY <2>1, FirstInOrder
<1>2. PICK b \in T : \A y \in T : <<y, b>> \notin Q
  <2>1. /\ \A x \in T : <<x, x>> \notin Q
        /\ \A x, y, z \in T : <<x, y>> \in Q /\ <<y, z>> \in Q => <<x, z>> \in Q
    OBVIOUS
  <2> HIDE DEF Q
  <2> QED BY <2>1, FirstInOrder
<1> T \subseteq Int /\ a \in T /\ b \in T
  OBVIOUS
<1>3. ASSUME NEW y \in T PROVE a <= y
  <2>1. <<y, a>> \in T \X T /\ <<y, a>>[1] = y /\ <<y, a>>[2] = a
    OBVIOUS
  <2>2. ~ (y < a)
    BY <1>1, <2>1
  <2> QED BY <2>2
<1>4. ASSUME NEW y \in T PROVE b >= y
  <2>1. <<y, b>> \in T \X T /\ <<y, b>>[1] = y /\ <<y, b>>[2] = b
    OBVIOUS
  <2>2. ~ (y > b)
    BY <1>2, <2>1
  <2> QED BY <2>2
<1> HIDE DEF R, Q
<1>5. Min(T) \in T /\ \A x \in T : Min(T) <= x
  BY <1>3 DEF Min
<1>6. Max(T) \in T /\ \A x \in T : Max(T) >= x
  BY <1>4 DEF Max
<1> QED BY <1>5, <1>6

(* The least and the greatest of two integers. *)
LEMMA TwoNumbers ==
    ASSUME NEW a \in Int, NEW b \in Int, a <= b
    PROVE  Min({a, b}) = a /\ Max({a, b}) = b /\ Min({b, a}) = a /\ Max({b, a}) = b
<1>1. \A x \in {a, b} : (\A y \in {a, b} : x <= y) => x = a
  OBVIOUS
<1>2. \A x \in {a, b} : (\A y \in {a, b} : x >= y) => x = b
  OBVIOUS
<1>3. {a, b} = {b, a}
  OBVIOUS
<1>4. Min({a, b}) = a
  BY <1>1 DEF Min
<1>5. Max({a, b}) = b
  BY <1>2 DEF Max
<1> QED BY <1>3, <1>4, <1>5

-----------------------------------------------------------------------------
(* Sequences. *)

(* What appending an element does.                                          *)
LEMMA AppendFacts ==
    ASSUME NEW S, NEW s \in Seq(S), NEW e \in S
    PROVE  /\ Append(s, e) \in Seq(S) /\ Len(Append(s, e)) = Len(s) + 1
           /\ DOMAIN Append(s, e) = DOMAIN s \cup {Len(s) + 1}
           /\ \A i \in DOMAIN s : Append(s, e)[i] = s[i]
           /\ Append(s, e)[Len(s) + 1] = e
<1>1. Len(s) \in Nat /\ DOMAIN s = 1 .. Len(s)
  OBVIOUS
<1>2. /\ Append(s, e) \in Seq(S) /\ Len(Append(s, e)) = Len(s) + 1
      /\ \A i \in 1 .. Len(s) : Append(s, e)[i] = s[i]
      /\ Append(s, e)[Len(s) + 1] = e
  OBVIOUS
<1>3. DOMAIN Append(s, e) = 1 .. Len(s) + 1
  BY <1>2, LenProperties
<1>4. 1 .. Len(s) + 1 = (1 .. Len(s)) \cup {Len(s) + 1}
  BY <1>1
<1> QED
  BY <1>1, <1>2, <1>3, <1>4

(* A sequence, whatever its elements.                                       *)
IsSequence(s) == \E A : s \in Seq(A)

(* A sequence has a length, and is defined up to it.                        *)
LEMMA SequenceFacts ==
    ASSUME NEW s, IsSequence(s)
    PROVE  Len(s) \in Nat /\ DOMAIN s = 1..Len(s)
<1>1. PICK A : s \in Seq(A)
  BY DEF IsSequence
<1> QED
  BY <1>1

(* What is given for the first n numbers is a sequence.                     *)
LEMMA MappingIsSequence ==
    ASSUME NEW n \in Nat, NEW f, f = [i \in 1..n |-> f[i]]
    PROVE  IsSequence(f) /\ Len(f) = n
<1> DEFINE A == {f[i] : i \in 1..n}
<1>1. \A i \in 1..n : f[i] \in A
  OBVIOUS
<1>2. f \in [1..n -> A]
  <2> HIDE DEF A
  <2> QED BY <1>1
<1>3. f \in Seq(A)
  <2> HIDE DEF A
  <2> QED BY <1>2, SeqDef
<1>4. DOMAIN f = 1..n
  BY <1>2
<1> QED
  BY <1>3, <1>4 DEF IsSequence

(* What appending any element does.                                         *)
LEMMA AppendSequence ==
    ASSUME NEW s, IsSequence(s), NEW e
    PROVE  /\ IsSequence(Append(s, e)) /\ Len(Append(s, e)) = Len(s) + 1
           /\ DOMAIN Append(s, e) = DOMAIN s \cup {Len(s) + 1}
           /\ \A i \in DOMAIN s : Append(s, e)[i] = s[i]
           /\ Append(s, e)[Len(s) + 1] = e
<1>1. PICK A : s \in Seq(A)
  BY DEF IsSequence
<1> DEFINE B == A \cup {e}
<1>2. s \in Seq(B) /\ e \in B
  BY <1>1
<1> HIDE DEF B
<1>3. /\ Append(s, e) \in Seq(B) /\ Len(Append(s, e)) = Len(s) + 1
      /\ DOMAIN Append(s, e) = DOMAIN s \cup {Len(s) + 1}
      /\ \A i \in DOMAIN s : Append(s, e)[i] = s[i]
      /\ Append(s, e)[Len(s) + 1] = e
  BY <1>2, AppendFacts
<1> QED
  BY <1>3 DEF IsSequence

(* What joining two sequences does.                                         *)
LEMMA JoinedSequence ==
    ASSUME NEW s, IsSequence(s), NEW t, IsSequence(t)
    PROVE  /\ IsSequence(s \o t) /\ Len(s \o t) = Len(s) + Len(t)
           /\ \A i \in 1..Len(s) : (s \o t)[i] = s[i]
           /\ \A i \in 1..Len(t) : (s \o t)[Len(s) + i] = t[i]
<1>1. PICK A : s \in Seq(A)
  BY DEF IsSequence
<1>2. PICK B : t \in Seq(B)
  BY DEF IsSequence
<1> DEFINE C == A \cup B
<1>3. s \in Seq(C) /\ t \in Seq(C)
  BY <1>1, <1>2
<1> HIDE DEF C
<1>4. s \o t \in Seq(C) /\ Len(s \o t) = Len(s) + Len(t) /\ Len(s) \in Nat /\ Len(t) \in Nat
  BY <1>3
<1>5. \A i \in 1..(Len(s) + Len(t)) : (s \o t)[i] = IF i <= Len(s) THEN s[i] ELSE t[i - Len(s)]
  BY <1>3
<1>6. \A i \in 1..Len(s) : (s \o t)[i] = s[i]
  BY <1>4, <1>5
<1>7. ASSUME NEW i \in 1..Len(t) PROVE (s \o t)[Len(s) + i] = t[i]
  <2>1. Len(s) + i \in 1..(Len(s) + Len(t)) /\ ~ (Len(s) + i <= Len(s)) /\ (Len(s) + i) - Len(s) = i
    BY <1>4
  <2> QED BY <1>5, <2>1
<1> QED
  BY <1>4, <1>6, <1>7 DEF IsSequence

(* Nothing joined to a sequence leaves it as it is. *)
LEMMA JoinedWithNothing ==
    ASSUME NEW s, IsSequence(s)
    PROVE  s \o <<>> = s
<1>1. PICK A : s \in Seq(A)
  BY DEF IsSequence
<1> QED BY <1>1

-----------------------------------------------------------------------------
(* Folds. *)

(* A choice of an element of each set, and what iterating over the choices  *)
(* does.                                                                    *)
Picks(pick, S) == \A T \in SUBSET S : T # {} => pick[T] \in T

Iterates(h, S, base, pick, step) ==
    \A T \in SUBSET S :
        h[T] = IF T = {} THEN base ELSE step[<<pick[T], h[T \ {pick[T]}]>>]

(* The function that a fold over a finite set defines by recursion exists. *)
LEMMA IterationExists ==
    ASSUME NEW S, IsFiniteSet(S), NEW V, NEW base, base \in V,
           NEW pick, Picks(pick, S), NEW step, step \in [S \X V -> V]
    PROVE  \E h \in [SUBSET S -> V] : Iterates(h, S, base, pick, step)
<1> USE DEF Picks, Iterates
<1> DEFINE Next(h) == [T \in SUBSET S |-> IF T = {} THEN base ELSE step[<<pick[T], h[T \ {pick[T]}]>>]]
<1> DEFINE N == {n \in Nat : \E h \in [SUBSET S -> V] :
                   \A T \in SUBSET S : Cardinality(T) <= n => h[T] = Next(h)[T]}
<1>0. \A T \in SUBSET S : IsFiniteSet(T) /\ Cardinality(T) \in Nat /\ Cardinality(T) <= Cardinality(S)
  BY FS_Subset, FS_CardinalityType
<1>1. \A h \in [SUBSET S -> V] : Next(h) \in [SUBSET S -> V]
  OBVIOUS
<1>2. 0 \in N
  <2> DEFINE h == [T \in SUBSET S |-> base]
  <2>1. h \in [SUBSET S -> V]
    OBVIOUS
  <2>2. \A T \in SUBSET S : Cardinality(T) <= 0 => T = {}
    BY <1>0, FS_EmptySet
  <2> QED BY <2>1, <2>2
<1>3. ASSUME NEW n \in Nat, n \in N PROVE n + 1 \in N
  <2>1. PICK h \in [SUBSET S -> V] : \A T \in SUBSET S : Cardinality(T) <= n => h[T] = Next(h)[T]
    BY <1>3
  <2>2. ASSUME NEW T \in SUBSET S, Cardinality(T) <= n + 1 PROVE Next(h)[T] = Next(Next(h))[T]
    <3>1. CASE T = {}
      BY <3>1
    <3>2. CASE T # {}
      <4> DEFINE U == T \ {pick[T]}
      <4>1. pick[T] \in T /\ U \in SUBSET S
        BY <3>2
      <4>2. Cardinality(U) <= n
        BY <1>0, <2>2, <4>1, FS_RemoveElement
      <4>3. h[U] = Next(h)[U]
        BY <2>1, <4>1, <4>2
      <4> QED BY <3>2, <4>1, <4>3
    <3> QED BY <3>1, <3>2
  <2>3. Next(h) \in [SUBSET S -> V]
    BY <1>1
  <2> HIDE DEF Next
  <2> QED BY <2>2, <2>3
<1>4. Cardinality(S) \in N
  <2>1. Nat \subseteq N
    <3> HIDE DEF N
    <3> QED BY <1>2, <1>3, NumbersByInduction
  <2> QED BY <2>1, <1>0
<1>5. PICK h \in [SUBSET S -> V] : \A T \in SUBSET S : h[T] = Next(h)[T]
  BY <1>0, <1>4
<1> QED
  BY <1>5

(* So does the function of a fold over a sequence, which leaves the greatest *)
(* index for the last.                                                      *)
Folds(h, D, base, step) ==
    \A T \in SUBSET D : h[T] = IF T = {} THEN base ELSE step[<<Max(T), h[T \ {Max(T)}]>>]

LEMMA FoldExists ==
    ASSUME NEW D, D \subseteq Nat, IsFiniteSet(D), NEW V, NEW base, base \in V,
           NEW step, step \in [D \X V -> V]
    PROVE  \E h \in [SUBSET D -> V] : Folds(h, D, base, step)
<1> DEFINE pick == [T \in SUBSET D |-> Max(T)]
<1>1. \A T \in SUBSET D : T # {} => Max(T) \in T
  BY FS_Subset, GreatestNumber
<1>2. Picks(pick, D)
  BY <1>1 DEF Picks
<1>3. \A T \in SUBSET D : pick[T] = Max(T)
  OBVIOUS
<1> HIDE DEF pick
<1>4. PICK h \in [SUBSET D -> V] : Iterates(h, D, base, pick, step)
  BY <1>2, IterationExists
<1>5. Folds(h, D, base, step)
  BY <1>3, <1>4 DEF Iterates, Folds
<1> QED BY <1>5

(* v is a number on all of S; and what adds up v over the subsets of S.     *)
Numbers(v, S) == \A x \in S : v[x] \in Int
AddsUp(h, v, S) == \A T \in SUBSET S : \A x \in T : h[T] = v[x] + h[T \ {x}]

Sums(v, S) ==
    {h \in [SUBSET S -> Int] : h[{}] = 0 /\ h[S] = SumFunctionOnSet(v, S) /\ AddsUp(h, v, S)}

(* The sum of numbers over a set takes them one after another, in any order. *)
LEMMA SumIterates ==
    ASSUME NEW S, IsFiniteSet(S), NEW v, Numbers(v, S)
    PROVE  Sums(v, S) # {}
<1> USE DEF Numbers
<1> DEFINE P(T) == CHOOSE x \in T : TRUE
<1> DEFINE H(h) == [T \in SUBSET S |-> IF T = {} THEN 0 ELSE v[P(T)] + h[T \ {P(T)}]]
<1>1. \E h \in [SUBSET S -> Int] : h = H(h)
  <2> DEFINE step == [p \in S \X Int |-> v[p[1]] + p[2]]
  <2> DEFINE pick == [T \in SUBSET S |-> P(T)]
  <2>1. step \in [S \X Int -> Int]
    OBVIOUS
  <2>2. Picks(pick, S)
    BY DEF Picks
  <2>3. 0 \in Int
    OBVIOUS
  <2>4. PICK h \in [SUBSET S -> Int] : Iterates(h, S, 0, pick, step)
    <3> HIDE DEF step, pick
    <3> QED BY <2>1, <2>2, <2>3, IterationExists
  <2>5. ASSUME NEW T \in SUBSET S, T # {}
        PROVE  step[<<pick[T], h[T \ {pick[T]}]>>] = v[P(T)] + h[T \ {P(T)}]
    <3>1. P(T) \in S /\ T \ {P(T)} \in SUBSET S /\ pick[T] = P(T)
      BY <2>5
    <3>2. <<P(T), h[T \ {P(T)}]>> \in S \X Int
      <4> HIDE DEF P
      <4> QED BY <3>1
    <3> HIDE DEF P, pick
    <3> QED BY <3>1, <3>2
  <2>6. \A T \in SUBSET S : h[T] = IF T = {} THEN 0 ELSE v[P(T)] + h[T \ {P(T)}]
    <3> HIDE DEF step, pick, P
    <3> QED BY <2>4, <2>5 DEF Iterates
  <2>7. h = H(h)
    <3> HIDE DEF P
    <3> QED BY <2>6
  <2> HIDE DEF H
  <2> QED BY <2>7
<1> DEFINE g == CHOOSE h : h = H(h)
<1>2. g = H(g)
  <2> HIDE DEF H
  <2> QED BY <1>1
<1>3. SumFunctionOnSet(v, S) = g[S]
  BY DEF SumFunctionOnSet, FoldFunctionOnSet, MapThenFoldSet
<1> HIDE DEF g
<1>4. \A T \in SUBSET S : g[T] = IF T = {} THEN 0 ELSE v[P(T)] + g[T \ {P(T)}]
  <2> HIDE DEF P
  <2> QED BY <1>2
<1>5. \A T \in SUBSET S : T # {} => P(T) \in T
  OBVIOUS
<1> HIDE DEF P
<1> DEFINE W == {T \in SUBSET S : g[T] \in Int /\ \A x \in T : g[T \ {x}] \in Int /\ g[T] = v[x] + g[T \ {x}]}
<1>6. ASSUME NEW T \in SUBSET S, \A x \in T : T \ {x} \in W
      PROVE  T \in W
  <2>1. CASE T = {}
    <3>1. g[T] = 0
      BY <1>4, <2>1
    <3> HIDE DEF H
    <3> QED BY <2>1, <3>1
  <2>2. CASE T # {}
    <3> DEFINE p == P(T)
    <3>1. p \in T /\ g[T] = v[p] + g[T \ {p}] /\ v[p] \in Int /\ g[T \ {p}] \in Int
      <4>1. p \in T /\ p \in S
        BY <1>5, <2>2
      <4>2. g[T] = v[p] + g[T \ {p}]
        BY <1>4, <2>2
      <4>3. T \ {p} \in W
        BY <1>6, <4>1
      <4> QED BY <4>1, <4>2, <4>3
    <3> HIDE DEF p
    <3>2. ASSUME NEW x \in T PROVE g[T \ {x}] \in Int /\ g[T] = v[x] + g[T \ {x}]
      <4>0. x \in S /\ T \ {x} \in W
        BY <1>6, <3>2
      <4>1. g[T \ {x}] \in Int /\ v[x] \in Int
        BY <4>0
      <4>2. CASE x = p
        BY <3>1, <4>1, <4>2
      <4>3. CASE x # p
        <5>1. /\ x \in T \ {p} /\ p \in T \ {x}
              /\ (T \ {p}) \ {x} = (T \ {x}) \ {p}
          BY <3>1, <3>2, <4>3
        <5>2. g[T \ {p}] = v[x] + g[(T \ {p}) \ {x}] /\ g[(T \ {p}) \ {x}] \in Int
          <6>1. T \ {p} \in W
            BY <1>6, <3>1
          <6> QED BY <6>1, <5>1
        <5>3. g[T \ {x}] = v[p] + g[(T \ {x}) \ {p}]
          BY <4>0, <5>1
        <5> DEFINE a == g[(T \ {x}) \ {p}]
        <5>4. /\ a \in Int /\ v[x] \in Int /\ v[p] \in Int
              /\ g[T \ {p}] = v[x] + a /\ g[T \ {x}] = v[p] + a /\ g[T] = v[p] + g[T \ {p}]
          BY <3>1, <4>1, <5>1, <5>2, <5>3
        <5> HIDE DEF a, W, H
        <5>5. g[T] = v[p] + (v[x] + a) /\ g[T \ {x}] = v[p] + a
          BY <5>4
        <5> QED BY <4>1, <5>4, <5>5
      <4> QED BY <4>2, <4>3
    <3> QED BY <3>1, <3>2
  <2> QED BY <2>1, <2>2
<1>7. \A T \in SUBSET S : T \in W
  <2>1. \A T \in SUBSET S : (\A x \in T : T \ {x} \in W) => T \in W
    BY <1>6
  <2>2. SUBSET S \subseteq W
    <3> HIDE DEF W
    <3> QED BY <2>1, SubsetsByInduction
  <2> HIDE DEF W
  <2> QED BY <2>2
<1>8. g \in [SUBSET S -> Int]
  <2>1. \A T \in SUBSET S : g[T] \in Int
    BY <1>7
  <2>2. g = [T \in SUBSET S |-> g[T]]
    BY <1>2
  <2> QED BY <2>1, <2>2
<1>9. g[{}] = 0
  BY <1>4
<1>10. \A T \in SUBSET S : \A x \in T : g[T] = v[x] + g[T \ {x}]
  BY <1>7
<1>11. g[S] = SumFunctionOnSet(v, S)
  BY <1>3
<1> HIDE DEF W, H
<1>12. g \in Sums(v, S)
  BY <1>8, <1>9, <1>10, <1>11 DEF Sums, AddsUp
<1> QED
  BY <1>12

(* What adds up the same over the subsets of a set is the same.             *)
LEMMA SumsAgree ==
    ASSUME NEW U, IsFiniteSet(U), NEW h, NEW k, NEW v, h[{}] = k[{}],
           AddsUp(h, v, U), AddsUp(k, v, U)
    PROVE  h[U] = k[U]
<1> USE DEF AddsUp
<1> DEFINE W == {T \in SUBSET U : h[T] = k[T]}
<1>1. ASSUME NEW T \in SUBSET U, \A y \in T : T \ {y} \in W PROVE T \in W
  <2>1. CASE T = {}
    BY <2>1
  <2>2. ASSUME NEW y \in T PROVE T \in W
    <3>1. h[T \ {y}] = k[T \ {y}]
      BY <1>1, <2>2
    <3>2. h[T] = v[y] + h[T \ {y}] /\ k[T] = v[y] + k[T \ {y}]
      BY <2>2
    <3> QED BY <3>1, <3>2
  <2> QED BY <2>1, <2>2
<1>2. \A T \in SUBSET U : (\A y \in T : T \ {y} \in W) => T \in W
  BY <1>1
<1>3. SUBSET U \subseteq W
  <2> HIDE DEF W
  <2> QED BY <1>2, SubsetsByInduction
<1> QED
  BY <1>3

(* What a sum is of no, and of one more, number.                            *)
LEMMA SumFacts ==
    ASSUME NEW S, IsFiniteSet(S), NEW v, Numbers(v, S)
    PROVE  /\ SumFunctionOnSet(v, S) \in Int
           /\ S = {} => SumFunctionOnSet(v, S) = 0
           /\ \A x \in S : SumFunctionOnSet(v, S) = v[x] + SumFunctionOnSet(v, S \ {x})
<1>1. PICK h \in Sums(v, S) : TRUE
  BY SumIterates
<1>2. ASSUME NEW x \in S PROVE h[S \ {x}] = SumFunctionOnSet(v, S \ {x})
  <2> DEFINE U == S \ {x}
  <2>1. U \in SUBSET S /\ IsFiniteSet(U) /\ Numbers(v, U)
    BY FS_Subset DEF Numbers
  <2> HIDE DEF U
  <2>2. PICK k \in Sums(v, U) : TRUE
    BY <2>1, SumIterates
  <2>3. AddsUp(h, v, U) /\ AddsUp(k, v, U) /\ h[{}] = k[{}] /\ k[U] = SumFunctionOnSet(v, U)
    BY <1>1, <2>1, <2>2 DEF AddsUp, Sums
  <2>4. h[U] = k[U]
    BY <2>1, <2>3, SumsAgree
  <2> QED BY <2>3, <2>4 DEF U
<1>3. SumFunctionOnSet(v, S) \in Int
  BY <1>1 DEF Sums
<1>4. S = {} => SumFunctionOnSet(v, S) = 0
  BY <1>1 DEF Sums
<1>5. ASSUME NEW x \in S PROVE SumFunctionOnSet(v, S) = v[x] + SumFunctionOnSet(v, S \ {x})
  BY <1>1, <1>2 DEF Sums, AddsUp
<1> QED
  BY <1>3, <1>4, <1>5

(* A sum of what is not negative is not negative.                           *)
LEMMA SumNotNegative ==
    ASSUME NEW S, IsFiniteSet(S), NEW v, Numbers(v, S), \A x \in S : v[x] >= 0
    PROVE  SumFunctionOnSet(v, S) >= 0
<1> DEFINE U == {T \in SUBSET S : SumFunctionOnSet(v, T) >= 0}
<1>1. ASSUME NEW T \in SUBSET S
      PROVE  /\ SumFunctionOnSet(v, T) \in Int
             /\ T = {} => SumFunctionOnSet(v, T) = 0
             /\ \A x \in T : SumFunctionOnSet(v, T) = v[x] + SumFunctionOnSet(v, T \ {x})
  <2>1. IsFiniteSet(T) /\ Numbers(v, T)
    BY FS_Subset DEF Numbers
  <2> QED BY <2>1, SumFacts
<1>2. {} \in U
  BY <1>1
<1>3. ASSUME NEW T \in SUBSET S, NEW x \in S \ T, T \in U PROVE T \cup {x} \in U
  <2>1. T \cup {x} \in SUBSET S /\ (T \cup {x}) \ {x} = T /\ x \in T \cup {x}
    OBVIOUS
  <2>2. SumFunctionOnSet(v, T \cup {x}) = v[x] + SumFunctionOnSet(v, (T \cup {x}) \ {x})
    BY <1>1, <2>1
  <2>3. SumFunctionOnSet(v, T \cup {x}) = v[x] + SumFunctionOnSet(v, T)
    BY <2>1, <2>2
  <2>4. SumFunctionOnSet(v, T) >= 0 /\ SumFunctionOnSet(v, T) \in Int /\ v[x] \in Int /\ v[x] >= 0
    BY <1>1, <1>3 DEF Numbers
  <2>5. SumFunctionOnSet(v, T \cup {x}) >= 0
    BY <2>3, <2>4
  <2> QED BY <2>1, <2>5
<1> HIDE DEF U
<1>4. S \in U
  BY <1>2, <1>3, FiniteByInduction
<1> QED
  BY <1>4 DEF U

(* f takes S one to one to T, and the numbers of v along to those of w.     *)
Carries(f, v, S, w, T) ==
    /\ \A x, y \in S : f[x] = f[y] => x = y
    /\ T = {f[x] : x \in S}
    /\ \A x \in S : v[x] = w[f[x]]

(* A sum over what a set is mapped to, one to one, is the sum over the set. *)
LEMMA SumOfImage ==
    ASSUME NEW S, IsFiniteSet(S), NEW T, NEW v, NEW w, Numbers(w, T),
           NEW f, Carries(f, v, S, w, T)
    PROVE  SumFunctionOnSet(v, S) = SumFunctionOnSet(w, T)
<1> USE DEF Carries
<1> DEFINE Image(A) == {f[x] : x \in A}
<1>1. IsFiniteSet(T)
  BY ImageSize
<1>2. Numbers(v, S)
  BY DEF Numbers
<1>3. PICK h \in Sums(w, T) : TRUE
  BY <1>1, SumIterates
<1>4. PICK g \in Sums(v, S) : TRUE
  BY <1>2, SumIterates
<1> DEFINE k == [A \in SUBSET S |-> h[Image(A)]]
<1>5. ASSUME NEW A \in SUBSET S, NEW x \in A PROVE k[A] = v[x] + k[A \ {x}]
  <2>1. Image(A) \in SUBSET T /\ f[x] \in Image(A) /\ Image(A \ {x}) = Image(A) \ {f[x]}
    OBVIOUS
  <2>2. h[Image(A)] = w[f[x]] + h[Image(A) \ {f[x]}]
    <3> HIDE DEF Image
    <3> QED BY <1>3, <2>1 DEF Sums, AddsUp
  <2>3. A \ {x} \in SUBSET S /\ v[x] = w[f[x]]
    OBVIOUS
  <2>4. k[A] = h[Image(A)] /\ k[A \ {x}] = h[Image(A \ {x})]
    <3> HIDE DEF Image
    <3> QED BY <2>3
  <2> HIDE DEF k, Image
  <2> QED BY <2>1, <2>2, <2>3, <2>4
<1>6. k[{}] = 0 /\ k[S] = SumFunctionOnSet(w, T)
  <2>1. Image({}) = {} /\ Image(S) = T /\ {} \in SUBSET S /\ S \in SUBSET S
    OBVIOUS
  <2>2. k[{}] = h[Image({})] /\ k[S] = h[Image(S)]
    <3> HIDE DEF Image
    <3> QED BY <2>1
  <2> HIDE DEF k, Image
  <2> QED BY <1>3, <2>1, <2>2 DEF Sums
<1> HIDE DEF k
<1>7. AddsUp(k, v, S)
  BY <1>5 DEF AddsUp
<1>8. AddsUp(g, v, S) /\ g[{}] = k[{}] /\ g[S] = SumFunctionOnSet(v, S)
  BY <1>4, <1>6 DEF Sums
<1>9. g[S] = k[S]
  BY <1>7, <1>8, SumsAgree
<1> QED
  BY <1>6, <1>8, <1>9

(* The numbers of two functions, added one by one, sum up to both sums.    *)
LEMMA SumOfSums ==
    ASSUME NEW S, IsFiniteSet(S), NEW v, NEW w, NEW u, Numbers(v, S), Numbers(w, S),
           \A x \in S : u[x] = v[x] + w[x]
    PROVE  SumFunctionOnSet(u, S) = SumFunctionOnSet(v, S) + SumFunctionOnSet(w, S)
<1>1. PICK g \in Sums(v, S) : TRUE
  BY SumIterates
<1>2. PICK h \in Sums(w, S) : TRUE
  BY SumIterates
<1>3. Numbers(u, S)
  BY DEF Numbers
<1>4. PICK l \in Sums(u, S) : TRUE
  BY <1>3, SumIterates
<1> DEFINE k == [A \in SUBSET S |-> g[A] + h[A]]
<1>5. ASSUME NEW A \in SUBSET S, NEW x \in A PROVE k[A] = u[x] + k[A \ {x}]
  <2>1. A \ {x} \in SUBSET S /\ x \in S
    OBVIOUS
  <2>2. /\ g[A] = v[x] + g[A \ {x}] /\ g[A \ {x}] \in Int
        /\ h[A] = w[x] + h[A \ {x}] /\ h[A \ {x}] \in Int
    BY <1>1, <1>2, <2>1 DEF Sums, AddsUp
  <2>3. v[x] \in Int /\ w[x] \in Int /\ u[x] = v[x] + w[x]
    BY <2>1 DEF Numbers
  <2>4. k[A] = g[A] + h[A] /\ k[A \ {x}] = g[A \ {x}] + h[A \ {x}]
    BY <2>1
  <2> HIDE DEF k
  <2> QED BY <2>2, <2>3, <2>4
<1>6. k[{}] = 0 /\ k[S] = SumFunctionOnSet(v, S) + SumFunctionOnSet(w, S)
  <2>1. k[{}] = g[{}] + h[{}] /\ k[S] = g[S] + h[S]
    OBVIOUS
  <2> HIDE DEF k
  <2> QED BY <1>1, <1>2, <2>1 DEF Sums
<1> HIDE DEF k
<1>7. AddsUp(k, u, S)
  BY <1>5 DEF AddsUp
<1>8. AddsUp(l, u, S) /\ l[{}] = k[{}] /\ l[S] = SumFunctionOnSet(u, S)
  BY <1>4, <1>6 DEF Sums
<1>9. l[S] = k[S]
  BY <1>7, <1>8, SumsAgree
<1> QED
  BY <1>6, <1>8, <1>9

(* The numbers of a part, and none outside it.                              *)
OfPart(w, T, v, S) ==
    /\ T \subseteq S /\ \A x \in T : w[x] = v[x]
    /\ \A x \in S : x \notin T => v[x] = 0

LEMMA SumOfPart ==
    ASSUME NEW S, IsFiniteSet(S), NEW T, NEW v, Numbers(v, S), NEW w, OfPart(w, T, v, S)
    PROVE  SumFunctionOnSet(w, T) = SumFunctionOnSet(v, S)
<1> DEFINE W == {A \in SUBSET S : SumFunctionOnSet(w, A \cap T) = SumFunctionOnSet(v, A)}
<1>1. ASSUME NEW A \in SUBSET S, \A x \in A : A \ {x} \in W PROVE A \in W
  <2> DEFINE B == A \cap T
  <2>1. IsFiniteSet(A) /\ Numbers(v, A) /\ IsFiniteSet(B) /\ Numbers(w, B)
    <3>1. IsFiniteSet(A) /\ IsFiniteSet(B)
      BY FS_Subset
    <3> QED BY <3>1 DEF Numbers, OfPart
  <2>2. CASE A = {}
    <3>1. B = {}
      BY <2>2
    <3>2. SumFunctionOnSet(v, A) = 0
      BY <2>1, <2>2, SumFacts
    <3>3. SumFunctionOnSet(w, B) = 0
      <4> HIDE DEF B
      <4> QED BY <2>1, <3>1, SumFacts
    <3> QED BY <3>2, <3>3
  <2>3. ASSUME NEW x \in A PROVE A \in W
    <3> DEFINE R == A \ {x}
    <3>1. SumFunctionOnSet(v, A) = v[x] + SumFunctionOnSet(v, R)
      BY <2>1, <2>3, SumFacts
    <3>2. SumFunctionOnSet(w, R \cap T) = SumFunctionOnSet(v, R)
      BY <1>1
    <3>3. CASE x \in T
      <4>1. x \in B /\ B \ {x} = R \cap T /\ w[x] = v[x]
        BY <3>3 DEF OfPart
      <4> DEFINE Q == B \ {x}
      <4>2. SumFunctionOnSet(w, B) = w[x] + SumFunctionOnSet(w, Q)
        <5> HIDE DEF B
        <5> QED BY <2>1, <4>1, SumFacts
      <4>3. SumFunctionOnSet(w, Q) = SumFunctionOnSet(v, R)
        BY <3>2, <4>1
      <4>4. SumFunctionOnSet(w, B) = SumFunctionOnSet(v, A)
        <5> HIDE DEF B, R, Q
        <5> QED BY <3>1, <4>1, <4>2, <4>3
      <4> QED BY <4>4
    <3>4. CASE x \notin T
      <4>1. B = R \cap T /\ v[x] = 0
        BY <3>4 DEF OfPart
      <4>2. SumFunctionOnSet(w, B) = SumFunctionOnSet(v, R)
        BY <3>2, <4>1
      <4>3. SumFunctionOnSet(v, R) \in Int
        <5>1. IsFiniteSet(R) /\ Numbers(v, R)
          BY <2>1, FS_Subset DEF Numbers
        <5> HIDE DEF R
        <5> QED BY <5>1, SumFacts
      <4>4. SumFunctionOnSet(w, B) = SumFunctionOnSet(v, A)
        <5> HIDE DEF B, R
        <5> QED BY <3>1, <4>1, <4>2, <4>3
      <4> QED BY <4>4
    <3> QED BY <3>3, <3>4
  <2> QED BY <2>2, <2>3
<1>2. S \in W
  <2>1. \A A \in SUBSET S : (\A x \in A : A \ {x} \in W) => A \in W
    BY <1>1
  <2> HIDE DEF W
  <2> QED BY <2>1, SubsetsByInduction
<1>3. S \cap T = T
  BY DEF OfPart
<1> QED BY <1>2, <1>3

(* The sum over two sets that have nothing in common.                       *)
LEMMA SumOfUnion ==
    ASSUME NEW A, IsFiniteSet(A), NEW B, IsFiniteSet(B), A \cap B = {},
           NEW v, Numbers(v, A \cup B)
    PROVE  SumFunctionOnSet(v, A \cup B) = SumFunctionOnSet(v, A) + SumFunctionOnSet(v, B)
<1> DEFINE W == {C \in SUBSET B : SumFunctionOnSet(v, A \cup C) = SumFunctionOnSet(v, A) + SumFunctionOnSet(v, C)}
<1>1. ASSUME NEW C \in SUBSET B
      PROVE  /\ IsFiniteSet(A) /\ IsFiniteSet(C) /\ IsFiniteSet(A \cup C)
             /\ Numbers(v, A) /\ Numbers(v, C) /\ Numbers(v, A \cup C)
  <2>1. IsFiniteSet(C) /\ IsFiniteSet(A \cup C)
    BY FS_Subset, FS_Union
  <2> QED BY <2>1 DEF Numbers
<1>2. ASSUME NEW C \in SUBSET B, \A x \in C : C \ {x} \in W PROVE C \in W
  <2>1. CASE C = {}
    <3>1. A \cup C = A /\ SumFunctionOnSet(v, C) = 0 /\ SumFunctionOnSet(v, A) \in Int
      BY <1>1, <2>1, SumFacts
    <3> QED BY <3>1
  <2>2. ASSUME NEW x \in C PROVE C \in W
    <3> DEFINE R == C \ {x}
    <3> DEFINE U == A \cup C
    <3>1. R \in W /\ R \in SUBSET B
      BY <1>2
    <3>2. x \in U /\ U \ {x} = A \cup R
      BY <2>2
    <3>3. SumFunctionOnSet(v, U) = v[x] + SumFunctionOnSet(v, U \ {x})
      <4> HIDE DEF R
      <4> QED BY <1>1, <3>2, SumFacts
    <3>4. SumFunctionOnSet(v, C) = v[x] + SumFunctionOnSet(v, R)
      BY <1>1, SumFacts
    <3>5. /\ SumFunctionOnSet(v, R) \in Int /\ SumFunctionOnSet(v, A) \in Int
          /\ SumFunctionOnSet(v, C) \in Int /\ v[x] \in Int
      <4>1. v[x] \in Int
        BY DEF Numbers
      <4> HIDE DEF R
      <4> QED BY <1>1, <3>1, <4>1, SumFacts
    <3>6. SumFunctionOnSet(v, A \cup R) = SumFunctionOnSet(v, A) + SumFunctionOnSet(v, R)
      BY <3>1
    <3>7. SumFunctionOnSet(v, U) = SumFunctionOnSet(v, A) + SumFunctionOnSet(v, C)
      <4> HIDE DEF R, W
      <4>1. SumFunctionOnSet(v, U \ {x}) = SumFunctionOnSet(v, A \cup R)
        BY <3>2
      <4> HIDE DEF U
      <4> DEFINE a == SumFunctionOnSet(v, A \cup R)
      <4>2. SumFunctionOnSet(v, U) = v[x] + a /\ a = SumFunctionOnSet(v, A) + SumFunctionOnSet(v, R)
        BY <3>3, <3>6, <4>1
      <4> HIDE DEF a
      <4> QED BY <3>4, <3>5, <4>2
    <3> HIDE DEF R
    <3> QED BY <3>7, Zenon
  <2> QED BY <2>1, <2>2
<1>3. B \in W
  <2>1. \A C \in SUBSET B : (\A x \in C : C \ {x} \in W) => C \in W
    BY <1>2
  <2> HIDE DEF W
  <2> QED BY <2>1, SubsetsByInduction
<1> QED BY <1>3

(* Parts of a set that have nothing in common, and no more.                 *)
PartsOf(part, K, S) ==
    /\ S = UNION {part[k] : k \in K}
    /\ \A j, k \in K : j # k => part[j] \cap part[k] = {}

(* The sum over a set is that of the sums over its parts.                   *)
LEMMA SumOfParts ==
    ASSUME NEW S, IsFiniteSet(S), NEW v, Numbers(v, S), NEW K, IsFiniteSet(K),
           NEW part, PartsOf(part, K, S), NEW w, \A k \in K : w[k] = SumFunctionOnSet(v, part[k])
    PROVE  SumFunctionOnSet(v, S) = SumFunctionOnSet(w, K)
<1> DEFINE Over(T) == UNION {part[k] : k \in T}
<1> DEFINE W == {T \in SUBSET K : SumFunctionOnSet(v, Over(T)) = SumFunctionOnSet(w, T)}
<1>1. ASSUME NEW T \in SUBSET K
      PROVE  IsFiniteSet(T) /\ IsFiniteSet(Over(T)) /\ Numbers(v, Over(T))
  <2>1. Over(T) \subseteq S
    BY DEF PartsOf
  <2> HIDE DEF Over
  <2> QED BY <2>1, FS_Subset DEF Numbers
<1>2. ASSUME NEW k \in K
      PROVE  IsFiniteSet(part[k]) /\ Numbers(v, part[k]) /\ w[k] \in Int
  <2>1. part[k] \subseteq S
    BY DEF PartsOf
  <2>2. IsFiniteSet(part[k]) /\ Numbers(v, part[k])
    BY <2>1, FS_Subset DEF Numbers
  <2> QED BY <2>2, SumFacts
<1>3. ASSUME NEW T \in SUBSET K, \A k \in T : T \ {k} \in W PROVE T \in W
  <2>1. Numbers(w, T)
    BY <1>2 DEF Numbers
  <2>2. CASE T = {}
    <3>1. Over(T) = {}
      BY <2>2
    <3> HIDE DEF Over
    <3>2. SumFunctionOnSet(v, Over(T)) = 0 /\ SumFunctionOnSet(w, T) = 0
      BY <1>1, <2>1, <2>2, <3>1, SumFacts
    <3> QED BY <3>2
  <2>3. ASSUME NEW k \in T PROVE T \in W
    <3> DEFINE R == T \ {k}
    <3>1. /\ R \in SUBSET K /\ k \in K
          /\ SumFunctionOnSet(v, Over(R)) = SumFunctionOnSet(w, R)
      <4>1. R \in W
        BY <1>3
      <4> HIDE DEF Over, R
      <4> QED BY <4>1
    <3>2. Over(T) = Over(R) \cup part[k]
      OBVIOUS
    <3>3. Over(R) \cap part[k] = {}
      BY <3>1 DEF PartsOf
    <3> HIDE DEF Over
    <3>4. SumFunctionOnSet(v, Over(T)) = SumFunctionOnSet(v, Over(R)) + SumFunctionOnSet(v, part[k])
      <4>1. /\ IsFiniteSet(Over(R)) /\ IsFiniteSet(part[k])
            /\ Numbers(v, Over(R) \cup part[k])
        BY <1>1, <1>2, <3>1, <3>2
      <4> HIDE DEF R
      <4> QED BY <3>2, <3>3, <4>1, SumOfUnion
    <3>5. SumFunctionOnSet(w, T) = w[k] + SumFunctionOnSet(w, R)
      BY <1>1, <2>1, SumFacts
    <3>6. SumFunctionOnSet(w, R) \in Int /\ w[k] \in Int
      <4>1. IsFiniteSet(R) /\ Numbers(w, R)
        BY <1>1, <2>1 DEF Numbers
      <4> HIDE DEF R
      <4> QED BY <1>2, <3>1, <4>1, SumFacts
    <3> HIDE DEF R
    <3>7. SumFunctionOnSet(v, Over(T)) = SumFunctionOnSet(w, T)
      BY <3>1, <3>4, <3>5, <3>6
    <3> QED BY <3>7
  <2> QED BY <2>2, <2>3
<1>4. K \in W
  <2>1. \A T \in SUBSET K : (\A x \in T : T \ {x} \in W) => T \in W
    BY <1>3
  <2> HIDE DEF W
  <2> QED BY <2>1, SubsetsByInduction
<1> QED BY <1>4 DEF PartsOf

(* A set is as large as the sum of one for each element.                    *)
LEMMA SizeIsSum ==
    ASSUME NEW S, IsFiniteSet(S), NEW v, \A x \in S : v[x] = 1
    PROVE  Cardinality(S) = SumFunctionOnSet(v, S)
<1> DEFINE W == {T \in SUBSET S : Cardinality(T) = SumFunctionOnSet(v, T)}
<1>1. ASSUME NEW T \in SUBSET S, \A x \in T : T \ {x} \in W PROVE T \in W
  <2>1. IsFiniteSet(T) /\ Numbers(v, T)
    BY FS_Subset DEF Numbers
  <2>2. CASE T = {}
    BY <2>1, <2>2, SumFacts, FS_EmptySet
  <2>3. ASSUME NEW x \in T PROVE T \in W
    <3> DEFINE R == T \ {x}
    <3>1. R \in W
      BY <1>1
    <3>2. SumFunctionOnSet(v, T) = v[x] + SumFunctionOnSet(v, R) /\ v[x] = 1
      BY <2>1, SumFacts
    <3>3. Cardinality(R) = Cardinality(T) - 1 /\ Cardinality(T) \in Nat
      BY <2>1, <2>3, FS_RemoveElement, FS_CardinalityType
    <3> HIDE DEF R
    <3> QED BY <3>1, <3>2, <3>3
  <2> QED BY <2>2, <2>3
<1>2. S \in W
  <2>1. \A T \in SUBSET S : (\A x \in T : T \ {x} \in W) => T \in W
    BY <1>1
  <2> HIDE DEF W
  <2> QED BY <2>1, SubsetsByInduction
<1> QED BY <1>2

(* So a set is as large as its parts together.                              *)
LEMMA SizeOfParts ==
    ASSUME NEW S, IsFiniteSet(S), NEW K, IsFiniteSet(K), NEW part, PartsOf(part, K, S),
           NEW w, \A k \in K : w[k] = Cardinality(part[k])
    PROVE  Cardinality(S) = SumFunctionOnSet(w, K)
<1> DEFINE v == [x \in S |-> 1]
<1>1. \A x \in S : v[x] = 1
  OBVIOUS
<1> HIDE DEF v
<1>2. Numbers(v, S)
  BY <1>1 DEF Numbers
<1>3. ASSUME NEW k \in K PROVE w[k] = SumFunctionOnSet(v, part[k])
  <2>1. part[k] \subseteq S
    BY DEF PartsOf
  <2>2. IsFiniteSet(part[k]) /\ \A x \in part[k] : v[x] = 1
    BY <1>1, <2>1, FS_Subset
  <2> QED BY <2>2, SizeIsSum
<1> QED BY <1>1, <1>2, <1>3, SizeIsSum, SumOfParts

(* A sum of one, two and three numbers.                                     *)
LEMMA SmallSums ==
    ASSUME NEW v
    PROVE  /\ v[1] \in Int => SumFunctionOnSet(v, {1}) = v[1]
           /\ v[1] \in Int /\ v[2] \in Int => SumFunctionOnSet(v, {1, 2}) = v[1] + v[2]
           /\ v[1] \in Int /\ v[2] \in Int /\ v[3] \in Int
                => SumFunctionOnSet(v, {1, 2, 3}) = v[1] + v[2] + v[3]
<1>1. IsFiniteSet({}) /\ IsFiniteSet({1}) /\ IsFiniteSet({1, 2}) /\ IsFiniteSet({1, 2, 3})
  <2>1. IsFiniteSet({}) /\ {1} = {} \cup {1} /\ {1, 2} = {1} \cup {2} /\ {1, 2, 3} = {1, 2} \cup {3}
    BY FS_EmptySet
  <2> QED BY <2>1, FS_AddElement
<1>2. ASSUME v[1] \in Int PROVE SumFunctionOnSet(v, {1}) = v[1]
  <2>1. Numbers(v, {}) /\ Numbers(v, {1}) /\ {1} \ {1} = {} /\ 1 \in {1}
    BY <1>2 DEF Numbers
  <2>2. SumFunctionOnSet(v, {}) = 0
    BY <1>1, <2>1, SumFacts
  <2>3. SumFunctionOnSet(v, {1}) = v[1] + SumFunctionOnSet(v, {1} \ {1})
    BY <1>1, <2>1, SumFacts
  <2> QED BY <1>2, <2>1, <2>2, <2>3
<1>3. ASSUME v[1] \in Int, v[2] \in Int PROVE SumFunctionOnSet(v, {1, 2}) = v[1] + v[2]
  <2>1. Numbers(v, {1, 2}) /\ {1, 2} \ {2} = {1} /\ 2 \in {1, 2}
    BY <1>3 DEF Numbers
  <2>2. SumFunctionOnSet(v, {1, 2}) = v[2] + SumFunctionOnSet(v, {1})
    BY <1>1, <2>1, SumFacts, Zenon
  <2>3. SumFunctionOnSet(v, {1}) = v[1]
    BY <1>2, <1>3
  <2> QED BY <1>3, <2>2, <2>3
<1>4. ASSUME v[1] \in Int, v[2] \in Int, v[3] \in Int
      PROVE  SumFunctionOnSet(v, {1, 2, 3}) = v[1] + v[2] + v[3]
  <2>1. Numbers(v, {1, 2, 3}) /\ {1, 2, 3} \ {3} = {1, 2} /\ 3 \in {1, 2, 3}
    BY <1>4 DEF Numbers
  <2>2. SumFunctionOnSet(v, {1, 2, 3}) = v[3] + SumFunctionOnSet(v, {1, 2})
    BY <1>1, <2>1, SumFacts, Zenon
  <2>3. SumFunctionOnSet(v, {1, 2}) = v[1] + v[2]
    BY <1>3, <1>4
  <2> QED BY <1>4, <2>2, <2>3
<1> QED
  BY <1>2, <1>3, <1>4

(* v holds the differences of the first n numbers of s, which starts at 0.   *)
Differences(v, s, n) ==
    /\ s[0] = 0 /\ \A i \in 0..n : s[i] \in Int
    /\ \A i \in 1..n : v[i] = s[i] - s[i - 1]

(* Differences add up to the last number.                                   *)
LEMMA DifferencesAddUp ==
    ASSUME NEW n \in Nat, NEW v, NEW s, Differences(v, s, n)
    PROVE  SumFunctionOnSet(v, 1..n) = s[n]
<1> DEFINE S == {k \in Nat : k <= n => SumFunctionOnSet(v, 1..k) = s[k]}
<1>1. \A k \in Nat : k <= n => IsFiniteSet(1..k) /\ Numbers(v, 1..k)
  <2> SUFFICES ASSUME NEW k \in Nat, k <= n PROVE IsFiniteSet(1..k) /\ Numbers(v, 1..k)
    OBVIOUS
  <2>1. \A i \in 1..k : i \in 1..n /\ i \in 0..n /\ i - 1 \in 0..n
    OBVIOUS
  <2>2. \A i \in 1..k : v[i] \in Int
    BY <2>1 DEF Differences
  <2> QED BY <2>2, FS_Interval DEF Numbers
<1>2. 0 \in S
  <2>1. 1..0 = {} /\ s[0] = 0 /\ 0 <= n /\ 0 \in Nat
    BY DEF Differences
  <2>2. SumFunctionOnSet(v, 1..0) = 0
    BY <1>1, <2>1, SumFacts
  <2> QED BY <2>1, <2>2
<1>3. ASSUME NEW k \in Nat, k \in S PROVE k + 1 \in S
  <2> SUFFICES ASSUME k + 1 <= n PROVE SumFunctionOnSet(v, 1..(k + 1)) = s[k + 1]
    OBVIOUS
  <2>1. /\ k + 1 \in Nat /\ k + 1 \in 1..(k + 1) /\ (1..(k + 1)) \ {k + 1} = 1..k
        /\ k <= n /\ k + 1 \in 1..n /\ k + 1 \in 0..n /\ k \in 0..n /\ (k + 1) - 1 = k
    OBVIOUS
  <2>2. IsFiniteSet(1..(k + 1)) /\ Numbers(v, 1..(k + 1))
    BY <1>1, <2>1
  <2>3. SumFunctionOnSet(v, 1..(k + 1)) = v[k + 1] + SumFunctionOnSet(v, (1..(k + 1)) \ {k + 1})
    BY <2>1, <2>2, SumFacts
  <2>4. SumFunctionOnSet(v, 1..k) = s[k]
    BY <1>3, <2>1
  <2>5. v[k + 1] = s[k + 1] - s[k] /\ s[k] \in Int /\ s[k + 1] \in Int
    <3>1. v[k + 1] = s[k + 1] - s[(k + 1) - 1]
      BY <2>1 DEF Differences
    <3>2. s[k] \in Int /\ s[k + 1] \in Int
      BY <2>1 DEF Differences
    <3> QED BY <2>1, <3>1, <3>2
  <2>6. SumFunctionOnSet(v, 1..(k + 1)) = v[k + 1] + s[k]
    BY <2>1, <2>3, <2>4
  <2> QED BY <2>5, <2>6
<1>4. Nat \subseteq S
  <2> HIDE DEF S
  <2> QED BY <1>2, <1>3, NumbersByInduction
<1> QED
  BY <1>4

(* A sum of some of the numbers is at most that of larger ones of all.         *)
LEMMA SumOfSomeIsLess ==
    ASSUME NEW S, IsFiniteSet(S), NEW T \in SUBSET S, NEW v, NEW w,
           \A x \in T : v[x] \in Nat /\ v[x] <= w[x], \A x \in S : w[x] \in Nat
    PROVE  SumFunctionOnSet(v, T) <= SumFunctionOnSet(w, S)
<1> DEFINE a == [x \in S |-> IF x \in T THEN v[x] ELSE 0]
<1> DEFINE d == [x \in S |-> w[x] - a[x]]
<1>1. \A x \in S : a[x] \in Int /\ d[x] \in Int /\ d[x] >= 0 /\ w[x] = a[x] + d[x]
  OBVIOUS
<1>2. OfPart(v, T, a, S)
  BY DEF OfPart
<1> HIDE DEF a, d
<1>3. Numbers(a, S) /\ Numbers(d, S)
  BY <1>1 DEF Numbers
<1>4. SumFunctionOnSet(v, T) = SumFunctionOnSet(a, S)
  BY <1>2, <1>3, SumOfPart
<1>5. SumFunctionOnSet(w, S) = SumFunctionOnSet(a, S) + SumFunctionOnSet(d, S)
  BY <1>1, <1>3, SumOfSums
<1>6. SumFunctionOnSet(d, S) >= 0
  BY <1>1, <1>3, SumNotNegative
<1>7. SumFunctionOnSet(a, S) \in Int /\ SumFunctionOnSet(d, S) \in Int
  BY <1>3, SumFacts
<1> QED BY <1>4, <1>5, <1>6, <1>7

(* What c is of a set is the sum of what it is of any two halves, and of its   *)
(* elements.                                                                 *)
AddsOver(c, N) ==
    /\ \A A, B \in SUBSET N : A \cap B = {} => c[A \cup B] = c[A] + c[B]
    /\ \A u : (\A n \in N : u[n] = c[{n}]) => c[N] = SumFunctionOnSet(u, N)

LEMMA WeightsAdd ==
    ASSUME NEW N, IsFiniteSet(N), NEW w, Numbers(w, N), NEW c,
           \A I \in SUBSET N : c[I] = SumFunctionOnSet(w, I)
    PROVE  AddsOver(c, N)
<1>1. ASSUME NEW A \in SUBSET N, NEW B \in SUBSET N, A \cap B = {}
      PROVE  c[A \cup B] = c[A] + c[B]
  <2>1. IsFiniteSet(A) /\ IsFiniteSet(B) /\ Numbers(w, A \cup B) /\ A \cup B \in SUBSET N
    BY FS_Subset DEF Numbers
  <2> QED BY <1>1, <2>1, SumOfUnion
<1>2. ASSUME NEW u, \A n \in N : u[n] = c[{n}] PROVE c[N] = SumFunctionOnSet(u, N)
  <2>1. ASSUME NEW n \in N PROVE u[n] = w[n]
    <3>1. IsFiniteSet({n}) /\ Numbers(w, {n}) /\ IsFiniteSet({}) /\ Numbers(w, {})
      BY FS_Singleton, FS_EmptySet DEF Numbers
    <3> DEFINE one == {n}
    <3> DEFINE rest == one \ {n}
    <3>2. n \in one /\ rest = {}
      OBVIOUS
    <3> HIDE DEF one
    <3>3. SumFunctionOnSet(w, one) = w[n] + SumFunctionOnSet(w, rest)
      <4>1. IsFiniteSet(one) /\ Numbers(w, one)
        BY <3>1 DEF one
      <4> QED BY <3>2, <4>1, SumFacts
    <3> HIDE DEF rest
    <3>6. SumFunctionOnSet(w, rest) = 0 /\ w[n] \in Int
      BY <3>1, <3>2, SumFacts DEF Numbers
    <3>4. {n} \in SUBSET N /\ u[n] = c[{n}]
      BY <1>2
    <3>5. SumFunctionOnSet(w, {n}) = w[n]
      BY <3>3, <3>6 DEF one
    <3> QED BY <3>4, <3>5
  <2>2. OfPart(u, N, w, N)
    BY <2>1 DEF OfPart
  <2> QED BY <2>2, SumOfPart
<1> QED BY <1>1, <1>2 DEF AddsOver

(* Of T, what is at one of I. *)
Among(T, at, I) == {x \in T : at[x] \in I}

LEMMA CountsAdd ==
    ASSUME NEW N, IsFiniteSet(N), NEW T, IsFiniteSet(T), NEW at, \A x \in T : at[x] \in N, NEW c,
           \A I \in SUBSET N : c[I] = Cardinality(Among(T, at, I))
    PROVE  AddsOver(c, N)
<1> DEFINE part == [n \in N |-> {x \in T : at[x] = n}]
<1> DEFINE w == [n \in N |-> Cardinality(part[n])]
<1>1. Numbers(w, N)
  <2>1. ASSUME NEW n \in N PROVE w[n] \in Int
    <3>1. IsFiniteSet(part[n])
      BY FS_Subset
    <3>2. Cardinality(part[n]) \in Nat
      BY <3>1, FS_CardinalityType
    <3> QED BY <3>2
  <2> HIDE DEF w
  <2> QED BY <2>1 DEF Numbers
<1>2. ASSUME NEW I \in SUBSET N PROVE c[I] = SumFunctionOnSet(w, I)
  <2> DEFINE S == {x \in T : at[x] \in I}
  <2>1. IsFiniteSet(S) /\ IsFiniteSet(I)
    BY FS_Subset
  <2>2. PartsOf(part, I, S)
    <3>1. S = UNION {part[n] : n \in I}
      <4>1. \A x \in S : at[x] \in I /\ x \in part[at[x]]
        OBVIOUS
      <4>2. \A n \in I : part[n] \subseteq S
        OBVIOUS
      <4> HIDE DEF part, S
      <4> QED BY <4>1, <4>2
    <3>2. \A j, k \in I : j # k => part[j] \cap part[k] = {}
      OBVIOUS
    <3> QED BY <3>1, <3>2 DEF PartsOf
  <2>3. \A n \in I : w[n] = Cardinality(part[n])
    OBVIOUS
  <2>4. c[I] = Cardinality(S)
    BY DEF Among
  <2> HIDE DEF S, w, part
  <2> QED BY <2>1, <2>2, <2>3, <2>4, SizeOfParts
<1> HIDE DEF w
<1> QED BY <1>1, <1>2, WeightsAdd

-----------------------------------------------------------------------------
(* Orders. *)

(* A total order on the first n numbers, and how many come up to each.      *)
Orders(R, n) ==
    /\ \A i \in 1..n : <<i, i>> \in R
    /\ \A i, j \in 1..n : <<i, j>> \in R \/ <<j, i>> \in R
    /\ \A i, j \in 1..n : <<i, j>> \in R /\ <<j, i>> \in R => i = j
    /\ \A i, j, k \in 1..n : <<i, j>> \in R /\ <<j, k>> \in R => <<i, k>> \in R

UpTo(R, n, i) == {j \in 1..n : <<j, i>> \in R}

(* What each place has, no two the same, and all of them.                   *)
Permutes(p, n) ==
    /\ \A k \in 1..n : p[k] \in 1..n
    /\ \A j, k \in 1..n : p[j] = p[k] => j = k
    /\ 1..n = {p[k] : k \in 1..n}

(* A numbering of n things that reaches every number has what each place of an
   order has: the places are a permutation.                                  *)
RankFills(rank, n) ==
    /\ \A k \in 1..n : \E i \in 1..n : rank[i] = k
    /\ \A p : (\A k \in 1..n : p[k] \in 1..n /\ rank[p[k]] = k) => Permutes(p, n)

(* Every place of an order has a number, and none has two.                  *)
LEMMA PlacesInOrder ==
    ASSUME NEW n \in Nat, NEW R, Orders(R, n),
           NEW rank, \A i \in 1..n : rank[i] = Cardinality(UpTo(R, n, i))
    PROVE  RankFills(rank, n)
<1> DEFINE D == 1..n
<1> DEFINE Up(i) == {j \in D : <<j, i>> \in R}
<1>1. IsFiniteSet(D) /\ Cardinality(D) = n
  BY FS_Interval
<1>2. ASSUME NEW i \in D
      PROVE  IsFiniteSet(Up(i)) /\ rank[i] = Cardinality(Up(i)) /\ rank[i] \in D
  <2>1. Up(i) \subseteq D /\ i \in Up(i)
    BY DEF Orders
  <2>2. rank[i] = Cardinality(Up(i))
    BY DEF UpTo
  <2> HIDE DEF Up, D
  <2>3. IsFiniteSet(Up(i)) /\ Cardinality(Up(i)) \in Nat /\ Cardinality(Up(i)) <= n
    BY <1>1, <2>1, FS_Subset, FS_CardinalityType
  <2>4. Cardinality(Up(i)) # 0
    BY <2>1, <2>3, FS_EmptySet
  <2> QED BY <2>2, <2>3, <2>4 DEF D
<1>3. ASSUME NEW i \in D, NEW j \in D, <<i, j>> \in R, i # j PROVE rank[i] # rank[j]
  <2>1. Up(i) \subseteq Up(j) /\ j \in Up(j) /\ j \notin Up(i)
    BY <1>3 DEF Orders
  <2> HIDE DEF Up, D
  <2>2. Cardinality(Up(i)) # Cardinality(Up(j))
    BY <1>2, <2>1, FS_Subset
  <2> QED BY <1>2, <2>2
<1>4. \A i, j \in D : rank[i] = rank[j] => i = j
  BY <1>3 DEF Orders
<1> DEFINE Ranks == {rank[i] : i \in D}
<1>5. Ranks = D
  <2>1. Ranks \subseteq D
    BY <1>2
  <2> HIDE DEF D
  <2>2. Cardinality(Ranks) = Cardinality(D)
    <3>1. Ranks = {rank[i] : i \in D}
      OBVIOUS
    <3> HIDE DEF Ranks
    <3> QED BY <1>1, <1>4, <3>1, ImageSize
  <2> HIDE DEF Ranks
  <2> QED BY <1>1, <2>1, <2>2, FS_Subset
<1>6. \A k \in D : \E i \in D : rank[i] = k
  BY <1>5
<1> HIDE DEF D, Up, Ranks
<1>7. ASSUME NEW p, \A k \in D : p[k] \in D /\ rank[p[k]] = k
      PROVE  Permutes(p, n)
  <2>1. \A i \in D : p[rank[i]] = i
    BY <1>2, <1>4, <1>7
  <2>2. D = {p[k] : k \in D}
    BY <1>2, <1>7, <2>1
  <2>3. \A j, k \in D : p[j] = p[k] => j = k
    BY <1>7
  <2> QED BY <1>7, <2>2, <2>3 DEF D, Permutes
<1> QED BY <1>6, <1>7 DEF D, RankFills

(* A strict total order on S.                                                *)
StrictOrder(R, S) ==
    /\ \A x \in S : <<x, x>> \notin R
    /\ \A x, y \in S : x = y \/ <<x, y>> \in R \/ <<y, x>> \in R
    /\ \A x, y, z \in S : <<x, y>> \in R /\ <<y, z>> \in R => <<x, z>> \in R

Under(R, S, x) == {y \in S : <<y, x>> \in R}

(* How many elements are under each numbers them in order.                    *)
LEMMA NumbersInOrder ==
    ASSUME NEW S, IsFiniteSet(S), NEW R, StrictOrder(R, S),
           NEW rank, \A x \in S : rank[x] = Cardinality(Under(R, S, x))
    PROVE  /\ \A x \in S : rank[x] \in 0..(Cardinality(S) - 1)
           /\ \A x, y \in S : <<x, y>> \in R => rank[x] < rank[y]
           /\ \A k \in 1..Cardinality(S) : \E x \in S : rank[x] = k - 1
<1> DEFINE n == Cardinality(S)
<1> DEFINE U(x) == Under(R, S, x)
<1>1. n \in Nat
  BY FS_CardinalityType
<1>2. ASSUME NEW x \in S
      PROVE  IsFiniteSet(U(x)) /\ rank[x] = Cardinality(U(x)) /\ rank[x] \in 0..(n - 1)
  <2>1. U(x) \in SUBSET (S \ {x})
    BY DEF Under, StrictOrder
  <2>2. IsFiniteSet(S \ {x}) /\ Cardinality(S \ {x}) = n - 1
    BY FS_RemoveElement
  <2>3. rank[x] = Cardinality(U(x))
    OBVIOUS
  <2> HIDE DEF U, n
  <2>4. IsFiniteSet(U(x)) /\ Cardinality(U(x)) <= n - 1
    BY <2>1, <2>2, FS_Subset
  <2>5. Cardinality(U(x)) \in Nat
    BY <2>4, FS_CardinalityType
  <2> QED BY <1>1, <2>3, <2>4, <2>5
<1>3. ASSUME NEW x \in S, NEW y \in S, <<x, y>> \in R PROVE rank[x] < rank[y]
  <2>1. U(x) \in SUBSET U(y) /\ x \in U(y) /\ x \notin U(x)
    BY <1>3 DEF Under, StrictOrder
  <2> HIDE DEF U, n
  <2>2. Cardinality(U(x)) <= Cardinality(U(y)) /\ Cardinality(U(x)) # Cardinality(U(y))
    BY <1>2, <2>1, FS_Subset
  <2> QED BY <1>1, <1>2, <2>2
<1>4. \A x, y \in S : rank[x] = rank[y] => x = y
  <2>1. ASSUME NEW x \in S, NEW y \in S, rank[x] = rank[y], x # y PROVE FALSE
    <3>1. <<x, y>> \in R \/ <<y, x>> \in R
      BY <2>1 DEF StrictOrder
    <3>2. rank[x] < rank[y] \/ rank[y] < rank[x]
      BY <1>3, <3>1
    <3>3. rank[x] \in Int /\ rank[y] \in Int
      BY <1>1, <1>2
    <3> QED BY <2>1, <3>2, <3>3
  <2> QED BY <2>1
<1> DEFINE Ranks == {rank[x] : x \in S}
<1>5. Ranks = 0..(n - 1)
  <2>1. Ranks \in SUBSET (0..(n - 1))
    BY <1>2
  <2>2. Cardinality(Ranks) = n
    <3>1. Ranks = {rank[x] : x \in S}
      OBVIOUS
    <3> HIDE DEF Ranks
    <3> QED BY <1>4, <3>1, ImageSize
  <2>3. IsFiniteSet(0..(n - 1)) /\ Cardinality(0..(n - 1)) = n
    BY <1>1, FS_Interval
  <2> HIDE DEF Ranks, n
  <2> QED BY <2>1, <2>2, <2>3, FS_Subset
<1>6. ASSUME NEW k \in 1..n PROVE \E x \in S : rank[x] = k - 1
  <2>1. k - 1 \in Ranks
    <3> HIDE DEF Ranks
    <3> QED BY <1>1, <1>5
  <2> QED BY <2>1
<1> QED BY <1>2, <1>3, <1>6
===============================================================================
