-------------------------- MODULE InspectionProofs --------------------------
(***************************************************************************)
(* Proofs about SessionInspection, for any turns and exchanges, any number *)
(* of captures and any window, and about SessionAnalysis, for any sessions *)
(* and components and any limits.                                          *)
(***************************************************************************)
EXTENDS SessionInspection, SessionAnalysis, InductionLemmas, TLAPS

-----------------------------------------------------------------------------
(* Scores, and the order they are in. *)

Scores == [delta : Nat, usage : Nat, model : BOOLEAN]

(* The counters that a pair is compared by are finitely many.               *)
LEMMA FieldsFinite == IsFiniteSet(UsageFields)
<1> DEFINE five == {"freshInput"} \cup {"cachedInput"} \cup {"cacheCreation"} \cup {"totalInput"}
                   \cup {"output"}
<1>1. IsFiniteSet({"freshInput"} \cup {"cachedInput"} \cup {"cacheCreation"})
  BY FS_Singleton, FS_AddElement
<1>2. IsFiniteSet(five)
  BY <1>1, FS_AddElement
<1>3. IsFiniteSet(five \cup {"reasoning"} \cup {"total"})
  BY <1>2, FS_AddElement
<1>4. UsageFields = five \cup {"reasoning"} \cup {"total"}
  BY DEF UsageFields
<1> QED
  BY <1>3, <1>4

(* The score of two observations whose times are known is a score.          *)
LEMMA ScoreType ==
    ASSUME NEW o, NEW c, o.started \in Nat, c.started \in Nat
    PROVE  Score(o, c) \in Scores
<1>1. Distance(o, c) \in Nat
  BY DEF Distance
<1>2. UsageSimilarity(o, c) \in Nat
  <2> DEFINE same == {f \in UsageFields : /\ Available(o.usage[f]) /\ Available(c.usage[f])
                                          /\ o.usage[f].value = c.usage[f].value}
  <2>1. same \in SUBSET UsageFields
    OBVIOUS
  <2> HIDE DEF same
  <2>2. Cardinality(same) \in Nat
    BY <2>1, FieldsFinite, FS_Subset, FS_CardinalityType
  <2> QED BY <2>2 DEF UsageSimilarity, same
<1>3. SameModel(o, c) \in BOOLEAN
  BY DEF SameModel
<1> QED
  BY <1>1, <1>2, <1>3 DEF Score, Scores

(* Better is a strict order in which what is neither better nor worse is    *)
(* equal.                                                                   *)
LEMMA BetterIsStrict ==
    \A a, b, c \in Scores :
        /\ ~ Better(a, a)
        /\ Better(a, b) => ~ Better(b, a)
        /\ Better(a, b) /\ Better(b, c) => Better(a, c)
        /\ ~ Better(a, b) /\ ~ Better(b, c) => ~ Better(a, c)
BY DEF Better, Scores

(* Two scores of which neither is better are the same score.                *)
LEMMA EqualScores ==
    \A a, b \in Scores : ~ Better(a, b) /\ ~ Better(b, a) => a = b
BY DEF Better, Scores

(* choosePreference keeps, whatever order its map comes in, all those that   *)
(* no other is better than.                                                 *)
Best(o, others) == {c \in others : \A d \in others : ~ Better(Score(o, d), Score(o, c))}

(* What choosePreference keeps of an order is the best of what is in it.    *)
LEMMA TopIsBest ==
    ASSUME NEW o, NEW E, \A c \in E : Score(o, c) \in Scores, NEW order \in Seq(E)
    PROVE  TopOf(o, order) = Best(o, ToSet(order)) /\ (order # <<>> => TopOf(o, order) # {})
<1> DEFINE D == DOMAIN order
<1> DEFINE B(i, j) == Better(Score(o, order[i]), Score(o, order[j]))
<1> DEFINE Kept(T) == {order[i] : i \in {i \in T : \A j \in T : ~ B(j, i)}}
<1> DEFINE Op(top, c) ==
             IF top = {} \/ Better(Score(o, c), Score(o, CHOOSE t \in top : TRUE)) THEN {c}
             ELSE IF Better(Score(o, CHOOSE t \in top : TRUE), Score(o, c)) THEN top
             ELSE top \cup {c}
<1> DEFINE H(h) == [T \in SUBSET D |-> IF T = {} THEN {} ELSE Op(h[T \ {Max(T)}], order[Max(T)])]
<1>1. D \subseteq Nat /\ IsFiniteSet(D) /\ \A i \in D : order[i] \in E
  <2>1. D = 1 .. Len(order) /\ Len(order) \in Nat
    OBVIOUS
  <2> QED BY <2>1, FS_Interval
<1>2. \A T \in SUBSET D : T # {} => Max(T) \in T
  BY <1>1, FS_Subset, GreatestNumber
<1>3. \E h : h = H(h)
  <2> DEFINE V == SUBSET E
  <2> DEFINE step == [p \in D \X V |-> Op(p[2], order[p[1]])]
  <2> DEFINE pick == [T \in SUBSET D |-> Max(T)]
  <2>1. step \in [D \X V -> V]
    <3>1. ASSUME NEW i \in D, NEW top \in V PROVE Op(top, order[i]) \in V
      BY <1>1
    <3> HIDE DEF Op, V
    <3> QED BY <3>1
  <2>2. Picks(pick, D)
    BY <1>2 DEF Picks
  <2>3. {} \in V
    OBVIOUS
  <2>4. PICK h \in [SUBSET D -> V] : Iterates(h, D, {}, pick, step)
    <3>1. IsFiniteSet(D)
      BY <1>1
    <3> HIDE DEF step, pick, V, D
    <3> QED BY <3>1, <2>1, <2>2, <2>3, IterationExists
  <2>5. ASSUME NEW T \in SUBSET D, T # {}
        PROVE  step[<<pick[T], h[T \ {pick[T]}]>>] = Op(h[T \ {Max(T)}], order[Max(T)])
    <3>1. Max(T) \in D /\ h[T \ {Max(T)}] \in V
      BY <1>2, <2>5
    <3> HIDE DEF Op, V
    <3> QED BY <3>1
  <2>6. \A T \in SUBSET D : h[T] = IF T = {} THEN {} ELSE Op(h[T \ {Max(T)}], order[Max(T)])
    <3> HIDE DEF step, pick, Op, V, D
    <3> QED BY <2>4, <2>5 DEF Iterates
  <2>7. h = H(h)
    <3> HIDE DEF step, pick, Op, V, D
    <3> QED BY <2>6
  <2> HIDE DEF H
  <2> QED BY <2>7
<1> DEFINE g == CHOOSE h : h = H(h)
<1>4. g = H(g)
  <2> HIDE DEF H
  <2> QED BY <1>3
<1>5. TopOf(o, order) = g[D]
  BY DEF TopOf, FoldLeft, MapThenFoldSet
<1> HIDE DEF g
<1>6. /\ \A i \in D : ~ B(i, i)
      /\ \A i, j \in D : B(i, j) => ~ B(j, i)
      /\ \A i, j, k \in D : B(i, j) /\ B(j, k) => B(i, k)
      /\ \A i, j, k \in D : ~ B(i, j) /\ ~ B(j, k) => ~ B(i, k)
  <2>1. \A i \in D : Score(o, order[i]) \in Scores
    BY <1>1
  <2> QED BY <2>1, BetterIsStrict
<1> DEFINE W == {T \in SUBSET D : g[T] = Kept(T) /\ (T # {} => Kept(T) # {})}
<1>7. ASSUME NEW T \in SUBSET D, \A x \in T : T \ {x} \in W
      PROVE  T \in W
  <2>1. CASE T = {}
    BY <1>4, <2>1
  <2>2. CASE T # {}
    <3> DEFINE x == Max(T)
    <3> DEFINE U == T \ {x}
    <3>1. x \in T /\ U \in SUBSET D /\ x \in D
      BY <1>2, <2>2
    <3>2. g[U] = Kept(U) /\ (U # {} => Kept(U) # {})
      BY <1>7, <3>1
    <3>3. g[T] = Op(Kept(U), order[x])
      <4> HIDE DEF Op, Kept
      <4> QED BY <1>4, <2>2, <3>2
    <3> HIDE DEF x
    <3>4. CASE U = {}
      <4>1. T = {x}
        BY <3>1, <3>4
      <4>2. Kept(U) = {} /\ Kept(T) = {order[x]}
        BY <3>4, <4>1, <1>6, <3>1
      <4> QED BY <3>3, <4>2
    <3>5. CASE U # {}
      <4>1. PICK m \in U : /\ order[m] = CHOOSE t \in Kept(U) : TRUE
                           /\ \A j \in U : ~ B(j, m)
        BY <3>2, <3>5
      <4>2. m \in D /\ Kept(U) # {} /\ m \in T
        BY <3>1, <3>2, <3>5, <4>1
      <4>3. g[T] = IF B(x, m) THEN {order[x]} ELSE IF B(m, x) THEN Kept(U) ELSE Kept(U) \cup {order[x]}
        <5>1. g[T] = IF Kept(U) = {} \/ Better(Score(o, order[x]), Score(o, CHOOSE t \in Kept(U) : TRUE))
                     THEN {order[x]}
                     ELSE IF Better(Score(o, CHOOSE t \in Kept(U) : TRUE), Score(o, order[x])) THEN Kept(U)
                     ELSE Kept(U) \cup {order[x]}
          <6> HIDE DEF Kept
          <6> QED BY <3>3
        <5> HIDE DEF Kept
        <5> QED BY <5>1, <4>1, <4>2
      <4> HIDE DEF B
      <4>4. CASE B(x, m)
        <5>1. \A k \in U : B(x, k)
          BY <1>6, <3>1, <4>1, <4>2, <4>4
        <5>2. \A k \in T : k = x \/ k \in U
          OBVIOUS
        <5>3. {i \in T : \A j \in T : ~ B(j, i)} = {x}
          BY <1>6, <3>1, <5>1, <5>2
        <5>4. Kept(T) = {order[x]}
          BY <5>3
        <5> QED BY <4>3, <4>4, <5>4
      <4>5. CASE ~ B(x, m) /\ B(m, x)
        <5>1. {i \in T : \A j \in T : ~ B(j, i)} = {i \in U : \A j \in U : ~ B(j, i)}
          BY <1>6, <3>1, <4>1, <4>2, <4>5
        <5> QED BY <4>2, <4>3, <4>5, <5>1
      <4>6. CASE ~ B(x, m) /\ ~ B(m, x)
        <5>1. {i \in T : \A j \in T : ~ B(j, i)} = {i \in U : \A j \in U : ~ B(j, i)} \cup {x}
          BY <1>6, <3>1, <4>1, <4>2, <4>6
        <5>2. Kept(T) = Kept(U) \cup {order[x]}
          BY <5>1
        <5> QED BY <4>2, <4>3, <4>6, <5>2
      <4> QED BY <4>4, <4>5, <4>6
    <3> QED BY <3>4, <3>5
  <2> QED BY <2>1, <2>2
<1>8. D \in W
  <2>1. IsFiniteSet(D)
    BY <1>1
  <2>2. \A T \in SUBSET D : (\A x \in T : T \ {x} \in W) => T \in W
    BY <1>7
  <2> HIDE DEF W, D
  <2> QED BY <2>1, <2>2, SubsetsByInduction
<1>9. Kept(D) = Best(o, ToSet(order))
  BY DEF Best, ToSet
<1>10. order # <<>> => D # {}
  <2>1. D = 1 .. Len(order) /\ Len(order) \in Nat
    OBVIOUS
  <2>2. order # <<>> => Len(order) \in Nat \ {0}
    BY EmptySeq
  <2>3. Len(order) \in Nat \ {0} => 1 \in 1 .. Len(order)
    OBVIOUS
  <2> HIDE DEF D
  <2> QED BY <2>1, <2>2, <2>3
<1> HIDE DEF D, Kept
<1> QED
  BY <1>5, <1>8, <1>9, <1>10

-----------------------------------------------------------------------------
(* What one observation makes of the other side's. *)

(* An order of a finite set is a sequence of its elements, and SetToSeq is   *)
(* one.                                                                     *)
LEMMA OrdersOfASet ==
    ASSUME NEW S, IsFiniteSet(S)
    PROVE  /\ SetToSeq(S) \in SetToSeqs(S)
           /\ \A order \in SetToSeqs(S) :
                 order \in Seq(S) /\ ToSet(order) = S /\ (order = <<>> <=> S = {})
<1> DEFINE D == 1 .. Cardinality(S)
<1>1. Cardinality(S) \in Nat /\ ExistsBijection(D, S)
  BY FS_CardinalityType
<1>2. SetToSeq(S) \in SetToSeqs(S)
  <2>1. PICK f \in [D -> S] : IsInjective(f)
    BY <1>1 DEF ExistsBijection, Bijection, Injection
  <2>2. SetToSeq(S) \in [D -> S] /\ IsInjective(SetToSeq(S))
    BY <2>1 DEF SetToSeq
  <2> HIDE DEF D
  <2>3. \A i, j \in D : i # j => SetToSeq(S)[i] # SetToSeq(S)[j]
    BY <2>2 DEF IsInjective
  <2> USE DEF D
  <2> QED BY <2>2, <2>3 DEF SetToSeqs
<1>3. ASSUME NEW order \in SetToSeqs(S)
      PROVE  order \in Seq(S) /\ ToSet(order) = S /\ (order = <<>> <=> S = {})
  <2>1. order \in [D -> S] /\ \A i, j \in D : i # j => order[i] # order[j]
    BY DEF SetToSeqs
  <2>2. order \in Seq(S)
    BY <1>1, <2>1
  <2>3. order \in Injection(D, S)
    <3> HIDE DEF D
    <3> QED BY <2>1 DEF Injection, IsInjective
  <2>4. Cardinality(D) = Cardinality(S)
    BY <1>1, FS_Interval
  <2>5. order \in Surjection(D, S)
    <3> HIDE DEF D
    <3> QED BY <2>3, <2>4, FS_Injection
  <2>6. ToSet(order) = S
    <3> HIDE DEF D
    <3> QED BY <2>1, <2>5 DEF ToSet, Surjection
  <2>7. order = <<>> <=> S = {}
    <3>1. ASSUME order = <<>> PROVE S = {}
      BY <2>6, <3>1 DEF ToSet
    <3>2. ASSUME S = {} PROVE order = <<>>
      <4>1. Len(order) = 0
        BY <2>1, <3>2, FS_EmptySet
      <4> QED BY <2>2, <4>1, EmptySeq
    <3> QED BY <3>1, <3>2
  <2> QED BY <2>2, <2>6, <2>7
<1> QED
  BY <1>2, <1>3

(* What choosePreference returns, however its map is ordered.               *)
Preferred(o, others, window) ==
    LET related == Related(o, others, window)
        shared == {c \in related : Relation(o, c, window) = "identity"}
    IN  IF shared # {} THEN [kind |-> "identity", picks |-> shared]
        ELSE IF related = {} THEN [kind |-> "none", picks |-> {}]
        ELSE [kind |-> "heuristic", picks |-> Best(o, related)]

(* Preference is the set of the best related observations, and so is what   *)
(* choosePreference's loop keeps in every order in which it may meet them.  *)
LEMMA PreferenceIs ==
    ASSUME NEW o, NEW others, IsFiniteSet(others), NEW window,
           o.started \in Nat, \A c \in others : c.started \in Nat
    PROVE  /\ Preference(o, others, window) = Preferred(o, others, window)
           /\ \A order \in SetToSeqs(Related(o, others, window)) :
                 PreferenceInOrder(o, order, window) = Preference(o, others, window)
<1> DEFINE R == Related(o, others, window)
<1>1. R \subseteq others /\ IsFiniteSet(R)
  <2>1. R \in SUBSET others
    BY DEF Related
  <2> QED BY <2>1, FS_Subset
<1>2. \A c \in R : Score(o, c) \in Scores
  BY <1>1, ScoreType
<1>3. ASSUME NEW order \in SetToSeqs(R)
      PROVE  PreferenceInOrder(o, order, window) = Preferred(o, others, window)
  <2> HIDE DEF R
  <2>1. order \in Seq(R) /\ ToSet(order) = R /\ (order = <<>> <=> R = {})
    BY <1>1, OrdersOfASet
  <2>2. TopOf(o, order) = Best(o, R)
    BY <1>2, <2>1, TopIsBest
  <2> QED BY <2>1, <2>2 DEF PreferenceInOrder, Preferred, R
<1>4. SetToSeq(R) \in SetToSeqs(R)
  <2> HIDE DEF R
  <2> QED BY <1>1, OrdersOfASet
<1> QED
  BY <1>3, <1>4 DEF Preference

(* A preference has picks unless it is none, all of its kind, and a single   *)
(* one is better than whatever else is related in the same way.             *)
LEMMA PreferenceFacts ==
    ASSUME NEW o, NEW others, IsFiniteSet(others), NEW window,
           o.started \in Nat, \A c \in others : c.started \in Nat,
           NEW p, p = Preference(o, others, window)
    PROVE  /\ p.kind \in {"identity", "heuristic", "none"}
           /\ p.picks \in SUBSET others
           /\ p.kind = "none" <=> p.picks = {}
           /\ p.kind = "none" => \A c \in others : Relation(o, c, window) = "none"
           /\ \A c \in p.picks : Relation(o, c, window) = p.kind
           /\ \A c : p.picks = {c} =>
                \A d \in others \ {c} : Relation(o, d, window) = Relation(o, c, window)
                                            => Better(Score(o, c), Score(o, d))
<1> DEFINE R == Related(o, others, window)
<1> DEFINE shared == {c \in R : Relation(o, c, window) = "identity"}
<1>1. p = Preferred(o, others, window)
  BY PreferenceIs
<1>2. R = {c \in others : Relation(o, c, window) # "none"}
  BY DEF Related
<1>3. \A c \in others : Relation(o, c, window) \in {"identity", "heuristic", "none"}
  BY DEF Relation
<1>4. \A c \in others : Score(o, c) \in Scores
  BY ScoreType
<1>5. CASE shared # {}
  <2>1. p = [kind |-> "identity", picks |-> shared]
    BY <1>1, <1>5 DEF Preferred
  <2> QED BY <1>2, <2>1, <1>5
<1>6. CASE R = {}
  <2>1. p = [kind |-> "none", picks |-> {}]
    BY <1>1, <1>6 DEF Preferred
  <2> QED BY <1>2, <2>1, <1>6
<1>7. CASE shared = {} /\ R # {}
  <2>1. p = [kind |-> "heuristic", picks |-> Best(o, R)]
    BY <1>1, <1>7 DEF Preferred
  <2>2. \A c \in R : Relation(o, c, window) = "heuristic"
    BY <1>2, <1>3, <1>7
  <2>3. Best(o, R) \in SUBSET R /\ Best(o, R) # {}
    <3>1. SetToSeq(R) \in Seq(R) /\ ToSet(SetToSeq(R)) = R /\ (SetToSeq(R) = <<>> <=> R = {})
      <4>1. R \in SUBSET others
        BY <1>2
      <4>2. IsFiniteSet(R)
        <5> HIDE DEF R
        <5> QED BY <4>1, FS_Subset
      <4> HIDE DEF R
      <4> QED BY <4>2, OrdersOfASet
    <3>2. \A c \in R : Score(o, c) \in Scores
      BY <1>2, <1>4
    <3> HIDE DEF R
    <3>3. TopOf(o, SetToSeq(R)) = Best(o, R) /\ TopOf(o, SetToSeq(R)) # {}
      BY <1>7, <3>1, <3>2, TopIsBest
    <3> QED BY <3>3 DEF Best
  <2>4. ASSUME NEW c, Best(o, R) = {c}, NEW d \in others \ {c},
               Relation(o, d, window) = Relation(o, c, window)
        PROVE  Better(Score(o, c), Score(o, d))
    <3>1. c \in R /\ d \in R /\ d \notin Best(o, R)
      BY <1>2, <2>2, <2>3, <2>4
    <3>2. PICK e \in R : Better(Score(o, e), Score(o, d))
      BY <3>1 DEF Best
    <3>3. ~ Better(Score(o, e), Score(o, c))
      BY <2>4 DEF Best
    <3>4. Score(o, c) \in Scores /\ Score(o, d) \in Scores /\ Score(o, e) \in Scores
      BY <1>2, <1>4, <3>1, <3>2
    <3> QED BY <3>2, <3>3, <3>4, BetterIsStrict
  <2> QED
    <3> HIDE DEF R
    <3> QED BY <1>2, <2>1, <2>2, <2>3, <2>4
<1> QED
  BY <1>5, <1>6, <1>7

-----------------------------------------------------------------------------
(* Matching. *)

(* Observations that can be matched: finitely many, of distinct names.      *)
Sound(obs) ==
    /\ IsFiniteSet(obs)
    /\ \A o \in obs : o.side \in {"gateway", "transcript"} /\ Projected(o, o.side)
    /\ \A a, b \in obs : a.id = b.id => a = b

(* Both sides of sound observations are finite, and together they are all.  *)
LEMMA SidesAreSound ==
    ASSUME NEW obs, Sound(obs)
    PROVE  /\ Requests(obs) \in SUBSET obs /\ IsFiniteSet(Requests(obs))
           /\ Turns(obs) \in SUBSET obs /\ IsFiniteSet(Turns(obs))
           /\ obs = Requests(obs) \cup Turns(obs)
           /\ \A o \in obs : o.started \in Nat /\ o.id # ""
           /\ \A g \in Requests(obs), t \in Turns(obs) : g.id # t.id
<1>1. Requests(obs) \in SUBSET obs /\ Turns(obs) \in SUBSET obs /\ obs = Requests(obs) \cup Turns(obs)
  BY DEF Requests, Turns, Sound
<1>2. IsFiniteSet(Requests(obs)) /\ IsFiniteSet(Turns(obs))
  BY <1>1, FS_Subset DEF Sound
<1>3. \A o \in obs : o.started \in Nat /\ o.id # ""
  BY DEF Sound, Projected
<1>4. \A g \in Requests(obs), t \in Turns(obs) : g.id # t.id
  BY DEF Requests, Turns, Sound
<1> QED
  BY <1>1, <1>2, <1>3, <1>4

(* The result of a request before anything is known, and its fields after.   *)
Unresolved(g) ==
    [gateway |-> g.id, transcript |-> "", status |-> "unmatched", candidates |-> {},
     confidence |-> ""]

Ambiguous(g, C) == [Unresolved(g) EXCEPT !.status = "ambiguous", !.candidates = C]

MatchedTo(g, i, c) ==
    [Unresolved(g) EXCEPT !.status = "matched", !.transcript = i, !.confidence = c]

(* The fields of a result that names no partner.                            *)
LEMMA ResultFields ==
    /\ \A g : /\ Unresolved(g).gateway = g.id /\ Unresolved(g).status = "unmatched"
              /\ Unresolved(g).candidates = {} /\ Unresolved(g).transcript = ""
    /\ \A g, C : /\ Ambiguous(g, C).gateway = g.id /\ Ambiguous(g, C).status = "ambiguous"
                 /\ Ambiguous(g, C).candidates = C /\ Ambiguous(g, C).transcript = ""
BY DEF Unresolved, Ambiguous

(* A request is matched to a turn that each has only the other to pick, and *)
(* otherwise takes none; what it leaves open it lists.                      *)
Settled(r, g, obs, window) ==
    /\ r.gateway = g.id
    /\ r.status \in {"matched", "ambiguous", "unmatched"}
    /\ \A i \in r.candidates : \E t \in Turns(obs) : i = t.id
    /\ r.status # "ambiguous" => r.candidates = {}
    /\ r.status # "matched" => r.transcript = ""
    /\ r.status = "matched" => \E t \in Turns(obs) :
         /\ r.transcript = t.id
         /\ Preference(g, Turns(obs), window).picks = {t}
         /\ Preference(t, Requests(obs), window).picks = {g}

(* The result of one request: which candidates it had, and what became of   *)
(* it.                                                                      *)
LEMMA ResolveFacts ==
    ASSUME NEW obs, Sound(obs), NEW window, NEW g \in Requests(obs)
    PROVE  Settled(Resolve(g, obs, window), g, obs, window)
<1> DEFINE r == Resolve(g, obs, window)
<1> DEFINE mine == Preference(g, Turns(obs), window)
<1> DEFINE t == CHOOSE t \in mine.picks : TRUE
<1> DEFINE theirs == Preference(t, Requests(obs), window)
<1>1. r = Resolution(g, mine, t, theirs)
  BY DEF Resolve
<1>2. /\ mine.picks \in SUBSET Turns(obs)
      /\ mine.kind = "none" <=> mine.picks = {}
  <2>1. g.started \in Nat /\ IsFiniteSet(Turns(obs)) /\ \A c \in Turns(obs) : c.started \in Nat
    BY SidesAreSound
  <2> QED BY <2>1, PreferenceFacts
<1>3. IsFiniteSet(mine.picks)
  <2>1. IsFiniteSet(Turns(obs))
    BY SidesAreSound
  <2> HIDE DEF mine
  <2> QED BY <1>2, <2>1, FS_Subset
<1> HIDE DEF t, theirs, r, mine
<1>4. ASSUME mine.kind = "none"
      PROVE  Settled(r, g, obs, window)
  <2>1. r = Unresolved(g)
    BY <1>1, <1>4 DEF Resolution, Unresolved, Ambiguous, MatchedTo
  <2> QED BY ResultFields, <2>1 DEF Settled
<1>5. ASSUME mine.kind # "none" /\ Cardinality(mine.picks) # 1
      PROVE  Settled(r, g, obs, window)
  <2> DEFINE ids == {p.id : p \in mine.picks}
  <2>1. r = Ambiguous(g, ids)
    BY <1>1, <1>5 DEF Resolution, Unresolved, Ambiguous, MatchedTo
  <2>2. \A i \in ids : \E p \in Turns(obs) : i = p.id
    BY <1>2
  <2> HIDE DEF ids
  <2>3. r.gateway = g.id /\ r.status = "ambiguous" /\ r.candidates = ids /\ r.transcript = ""
    BY ResultFields, <2>1
  <2> QED BY <2>2, <2>3 DEF Settled
<1>6. ASSUME mine.kind # "none" /\ Cardinality(mine.picks) = 1
      PROVE  Settled(r, g, obs, window)
  <2>1. mine.picks = {t}
    <3>1. PICK x : mine.picks = {x}
      BY <1>3, <1>6, FS_Singleton
    <3> QED BY <3>1 DEF t
  <2>2. t \in Turns(obs)
    BY <2>1, <1>2
  <2>3. r = IF theirs.kind # mine.kind THEN Unresolved(g)
            ELSE IF Cardinality(theirs.picks) # 1
            THEN Ambiguous(g, {t.id})
            ELSE IF theirs.picks # {g} THEN Unresolved(g)
            ELSE MatchedTo(g, t.id, IF mine.kind = "identity" THEN "high" ELSE "medium")
    BY <1>1, <1>6 DEF Resolution, Unresolved, Ambiguous, MatchedTo
  <2>4. ASSUME r = Unresolved(g) PROVE Settled(r, g, obs, window)
    BY ResultFields, <2>4 DEF Settled
  <2>5. ASSUME r = Ambiguous(g, {t.id}) PROVE Settled(r, g, obs, window)
    <3> DEFINE ids == {t.id}
    <3>1. \A i \in ids : \E p \in Turns(obs) : i = p.id
      BY <2>2
    <3>2. r = Ambiguous(g, ids)
      BY <2>5
    <3> HIDE DEF ids
    <3>3. r.gateway = g.id /\ r.status = "ambiguous" /\ r.candidates = ids /\ r.transcript = ""
      BY ResultFields, <3>2
    <3> QED BY <3>1, <3>3 DEF Settled
  <2>6. ASSUME theirs.picks = {g},
               r = MatchedTo(g, t.id, IF mine.kind = "identity" THEN "high" ELSE "medium")
        PROVE  Settled(r, g, obs, window)
    <3>1. r.gateway = g.id /\ r.status = "matched" /\ r.candidates = {} /\ r.transcript = t.id
      <4> DEFINE level == IF mine.kind = "identity" THEN "high" ELSE "medium"
      <4>1. r = MatchedTo(g, t.id, level)
        BY <2>6
      <4> HIDE DEF level
      <4>2. /\ MatchedTo(g, t.id, level).gateway = g.id /\ MatchedTo(g, t.id, level).status = "matched"
            /\ MatchedTo(g, t.id, level).candidates = {} /\ MatchedTo(g, t.id, level).transcript = t.id
        BY DEF MatchedTo, Unresolved
      <4> QED BY <4>1, <4>2
    <3>2. Preference(g, Turns(obs), window).picks = {t} /\ Preference(t, Requests(obs), window).picks = {g}
      BY <2>1, <2>6 DEF mine, theirs
    <3> QED BY <2>2, <3>1, <3>2 DEF Settled
  <2> QED BY <2>3, <2>4, <2>5, <2>6
<1> QED
  BY <1>4, <1>5, <1>6 DEF r

(* What is left over: a turn that no request took or considered.             *)
LeftOver(t) ==
    [gateway |-> "", transcript |-> t.id, status |-> "unmatched", candidates |-> {},
     confidence |-> ""]

(* Match has the result of every request, and no other.                     *)
LEMMA MatchFacts ==
    ASSUME NEW obs, Sound(obs), NEW window
    PROVE  LET ms == Match(obs, window) IN
           /\ \A g \in Requests(obs) : Resolve(g, obs, window) \in ms
           /\ \A m \in ms : \/ \E g \in Requests(obs) : m = Resolve(g, obs, window)
                            \/ \E t \in Turns(obs) : m = LeftOver(t)
           /\ \A t \in Turns(obs) :
                \/ LeftOver(t) \in ms /\ \A g \in Requests(obs) :
                        LET r == Resolve(g, obs, window)
                        IN  r.transcript # t.id /\ t.id \notin r.candidates
                \/ LeftOver(t) \notin ms /\ \E g \in Requests(obs) :
                        LET r == Resolve(g, obs, window)
                        IN  r.transcript = t.id \/ t.id \in r.candidates
<1> DEFINE ms == Match(obs, window)
<1> DEFINE resolved == {Resolve(g, obs, window) : g \in Requests(obs)}
<1> DEFINE consumed == UNION {{r.transcript} \cup r.candidates : r \in resolved}
<1>1. ms = resolved \cup {LeftOver(t) : t \in {t \in Turns(obs) : t.id \notin consumed}}
  BY DEF Match, WithOtherTurns, LeftOver
<1>2. \A t \in Turns(obs) : t.id \in consumed <=>
        \E g \in Requests(obs) : \/ Resolve(g, obs, window).transcript = t.id
                                 \/ t.id \in Resolve(g, obs, window).candidates
  OBVIOUS
<1>3. \A t \in Turns(obs) : LeftOver(t) \notin resolved
  <2>1. ASSUME NEW g \in Requests(obs) PROVE Resolve(g, obs, window).gateway = g.id
    <3>1. Settled(Resolve(g, obs, window), g, obs, window)
      BY ResolveFacts
    <3> QED BY <3>1 DEF Settled
  <2>2. \A g \in Requests(obs) : g.id # ""
    BY SidesAreSound
  <2>3. \A t \in Turns(obs) : LeftOver(t).gateway = ""
    BY DEF LeftOver
  <2> QED BY <2>1, <2>2, <2>3
<1>4. \A t, u \in Turns(obs) : LeftOver(t) = LeftOver(u) => t.id = u.id
  BY DEF LeftOver
<1> HIDE DEF consumed
<1> QED
  BY <1>1, <1>2, <1>3, <1>4

(* A match is of a request and a turn, each the only best candidate of the  *)
(* other.                                                                   *)
LEMMA MatchedFacts ==
    ASSUME NEW obs, Sound(obs), NEW window, NEW m \in Match(obs, window), m.status = "matched"
    PROVE  \E g \in Requests(obs), t \in Turns(obs) :
              /\ m = Resolve(g, obs, window) /\ m.candidates = {}
              /\ m.gateway = g.id /\ Named(obs, m.gateway) = g
              /\ m.transcript = t.id /\ Named(obs, m.transcript) = t
              /\ Preference(g, Turns(obs), window).picks = {t}
              /\ Preference(t, Requests(obs), window).picks = {g}
<1>1. \A t \in Turns(obs) : m # LeftOver(t)
  <2>1. \A t \in Turns(obs) : LeftOver(t).status = "unmatched"
    BY DEF LeftOver
  <2> QED BY <2>1
<1>2. PICK g \in Requests(obs) : m = Resolve(g, obs, window)
  BY <1>1, MatchFacts
<1>3. Settled(m, g, obs, window)
  BY <1>2, ResolveFacts
<1>4. PICK t \in Turns(obs) : /\ m.transcript = t.id
                              /\ Preference(g, Turns(obs), window).picks = {t}
                              /\ Preference(t, Requests(obs), window).picks = {g}
  BY <1>3 DEF Settled
<1>5. m.gateway = g.id /\ m.candidates = {}
  BY <1>3 DEF Settled
<1>6. \A o \in obs : Named(obs, o.id) = o
  BY DEF Sound, Named
<1>7. g \in obs /\ t \in obs
  BY DEF Requests, Turns
<1>8. Named(obs, m.gateway) = g /\ Named(obs, m.transcript) = t
  BY <1>4, <1>5, <1>6, <1>7
<1> QED
  BY <1>2, <1>4, <1>5, <1>8

(* Every request has one result.                                            *)
LEMMA OneResult ==
    ASSUME NEW obs, Sound(obs), NEW window, NEW g \in Requests(obs)
    PROVE  {m \in Match(obs, window) : m.gateway = g.id} = {Resolve(g, obs, window)}
<1>1. \A h \in Requests(obs) : Resolve(h, obs, window).gateway = h.id
  <2> TAKE h \in Requests(obs)
  <2>1. Settled(Resolve(h, obs, window), h, obs, window)
    BY ResolveFacts
  <2> QED BY <2>1 DEF Settled
<1>2. \A t \in Turns(obs) : LeftOver(t).gateway = ""
  BY DEF LeftOver
<1>3. g.id # "" /\ \A h \in Requests(obs) : h.id = g.id => h = g
  BY SidesAreSound DEF Sound
<1>4. Resolve(g, obs, window) \in Match(obs, window)
  BY MatchFacts
<1>5. \A m \in Match(obs, window) : \/ \E h \in Requests(obs) : m = Resolve(h, obs, window)
                                    \/ \E t \in Turns(obs) : m = LeftOver(t)
  BY MatchFacts
<1> QED
  BY <1>1, <1>2, <1>3, <1>4, <1>5

(* Two matches that name one turn are one match.                            *)
LEMMA OnePartner ==
    ASSUME NEW obs, Sound(obs), NEW window,
           NEW m \in Match(obs, window), m.status = "matched",
           NEW n \in Match(obs, window), n.status = "matched",
           m.transcript = n.transcript
    PROVE  m = n
<1>1. PICK g \in Requests(obs), t \in Turns(obs) :
              /\ m = Resolve(g, obs, window)
              /\ Named(obs, m.transcript) = t
              /\ Preference(t, Requests(obs), window).picks = {g}
  BY MatchedFacts
<1>2. PICK h \in Requests(obs), u \in Turns(obs) :
              /\ n = Resolve(h, obs, window)
              /\ Named(obs, n.transcript) = u
              /\ Preference(u, Requests(obs), window).picks = {h}
  BY MatchedFacts
<1>3. t = u
  BY <1>1, <1>2
<1>4. {g} = {h}
  BY <1>1, <1>2, <1>3
<1> QED
  BY <1>1, <1>2, <1>4

(* What MatchingIsMutual says of observations and their results.             *)
Mutual(obs, ms, window) ==
    LET taken == {m \in ms : m.status = "matched"}
        better(a, b, c) == /\ Relation(a, c, window) = Relation(a, b, window)
                           /\ ~ Better(Score(a, b), Score(a, c))
    IN  /\ \A o \in obs :
             LET others == {c \in obs : c.side # o.side} IN
             \A order \in SetToSeqs(Related(o, others, window)) :
                PreferenceInOrder(o, order, window) = Preference(o, others, window)
        /\ \A g \in Requests(obs) : Cardinality({m \in ms : m.gateway = g.id}) = 1
        /\ \A t \in Turns(obs) :
             /\ Cardinality({m \in taken : m.transcript = t.id}) <= 1
             /\ \E m \in ms : m.transcript = t.id \/ t.id \in m.candidates
        /\ \A m \in taken :
             LET g == Named(obs, m.gateway)
                 t == Named(obs, m.transcript)
             IN  /\ \A c \in Turns(obs) \ {t} : ~ better(g, t, c)
                 /\ \A c \in Requests(obs) \ {g} : ~ better(t, g, c)

(* What Match returns for sound observations is Mutual.                     *)
LEMMA MatchIsMutual ==
    ASSUME NEW obs, Sound(obs), NEW window
    PROVE  Mutual(obs, Match(obs, window), window)
<1> DEFINE ms == Match(obs, window)
<1> DEFINE taken == {m \in ms : m.status = "matched"}
<1>1. ASSUME NEW o \in obs,
             NEW order \in SetToSeqs(Related(o, {c \in obs : c.side # o.side}, window))
      PROVE  PreferenceInOrder(o, order, window) = Preference(o, {c \in obs : c.side # o.side}, window)
  <2> DEFINE others == {c \in obs : c.side # o.side}
  <2>1. others \in SUBSET obs /\ IsFiniteSet(obs)
    BY DEF Sound
  <2>2. o.started \in Nat /\ \A c \in others : c.started \in Nat
    BY SidesAreSound
  <2> HIDE DEF others
  <2>3. IsFiniteSet(others)
    BY <2>1, FS_Subset
  <2> QED BY <2>2, <2>3, <1>1, PreferenceIs DEF others
<1>2. \A g \in Requests(obs) : Cardinality({m \in ms : m.gateway = g.id}) = 1
  <2> TAKE g \in Requests(obs)
  <2>1. {m \in ms : m.gateway = g.id} = {Resolve(g, obs, window)}
    BY OneResult
  <2>2. Cardinality({Resolve(g, obs, window)}) = 1
    BY FS_Singleton
  <2> QED BY <2>1, <2>2
<1>3. ASSUME NEW t \in Turns(obs)
      PROVE  Cardinality({m \in taken : m.transcript = t.id}) <= 1
  <2> DEFINE S == {m \in taken : m.transcript = t.id}
  <2>1. \A m, n \in S : m = n
    BY OnePartner
  <2>2. S = {} \/ \E m : S = {m}
    BY <2>1
  <2>3. Cardinality(S) = 0 \/ Cardinality(S) = 1
    <3> HIDE DEF S
    <3> QED BY <2>2, FS_EmptySet, FS_Singleton
  <2> QED BY <2>3
<1>4. ASSUME NEW t \in Turns(obs)
      PROVE  \E m \in ms : m.transcript = t.id \/ t.id \in m.candidates
  <2>1. CASE LeftOver(t) \in ms
    <3>1. LeftOver(t).transcript = t.id
      BY DEF LeftOver
    <3> QED BY <2>1, <3>1
  <2>2. CASE LeftOver(t) \notin ms
    BY <2>2, MatchFacts
  <2> QED BY <2>1, <2>2
<1>5. ASSUME NEW m \in taken
      PROVE  LET g == Named(obs, m.gateway)
                 t == Named(obs, m.transcript)
             IN  /\ \A c \in Turns(obs) \ {t} : Relation(g, c, window) = Relation(g, t, window)
                                                    => Better(Score(g, t), Score(g, c))
                 /\ \A c \in Requests(obs) \ {g} : Relation(t, c, window) = Relation(t, g, window)
                                                    => Better(Score(t, g), Score(t, c))
  <2>1. PICK g \in Requests(obs), t \in Turns(obs) :
              /\ Named(obs, m.gateway) = g /\ Named(obs, m.transcript) = t
              /\ Preference(g, Turns(obs), window).picks = {t}
              /\ Preference(t, Requests(obs), window).picks = {g}
    BY MatchedFacts
  <2>2. /\ g.started \in Nat /\ t.started \in Nat
        /\ IsFiniteSet(Turns(obs)) /\ IsFiniteSet(Requests(obs))
        /\ \A c \in Turns(obs) : c.started \in Nat
        /\ \A c \in Requests(obs) : c.started \in Nat
    BY SidesAreSound
  <2>3. \A c \in Turns(obs) \ {t} : Relation(g, c, window) = Relation(g, t, window)
                                        => Better(Score(g, t), Score(g, c))
    BY <2>1, <2>2, PreferenceFacts
  <2>4. \A c \in Requests(obs) \ {g} : Relation(t, c, window) = Relation(t, g, window)
                                        => Better(Score(t, g), Score(t, c))
    BY <2>1, <2>2, PreferenceFacts
  <2> QED BY <2>1, <2>3, <2>4
<1> QED
  BY <1>1, <1>2, <1>3, <1>4, <1>5 DEF Mutual

-----------------------------------------------------------------------------
(* The report. *)

(* A difference is available, and not zero, exactly as its field says.       *)
LEMMA FieldFacts ==
    ASSUME NEW l, NEW r, l.has \in BOOLEAN, r.has \in BOOLEAN, l.value \in Int, r.value \in Int
    PROVE  /\ Available(Subtract(r, l)) <=> CompareField(l, r) # "unavailable"
           /\ Subtract(r, l).value = 0 <=> CompareField(l, r) # "different"
<1>1. CASE Available(l) /\ Available(r)
  <2>1. Subtract(r, l) = Measured(r.value - l.value, WeakerKind(r.kind, l.kind))
    BY <1>1 DEF Subtract
  <2>2. WeakerKind(r.kind, l.kind) \notin {"", "unknown"}
    BY <1>1 DEF WeakerKind, Available
  <2>3. Available(Subtract(r, l)) /\ Subtract(r, l).value = r.value - l.value
    <3> DEFINE k == WeakerKind(r.kind, l.kind)
    <3> DEFINE v == r.value - l.value
    <3> HIDE DEF k, v
    <3>1. Measured(v, k).has /\ Measured(v, k).kind = k /\ Measured(v, k).value = v
      BY DEF Measured
    <3>2. Subtract(r, l) = Measured(v, k) /\ k \notin {"", "unknown"}
      BY <2>1, <2>2 DEF k, v
    <3>3. Available(Measured(v, k))
      BY <3>1, <3>2 DEF Available
    <3> QED BY <3>1, <3>2, <3>3 DEF v
  <2>4. CASE l.value = r.value
    <3>1. CompareField(l, r) = "equal"
      BY <1>1, <2>4 DEF CompareField
    <3> QED BY <2>3, <2>4, <3>1
  <2>5. CASE l.value # r.value
    <3>1. CompareField(l, r) = "different"
      BY <1>1, <2>5 DEF CompareField
    <3> QED BY <2>3, <2>5, <3>1
  <2> QED BY <2>4, <2>5
<1>2. CASE ~ (Available(l) /\ Available(r))
  <2>1. Subtract(r, l) = Unknown /\ CompareField(l, r) = "unavailable"
    BY <1>2 DEF Subtract, CompareField
  <2>2. ~ Available(Unknown) /\ Unknown.value = 0
    BY DEF Unknown, Available
  <2> QED BY <2>1, <2>2
<1> QED
  BY <1>1, <1>2

(* Each request has one result of its own, and there are finitely many.      *)
LEMMA MatchIsFinite ==
    ASSUME NEW obs, Sound(obs), NEW window
    PROVE  LET ms == Match(obs, window) IN
           /\ IsFiniteSet(ms)
           /\ Cardinality({m \in ms : m.gateway # ""}) = Cardinality(Requests(obs))
           /\ \A m \in ms : m.status # "unmatched" => m.gateway # ""
           /\ \A m \in ms : m.status \in {"matched", "ambiguous", "unmatched"}
<1> DEFINE ms == Match(obs, window)
<1> DEFINE mine == [g \in Requests(obs) |-> Resolve(g, obs, window)]
<1> DEFINE other == [t \in Turns(obs) |-> LeftOver(t)]
<1> DEFINE resolved == {mine[g] : g \in Requests(obs)}
<1> DEFINE others == {other[t] : t \in Turns(obs)}
<1>1. IsFiniteSet(Requests(obs)) /\ IsFiniteSet(Turns(obs)) /\ \A g \in Requests(obs) : g.id # ""
  BY SidesAreSound
<1>2. \A g \in Requests(obs) : mine[g].gateway = g.id
                            /\ mine[g].status \in {"matched", "ambiguous", "unmatched"}
  <2> TAKE g \in Requests(obs)
  <2>1. Settled(Resolve(g, obs, window), g, obs, window)
    BY ResolveFacts
  <2> QED BY <2>1 DEF Settled
<1>3. \A t \in Turns(obs) : other[t].gateway = "" /\ other[t].status = "unmatched"
  BY DEF LeftOver
<1>4. \A g, h \in Requests(obs) : mine[g] = mine[h] => g = h
  <2>1. \A g, h \in Requests(obs) : g.id = h.id => g = h
    BY DEF Sound, Requests
  <2> QED BY <1>2, <2>1
<1>5. IsFiniteSet(resolved) /\ Cardinality(resolved) = Cardinality(Requests(obs)) /\ IsFiniteSet(others)
  <2> HIDE DEF mine, other
  <2> QED BY <1>1, <1>4, ImageSize
<1>6. resolved \subseteq ms /\ ms \subseteq resolved \cup others
  BY MatchFacts
<1>7. IsFiniteSet(ms)
  <2>1. ms \in SUBSET (resolved \cup others)
    BY <1>6
  <2>2. IsFiniteSet(resolved \cup others)
    BY <1>5, FS_Union
  <2> HIDE DEF ms, resolved, others
  <2> QED BY <2>1, <2>2, FS_Subset
<1>8. {m \in ms : m.gateway # ""} = resolved
  <2>1. \A m \in resolved : m.gateway # ""
    BY <1>1, <1>2
  <2>2. \A m \in others : m.gateway = ""
    BY <1>3
  <2> HIDE DEF ms, resolved, others
  <2> QED BY <1>6, <2>1, <2>2
<1>9. \A m \in ms : /\ m.status # "unmatched" => m.gateway # ""
                    /\ m.status \in {"matched", "ambiguous", "unmatched"}
  <2>1. \A m \in resolved : m.gateway # "" /\ m.status \in {"matched", "ambiguous", "unmatched"}
    BY <1>1, <1>2
  <2>2. \A m \in others : m.status = "unmatched"
    BY <1>3
  <2> HIDE DEF ms, resolved, others
  <2> QED BY <1>6, <2>1, <2>2
<1> QED
  BY <1>5, <1>7, <1>8, <1>9

(* What is matched, what comes of reconciling it, and either by its status.  *)
OfStatus(S, status) == {x \in S : x.status = status}
Pairs(obs, ms) == {ReconcilePair(m, obs) : m \in OfStatus(ms, "matched")}
OpenRequests(ms) == {m \in ms : m.status = "unmatched" /\ m.gateway # ""}
OpenTurns(ms) == {m \in ms : m.status = "unmatched" /\ m.gateway = ""}

(* The pairs that are reconciled are as many as the matches, and each names  *)
(* one observation of each side.                                            *)
LEMMA ReconciledPairs ==
    ASSUME NEW obs, Sound(obs), NEW window
    PROVE  LET taken == OfStatus(Match(obs, window), "matched")
               results == Pairs(obs, Match(obs, window))
           IN  /\ IsFiniteSet(results) /\ Cardinality(results) = Cardinality(taken)
               /\ \A r \in results : r.status \in {"equal", "different", "unavailable"}
               /\ \A m \in taken : ValidPair(m, obs)
               /\ \A r \in results : \A f \in UsageFields :
                    /\ Available(r.delta[f]) <=> r.fields[f] # "unavailable"
                    /\ r.delta[f].value = 0 <=> r.fields[f] # "different"
               /\ \A i : (\E r \in results : r.transcript = i) <=> (\E m \in taken : m.transcript = i)
<1> DEFINE taken == {m \in Match(obs, window) : m.status = "matched"}
<1> DEFINE pair == [m \in taken |-> ReconcilePair(m, obs)]
<1> DEFINE results == {pair[m] : m \in taken}
<1>1. \A m \in taken : /\ pair[m].gateway = m.gateway /\ pair[m].transcript = m.transcript
                       /\ pair[m].status = OverallStatus(pair[m].fields)
  BY DEF ReconcilePair
<1>2. \A x : OverallStatus(x) \in {"equal", "different", "unavailable"}
  BY DEF OverallStatus
<1>3. \A m, n \in taken : pair[m] = pair[n] => m = n
  <2>1. \A m, n \in taken : m.transcript = n.transcript => m = n
    BY OnePartner
  <2> HIDE DEF taken, pair
  <2> QED BY <1>1, <2>1
<1>4. IsFiniteSet(taken)
  <2>1. taken \in SUBSET Match(obs, window)
    OBVIOUS
  <2>2. IsFiniteSet(Match(obs, window))
    BY MatchIsFinite
  <2> HIDE DEF taken
  <2> QED BY <2>1, <2>2, FS_Subset
<1>5. IsFiniteSet(results) /\ Cardinality(results) = Cardinality(taken)
  <2> HIDE DEF taken, pair
  <2> QED BY <1>3, <1>4, ImageSize
<1>6. ASSUME NEW m \in taken
      PROVE  \E g \in Requests(obs), t \in Turns(obs) :
                /\ m.gateway = g.id /\ Named(obs, m.gateway) = g
                /\ m.transcript = t.id /\ Named(obs, m.transcript) = t
                /\ m.candidates = {} /\ m.status = "matched"
  BY MatchedFacts
<1>7. \A m \in taken : ValidPair(m, obs)
  <2>1. \A g \in Requests(obs), t \in Turns(obs) : g.id # t.id
    BY SidesAreSound
  <2> HIDE DEF taken
  <2> QED BY <1>6, <2>1 DEF ValidPair
<1>8. ASSUME NEW m \in taken, NEW f \in UsageFields
      PROVE  /\ Available(pair[m].delta[f]) <=> pair[m].fields[f] # "unavailable"
             /\ pair[m].delta[f].value = 0 <=> pair[m].fields[f] # "different"
  <2>1. PICK g \in Requests(obs), t \in Turns(obs) :
           Named(obs, m.gateway) = g /\ Named(obs, m.transcript) = t
    BY <1>6
  <2>2. g \in obs /\ t \in obs
    BY DEF Requests, Turns
  <2>3. /\ g.usage[f].has \in BOOLEAN /\ g.usage[f].value \in Int
        /\ t.usage[f].has \in BOOLEAN /\ t.usage[f].value \in Int
    BY <2>2 DEF Sound, Projected
  <2>4. pair[m].fields = [x \in UsageFields |-> CompareField(g.usage[x], t.usage[x])]
    BY <2>1 DEF ReconcilePair
  <2>5. pair[m].delta = [x \in UsageFields |-> Subtract(t.usage[x], g.usage[x])]
    BY <2>1 DEF ReconcilePair, Delta7
  <2>6. /\ pair[m].fields[f] = CompareField(g.usage[f], t.usage[f])
        /\ pair[m].delta[f] = Subtract(t.usage[f], g.usage[f])
    BY <2>4, <2>5
  <2> HIDE DEF pair
  <2> QED BY <2>3, <2>6, FieldFacts
<1>9. taken = OfStatus(Match(obs, window), "matched") /\ results = Pairs(obs, Match(obs, window))
  BY DEF OfStatus, Pairs
<1>10. \A i : (\E r \in results : r.transcript = i) <=> (\E m \in taken : m.transcript = i)
  <2> HIDE DEF taken, pair
  <2> QED BY <1>1
<1>11. \A r \in results : /\ r.status \in {"equal", "different", "unavailable"}
                          /\ \A f \in UsageFields :
                                /\ Available(r.delta[f]) <=> r.fields[f] # "unavailable"
                                /\ r.delta[f].value = 0 <=> r.fields[f] # "different"
  <2> HIDE DEF taken, pair
  <2> QED BY <1>1, <1>2, <1>8
<1> HIDE DEF results, taken
<1> QED
  BY <1>5, <1>7, <1>9, <1>10, <1>11

(* The fields of the report of reconcile.BuildReport.                       *)
LEMMA ReportFields ==
    ASSUME NEW obs, NEW window
    PROVE  LET report == BuildReport(obs, window)
               ms == Match(obs, window)
               results == Pairs(obs, ms)
           IN  /\ report.matches = ms /\ report.results = results
               /\ report.requests = Cardinality(Requests(obs))
               /\ report.matched = Cardinality(OfStatus(ms, "matched"))
               /\ report.equal = Cardinality(OfStatus(results, "equal"))
               /\ report.different = Cardinality(OfStatus(results, "different"))
               /\ report.unavailable = Cardinality(OfStatus(results, "unavailable"))
               /\ report.ambiguousGateways = Cardinality(OfStatus(ms, "ambiguous"))
               /\ report.unmatchedGateways = Cardinality(OpenRequests(ms))
               /\ report.unmatchedTranscripts = Cardinality(OpenTurns(ms))
BY DEF BuildReport, ReportOf, OfStatus, Pairs, OpenRequests, OpenTurns

(* The counters of a report add up.                                         *)
LEMMA CountersAddUp ==
    ASSUME NEW obs, Sound(obs), NEW window
    PROVE  LET report == BuildReport(obs, window) IN
           /\ report.matched = Cardinality(report.results)
           /\ report.matched = report.equal + report.different + report.unavailable
           /\ report.requests = report.matched + report.ambiguousGateways + report.unmatchedGateways
<1> DEFINE ms == Match(obs, window)
<1> DEFINE taken == OfStatus(ms, "matched")
<1> DEFINE results == Pairs(obs, ms)
<1>1. /\ IsFiniteSet(results) /\ Cardinality(results) = Cardinality(taken)
      /\ \A r \in results : r.status \in {"equal", "different", "unavailable"}
  BY ReconciledPairs
<1>2. Cardinality(results) = Cardinality(OfStatus(results, "equal"))
                               + Cardinality(OfStatus(results, "different"))
                               + Cardinality(OfStatus(results, "unavailable"))
  <2> HIDE DEF results
  <2> DEFINE A == OfStatus(results, "equal")
  <2> DEFINE B == OfStatus(results, "different")
  <2> DEFINE C == OfStatus(results, "unavailable")
  <2>1. results = A \cup B \cup C /\ A \cap B = {} /\ A \cap C = {} /\ B \cap C = {}
    BY <1>1 DEF OfStatus
  <2>2. IsFiniteSet(results)
    BY <1>1
  <2> HIDE DEF A, B, C
  <2>3. Cardinality(results) = Cardinality(A) + Cardinality(B) + Cardinality(C)
    BY <2>1, <2>2, ThreeParts
  <2> QED BY <2>3 DEF A, B, C
<1>3. Cardinality(Requests(obs)) = Cardinality(taken) + Cardinality(OfStatus(ms, "ambiguous"))
                                   + Cardinality(OpenRequests(ms))
  <2> DEFINE S == {m \in ms : m.gateway # ""}
  <2> DEFINE B == OfStatus(ms, "ambiguous")
  <2> DEFINE C == OpenRequests(ms)
  <2>1. /\ IsFiniteSet(ms)
        /\ Cardinality(S) = Cardinality(Requests(obs))
        /\ \A m \in ms : m.status # "unmatched" => m.gateway # ""
        /\ \A m \in ms : m.status \in {"matched", "ambiguous", "unmatched"}
    BY MatchIsFinite
  <2> HIDE DEF ms
  <2>2. S = taken \cup B \cup C /\ taken \cap B = {} /\ taken \cap C = {} /\ B \cap C = {}
    BY <2>1 DEF OfStatus, OpenRequests
  <2>3. S \in SUBSET ms /\ IsFiniteSet(ms)
    BY <2>1
  <2> HIDE DEF S, taken, B, C
  <2>4. IsFiniteSet(S)
    BY <2>3, FS_Subset
  <2>5. Cardinality(S) = Cardinality(taken) + Cardinality(B) + Cardinality(C)
    BY <2>2, <2>4, ThreeParts
  <2> QED BY <2>1, <2>5 DEF B, C
<1> QED
  BY <1>1, <1>2, <1>3, ReportFields

(* Every turn is shown with one status, unmatched where it is left over.     *)
LEMMA TurnsAreShown ==
    ASSUME NEW obs, Sound(obs), NEW window,
           {inspect.turns[i].id : i \in DOMAIN inspect.turns} = {t.id : t \in Turns(obs)}
    PROVE  LET report == BuildReport(obs, window)
               shown == TurnReconciliations(report)
           IN  /\ DOMAIN shown = {t.id : t \in Turns(obs)}
               /\ Cardinality({i \in DOMAIN shown : shown[i] = "unmatched"})
                    = report.unmatchedTranscripts
<1> DEFINE report == BuildReport(obs, window)
<1> DEFINE shown == TurnReconciliations(report)
<1> DEFINE ms == Match(obs, window)
<1> DEFINE taken == OfStatus(ms, "matched")
<1> DEFINE results == Pairs(obs, ms)
<1> DEFINE ids == {t.id : t \in Turns(obs)}
<1> DEFINE of(i, status) == \E m \in ms : m.status = status /\ (m.transcript = i \/ i \in m.candidates)
<1> DEFINE left == {t \in Turns(obs) : LeftOver(t) \in ms}
<1>1. report.matches = ms /\ report.results = results
      /\ report.unmatchedTranscripts = Cardinality(OpenTurns(ms))
  BY ReportFields
<1>2. shown = [i \in {i \in ids : \E s \in {"matched", "unmatched", "ambiguous"} : of(i, s)} |->
                 CASE \E r \in results : r.transcript = i -> "matched"
                   [] of(i, "unmatched") -> "unmatched"
                   [] OTHER -> "ambiguous"]
  <2>1. ids = {inspect.turns[i].id : i \in DOMAIN inspect.turns}
    OBVIOUS
  <2> HIDE DEF report, ms, results, ids
  <2> QED BY <1>1, <2>1 DEF TurnReconciliations
<1>3. \A i : (\E r \in results : r.transcript = i) <=> (\E m \in taken : m.transcript = i)
  BY ReconciledPairs
<1>4. \A m \in ms : \/ \E g \in Requests(obs) : Settled(m, g, obs, window) /\ m = Resolve(g, obs, window)
                    \/ \E t \in Turns(obs) : m = LeftOver(t)
  BY MatchFacts, ResolveFacts
<1>5. \A t \in Turns(obs) :
          /\ LeftOver(t).gateway = "" /\ LeftOver(t).transcript = t.id
          /\ LeftOver(t).status = "unmatched" /\ LeftOver(t).candidates = {}
  BY DEF LeftOver
<1>6. /\ \A t \in Turns(obs) : t.id # ""
      /\ \A t, u \in Turns(obs) : t.id = u.id => t = u
      /\ \A g \in Requests(obs) : g.id # ""
      /\ IsFiniteSet(Turns(obs))
  BY SidesAreSound DEF Sound, Turns, Requests
<1>7. \A t \in Turns(obs) :
        \/ LeftOver(t) \in ms /\ \A g \in Requests(obs) :
                /\ Resolve(g, obs, window).transcript # t.id
                /\ t.id \notin Resolve(g, obs, window).candidates
        \/ LeftOver(t) \notin ms /\ \E g \in Requests(obs) :
                /\ Resolve(g, obs, window) \in ms
                /\ \/ Resolve(g, obs, window).transcript = t.id
                   \/ t.id \in Resolve(g, obs, window).candidates
  BY MatchFacts
<1>8. \A m \in ms : m.status \in {"matched", "ambiguous", "unmatched"}
  BY MatchIsFinite
<1>9. DOMAIN shown = ids
  <2>1. ASSUME NEW t \in Turns(obs)
        PROVE  \E m \in ms : m.transcript = t.id \/ t.id \in m.candidates
    <3>1. CASE LeftOver(t) \in ms
      BY <1>5, <3>1
    <3>2. CASE LeftOver(t) \notin ms
      BY <1>7, <3>2
    <3> QED BY <3>1, <3>2
  <2>2. \A i \in ids : \E s \in {"matched", "unmatched", "ambiguous"} : of(i, s)
    BY <1>8, <2>1
  <2> HIDE DEF shown, of, results
  <2> QED BY <1>2, <2>2
<1>10. ASSUME NEW t \in left PROVE shown[t.id] = "unmatched"
  <2>1. ~ \E m \in taken : m.transcript = t.id
    <3> SUFFICES ASSUME NEW m \in taken, m.transcript = t.id PROVE FALSE
      OBVIOUS
    <3>1. m \in ms /\ m.status = "matched"
      BY DEF OfStatus
    <3>2. \E g \in Requests(obs) : m = Resolve(g, obs, window)
      BY <1>4, <1>5, <3>1
    <3> QED BY <1>7, <3>2
  <2>2. of(t.id, "unmatched")
    BY <1>5
  <2>3. t.id \in ids /\ t.id \in DOMAIN shown
    BY <1>9
  <2> HIDE DEF shown, of, results, taken
  <2>4. ~ \E r \in results : r.transcript = t.id
    BY <1>3, <2>1
  <2> QED BY <1>2, <2>2, <2>3, <2>4
<1>11. ASSUME NEW t \in Turns(obs) \ left PROVE shown[t.id] # "unmatched"
  <2>1. ~ of(t.id, "unmatched")
    <3> SUFFICES ASSUME NEW m \in ms, m.status = "unmatched", m.transcript = t.id \/ t.id \in m.candidates
                 PROVE  FALSE
      OBVIOUS
    <3>1. CASE \E g \in Requests(obs) : Settled(m, g, obs, window)
      BY <1>6, <3>1 DEF Settled
    <3>2. CASE \E u \in Turns(obs) : m = LeftOver(u)
      BY <1>5, <1>6, <3>2
    <3> QED BY <1>4, <3>1, <3>2
  <2>2. t.id \in DOMAIN shown
    BY <1>9
  <2> HIDE DEF shown, of, results
  <2> QED BY <1>2, <2>1, <2>2
<1>12. {i \in DOMAIN shown : shown[i] = "unmatched"} = {t.id : t \in left}
  <2> HIDE DEF shown
  <2>1. \A t \in Turns(obs) : shown[t.id] = "unmatched" <=> t \in left
    BY <1>10, <1>11
  <2> HIDE DEF ms
  <2> QED BY <1>9, <2>1
<1>13. OpenTurns(ms) = {LeftOver(t) : t \in left}
  <2>1. ASSUME NEW m \in ms, m.gateway = "" PROVE m \in {LeftOver(t) : t \in left}
    <3>1. ~ \E g \in Requests(obs) : Settled(m, g, obs, window)
      BY <1>6, <2>1 DEF Settled
    <3> QED BY <1>4, <3>1
  <2> QED BY <1>5, <2>1 DEF OpenTurns
<1>14. Cardinality({t.id : t \in left}) = Cardinality({LeftOver(t) : t \in left})
  <2> DEFINE name == [t \in left |-> t.id]
  <2> DEFINE line == [t \in left |-> LeftOver(t)]
  <2>1. IsFiniteSet(left)
    <3>1. left \in SUBSET Turns(obs)
      OBVIOUS
    <3> HIDE DEF left
    <3> QED BY <1>6, <3>1, FS_Subset
  <2>2. ASSUME NEW t \in left, NEW u \in left
        PROVE  /\ name[t] = name[u] => t = u
               /\ line[t] = line[u] => t = u
    <3>1. t \in Turns(obs) /\ u \in Turns(obs)
      OBVIOUS
    <3>2. /\ t.id = u.id => t = u
          /\ LeftOver(t) = LeftOver(u) => t.id = u.id
      BY <1>5, <1>6, <3>1
    <3>3. name[t] = t.id /\ name[u] = u.id /\ line[t] = LeftOver(t) /\ line[u] = LeftOver(u)
      OBVIOUS
    <3> HIDE DEF name, line, left
    <3> QED BY <3>2, <3>3
  <2>3. {t.id : t \in left} = {name[t] : t \in left} /\ {LeftOver(t) : t \in left} = {line[t] : t \in left}
    OBVIOUS
  <2> HIDE DEF name, line, left
  <2>4. /\ Cardinality({name[t] : t \in left}) = Cardinality(left)
        /\ Cardinality({line[t] : t \in left}) = Cardinality(left)
    BY <2>1, <2>2, ImageSize
  <2> QED BY <2>3, <2>4
<1> HIDE DEF shown, ms, ids, left, report
<1> QED
  BY <1>1, <1>9, <1>12, <1>13, <1>14 DEF shown, report, ids

-----------------------------------------------------------------------------
(* Gathering. *)

ReadPool == {x.observation : x \in ExchangePool}

GatheredType ==
    /\ DOMAIN inspect = {"stage", "turns", "times", "profiles", "found", "failed", "held", "read",
                         "reason", "report"}
    /\ inspect.turns \in Seq(TurnPool)
    /\ inspect.times \in SUBSET Nat /\ IsFiniteSet(inspect.times)
    /\ inspect.held \in SUBSET ExchangePool
    /\ inspect.read \in Seq(ReadPool)
    /\ inspect.failed \in BOOLEAN
    /\ inspect.stage \in {"turns", "captures", "done", "error"} \cup Captures

(* The window is that of every turn that has a time, from before a capture   *)
(* is opened until the report is made.                                      *)
WindowIsOfTurns ==
    /\ inspect.stage = "turns" => inspect.times = {} /\ inspect.held = {}
    /\ inspect.stage \in {"captures"} \cup Captures => inspect.times # {}
    /\ inspect.times # {} =>
         \A i \in DOMAIN inspect.turns :
            inspect.turns[i].started # 0 => inspect.turns[i].started \in inspect.times

(* An exchange that was met could be projected, and was taken or lay outside *)
(* the window, or else no report will be made.                              *)
HeldIsRead ==
    \A x \in inspect.held :
        \/ inspect.failed
        \/ /\ ~ Unprojectable(x)
           /\ \/ \E i \in DOMAIN inspect.read : inspect.read[i] = x.observation
              \/ ~ WithinWindow(x.observation)

InspectInv ==
    /\ GatheredType
    /\ WindowIsOfTurns
    /\ HeldIsRead
    /\ inspect.report # <<>> =>
         /\ inspect.stage = "done" /\ ~ inspect.failed /\ inspect.times # {} /\ Matchable
         /\ inspect.report = <<BuildReport(Observed, MatchWindow)>>

(* inspect begins with nothing gathered.                                    *)
LEMMA InspectInvInit == InspectInit => InspectInv
<1> SUFFICES ASSUME InspectInit PROVE InspectInv
  OBVIOUS
<1>1. /\ inspect.stage = "turns" /\ inspect.turns = <<>> /\ inspect.failed = FALSE
      /\ inspect.times = {} /\ inspect.held = {}
      /\ inspect.read = <<>> /\ inspect.reason = "" /\ inspect.report = <<>>
      /\ DOMAIN inspect = {"stage", "turns", "times", "profiles", "found", "failed", "held", "read",
                           "reason", "report"}
  BY DEF InspectInit
<1>2. <<>> \in Seq(TurnPool) /\ <<>> \in Seq(ReadPool) /\ DOMAIN <<>> = {} /\ IsFiniteSet({})
  BY FS_EmptySet
<1>3. GatheredType
  BY <1>1, <1>2 DEF GatheredType
<1>4. WindowIsOfTurns
  BY <1>1, CapturesAssumption DEF WindowIsOfTurns
<1>5. HeldIsRead
  BY <1>1 DEF HeldIsRead
<1> QED
  BY <1>1, <1>3, <1>4, <1>5 DEF InspectInv

(* A step that adds nothing to what is gathered, and makes no report, keeps  *)
(* the invariant.                                                           *)
LEMMA InspectInvKept ==
    ASSUME InspectInv,
           DOMAIN inspect' = DOMAIN inspect, inspect'.turns = inspect.turns,
           inspect'.times = inspect.times, inspect'.held = inspect.held,
           inspect'.read = inspect.read, inspect'.report = inspect.report,
           inspect'.failed \in {inspect.failed, TRUE},
           inspect'.report = <<>>,
           \/ inspect'.stage \in {"done", "error"}
           \/ inspect.stage # "turns" /\ inspect'.stage \in {"captures"} \cup Captures
                /\ inspect.times # {}
    PROVE  InspectInv'
<1>1. GatheredType'
  BY DEF InspectInv, GatheredType
<1>2. WindowIsOfTurns'
  BY CapturesAssumption DEF InspectInv, WindowIsOfTurns
<1>3. \A x : WithinWindow(x)' <=> WithinWindow(x)
  BY DEF WithinWindow
<1>4. HeldIsRead'
  BY <1>3 DEF InspectInv, HeldIsRead, GatheredType
<1> QED
  BY <1>1, <1>2, <1>4 DEF InspectInv

(* Every step of inspect keeps the invariant.                               *)
LEMMA InspectInvNext == InspectInv /\ [InspectNext]_inspect => InspectInv'
<1> SUFFICES ASSUME InspectInv, [InspectNext]_inspect PROVE InspectInv'
  OBVIOUS
<1>1. /\ DOMAIN inspect = {"stage", "turns", "times", "profiles", "found", "failed", "held", "read",
                           "reason", "report"}
      /\ inspect.stage # "done" => inspect.report = <<>>
      /\ inspect.stage \in {"captures"} \cup Captures => inspect.times # {}
      /\ inspect.failed \in BOOLEAN
  BY DEF InspectInv, GatheredType, WindowIsOfTurns
<1>2. ASSUME Fail, inspect.stage # "done" PROVE InspectInv'
  <2>1. /\ inspect'.stage = "error" /\ DOMAIN inspect' = DOMAIN inspect
        /\ inspect'.turns = inspect.turns /\ inspect'.times = inspect.times
        /\ inspect'.held = inspect.held /\ inspect'.read = inspect.read
        /\ inspect'.failed = inspect.failed /\ inspect'.report = inspect.report
    BY <1>1, <1>2 DEF Fail
  <2> QED BY <1>1, <1>2, <2>1, InspectInvKept
<1>3. ASSUME SessionRefused \/ (\E o \in TurnPool : ProjectionFails(o)) \/ ConfigFails \/ ReportFails
      PROVE  InspectInv'
  BY <1>2, <1>3 DEF SessionRefused, ProjectionFails, ConfigFails, ReportFails
<1>4. ASSUME NEW o \in TurnPool, ProjectTurn(o) PROVE InspectInv'
  <2>1. /\ inspect.stage = "turns" /\ inspect'.stage = "turns"
        /\ DOMAIN inspect' = DOMAIN inspect
        /\ inspect'.turns = Append(inspect.turns, o) /\ inspect'.read = inspect.read
        /\ inspect'.times = inspect.times /\ inspect'.held = inspect.held
        /\ inspect'.failed = inspect.failed /\ inspect'.report = inspect.report
    BY <1>1, <1>4 DEF ProjectTurn
  <2>2. inspect'.turns \in Seq(TurnPool)
    <3>1. inspect.turns \in Seq(TurnPool)
      BY DEF InspectInv, GatheredType
    <3> QED BY <2>1, <3>1, AppendFacts
  <2>3. GatheredType'
    BY <2>1, <2>2 DEF InspectInv, GatheredType
  <2>4. inspect.times = {} /\ inspect.held = {}
    BY <2>1 DEF InspectInv, WindowIsOfTurns
  <2>5. WindowIsOfTurns'
    BY <2>1, <2>4, CapturesAssumption DEF WindowIsOfTurns
  <2>6. HeldIsRead'
    BY <2>1, <2>4 DEF HeldIsRead
  <2> QED BY <1>1, <2>1, <2>3, <2>5, <2>6 DEF InspectInv
<1>5. ASSUME NoTimes PROVE InspectInv'
  <2>1. /\ inspect.stage = "turns" /\ inspect'.stage = "done"
        /\ DOMAIN inspect' = DOMAIN inspect
        /\ inspect'.turns = inspect.turns /\ inspect'.times = inspect.times
        /\ inspect'.held = inspect.held /\ inspect'.read = inspect.read
        /\ inspect'.failed = inspect.failed /\ inspect'.report = inspect.report
    BY <1>1, <1>5 DEF NoTimes
  <2> QED BY <1>1, <2>1, InspectInvKept
<1>6. ASSUME NEW own \in SUBSET SessionTimes, NEW ps, SelectProfiles(own, ps) PROVE InspectInv'
  <2> DEFINE starts == {inspect.turns[i].started : i \in DOMAIN inspect.turns}
  <2>1. /\ inspect.stage = "turns" /\ inspect'.stage = "captures"
        /\ DOMAIN inspect' = DOMAIN inspect
        /\ inspect'.turns = inspect.turns /\ inspect'.read = inspect.read
        /\ inspect'.times = own \cup (starts \ {0}) /\ inspect'.times # {}
        /\ inspect'.held = inspect.held
        /\ inspect'.failed = inspect.failed /\ inspect'.report = inspect.report
    BY <1>1, <1>6 DEF SelectProfiles, TimesWith
  <2>2. IsFiniteSet(starts) /\ starts \subseteq Nat
    <3>1. inspect.turns \in Seq(TurnPool)
      BY DEF InspectInv, GatheredType
    <3>2. IsFiniteSet(DOMAIN inspect.turns) /\ \A i \in DOMAIN inspect.turns : inspect.turns[i] \in TurnPool
      BY <3>1, FS_Interval
    <3>3. \A t \in TurnPool : t.started \in Nat
      BY PoolsAssumption DEF Projected
    <3>4. IsFiniteSet(starts)
      <4> DEFINE f == [i \in DOMAIN inspect.turns |-> inspect.turns[i].started]
      <4>1. starts = {f[i] : i \in DOMAIN inspect.turns}
        OBVIOUS
      <4> HIDE DEF f, starts
      <4> QED BY <3>2, <4>1, ImageSize
    <3> QED BY <3>2, <3>3, <3>4
  <2>3. IsFiniteSet(own) /\ own \subseteq Nat
    BY TimesAssumption, FS_Subset
  <2> HIDE DEF starts
  <2>4. IsFiniteSet(inspect'.times) /\ inspect'.times \in SUBSET Nat
    <3>1. starts \ {0} \in SUBSET starts
      OBVIOUS
    <3>2. IsFiniteSet(starts \ {0})
      BY <2>2, <3>1, FS_Subset
    <3>3. IsFiniteSet(own \cup (starts \ {0}))
      BY <2>3, <3>2, FS_Union
    <3> QED BY <2>1, <2>2, <2>3, <3>3
  <2>5. GatheredType'
    BY <2>1, <2>4 DEF InspectInv, GatheredType
  <2>6. WindowIsOfTurns'
    BY <2>1, CapturesAssumption DEF WindowIsOfTurns, starts
  <2>7. HeldIsRead'
    BY <2>1 DEF InspectInv, WindowIsOfTurns, HeldIsRead
  <2> QED BY <1>1, <2>1, <2>5, <2>6, <2>7 DEF InspectInv
<1>7. ASSUME NEW p \in Captures, OpenCapture(p) PROVE InspectInv'
  <2>1. /\ inspect.stage = "captures" /\ inspect'.stage \in {"captures", p}
        /\ DOMAIN inspect' = DOMAIN inspect
        /\ inspect'.turns = inspect.turns /\ inspect'.times = inspect.times
        /\ inspect'.held = inspect.held /\ inspect'.read = inspect.read
        /\ inspect'.failed \in {inspect.failed, TRUE} /\ inspect'.report = inspect.report
    BY <1>1, <1>7 DEF OpenCapture
  <2> QED BY <1>1, <2>1, InspectInvKept
<1>8. ASSUME NEW x \in ExchangePool, ReadExchange(x) PROVE InspectInv'
  <2>1. inspect.stage \in Captures /\ inspect.stage \notin {"turns", "captures", "done", "error"}
    BY <1>8, CapturesAssumption DEF ReadExchange
  <2>2. CASE x.kind # "model"
    <3>1. inspect' = inspect
      BY <1>8, <2>2 DEF ReadExchange
    <3> QED BY <1>1, <2>1, <3>1, InspectInvKept
  <2>3. CASE x.kind = "model"
    <3> DEFINE o == x.observation
    <3>1. /\ inspect'.stage = inspect.stage /\ DOMAIN inspect' = DOMAIN inspect
          /\ inspect'.turns = inspect.turns /\ inspect'.times = inspect.times
          /\ inspect'.held = inspect.held \cup {x}
          /\ inspect'.failed = (inspect.failed \/ Unprojectable(x))
          /\ inspect'.read = IF ~ Unprojectable(x) /\ WithinWindow(o)
                             THEN Append(inspect.read, o) ELSE inspect.read
          /\ inspect'.report = inspect.report
      BY <1>1, <1>8, <2>3 DEF ReadExchange
    <3>2. o \in ReadPool /\ inspect.read \in Seq(ReadPool)
      BY DEF ReadPool, InspectInv, GatheredType
    <3> HIDE DEF o
    <3>3. /\ Append(inspect.read, o) \in Seq(ReadPool)
          /\ DOMAIN Append(inspect.read, o) = DOMAIN inspect.read \cup {Len(inspect.read) + 1}
          /\ \A i \in DOMAIN inspect.read : Append(inspect.read, o)[i] = inspect.read[i]
          /\ Append(inspect.read, o)[Len(inspect.read) + 1] = o
      <4> HIDE DEF ReadPool
      <4> QED BY <3>2, AppendFacts
    <3>4. GatheredType'
      <4> HIDE DEF ReadPool
      <4>1. inspect'.read \in Seq(ReadPool)
        BY <3>1, <3>2, <3>3
      <4>2. inspect'.held \in SUBSET ExchangePool /\ inspect'.failed \in BOOLEAN
        BY <3>1 DEF InspectInv, GatheredType
      <4> QED BY <3>1, <4>1, <4>2 DEF InspectInv, GatheredType
    <3>5. WindowIsOfTurns'
      BY <2>1, <3>1 DEF InspectInv, WindowIsOfTurns
    <3>6. \A y : WithinWindow(y)' <=> WithinWindow(y)
      BY <3>1 DEF WithinWindow
    <3>7. \A y \in inspect.held :
            (\E i \in DOMAIN inspect.read : inspect.read[i] = y.observation)
               => \E i \in DOMAIN inspect'.read : inspect'.read[i] = y.observation
      BY <3>1, <3>3
    <3>8. ASSUME NEW y \in inspect.held
          PROVE  \/ inspect'.failed
                 \/ /\ ~ Unprojectable(y)
                    /\ \/ \E i \in DOMAIN inspect'.read : inspect'.read[i] = y.observation
                       \/ ~ WithinWindow(y.observation)
      BY <3>1, <3>7 DEF InspectInv, HeldIsRead
    <3>9. \/ inspect'.failed
          \/ /\ ~ Unprojectable(x)
             /\ \/ \E i \in DOMAIN inspect'.read : inspect'.read[i] = o
                \/ ~ WithinWindow(o)
      BY <3>1, <3>3
    <3>10. HeldIsRead'
      BY <3>1, <3>6, <3>8, <3>9 DEF HeldIsRead, o
    <3> QED BY <1>1, <2>1, <3>1, <3>4, <3>5, <3>10 DEF InspectInv
  <2> QED BY <2>2, <2>3
<1>9. ASSUME CloseCapture PROVE InspectInv'
  <2>1. /\ inspect.stage \in Captures /\ inspect'.stage = "captures"
        /\ DOMAIN inspect' = DOMAIN inspect
        /\ inspect'.turns = inspect.turns /\ inspect'.times = inspect.times
        /\ inspect'.held = inspect.held /\ inspect'.read = inspect.read
        /\ inspect'.failed = inspect.failed /\ inspect'.report = inspect.report
    BY <1>1, <1>9 DEF CloseCapture
  <2>2. inspect.stage \notin {"turns", "done"}
    BY <2>1, CapturesAssumption
  <2> QED BY <1>1, <2>1, <2>2, InspectInvKept
<1>10. ASSUME Unreconciled PROVE InspectInv'
  <2>1. /\ inspect.stage = "captures" /\ inspect'.stage = "done"
        /\ DOMAIN inspect' = DOMAIN inspect
        /\ inspect'.turns = inspect.turns /\ inspect'.times = inspect.times
        /\ inspect'.held = inspect.held /\ inspect'.read = inspect.read
        /\ inspect'.failed = inspect.failed /\ inspect'.report = inspect.report
    BY <1>1, <1>10 DEF Unreconciled
  <2> QED BY <1>1, <2>1, InspectInvKept
<1>11. ASSUME Report PROVE InspectInv'
  <2>1. /\ inspect.stage = "captures" /\ inspect'.stage = "done"
        /\ ~ inspect.failed /\ Matchable
        /\ DOMAIN inspect' = DOMAIN inspect
        /\ inspect'.turns = inspect.turns /\ inspect'.times = inspect.times
        /\ inspect'.held = inspect.held /\ inspect'.read = inspect.read
        /\ inspect'.failed = inspect.failed
        /\ inspect'.report = <<BuildReport(Observed, MatchWindow)>>
    BY <1>1, <1>11 DEF Report
  <2>2. Gathered' = Gathered
    BY <2>1 DEF Gathered
  <2>3. Observed' = Observed /\ Matchable'
    BY <2>1, <2>2 DEF Observed, Matchable
  <2>4. inspect'.report = <<BuildReport(Observed', MatchWindow)>>
    BY <2>1, <2>3
  <2>5. \A y : WithinWindow(y)' <=> WithinWindow(y)
    BY <2>1 DEF WithinWindow
  <2>6. GatheredType' /\ WindowIsOfTurns'
    BY <2>1, CapturesAssumption DEF InspectInv, GatheredType, WindowIsOfTurns
  <2>7. HeldIsRead'
    BY <2>1, <2>5 DEF InspectInv, HeldIsRead
  <2>8. inspect'.times # {}
    BY <1>1, <2>1
  <2> QED BY <2>1, <2>3, <2>4, <2>6, <2>7, <2>8 DEF InspectInv
<1>12. ASSUME UNCHANGED inspect PROVE InspectInv'
  <2>1. inspect' = inspect
    BY <1>12
  <2>2. Gathered' = Gathered /\ \A y : WithinWindow(y)' <=> WithinWindow(y)
    BY <2>1 DEF Gathered, WithinWindow
  <2>3. Observed' = Observed /\ Matchable' = Matchable
    BY <2>2 DEF Observed, Matchable
  <2>4. BuildReport(Observed', MatchWindow) = BuildReport(Observed, MatchWindow)
    BY <2>3
  <2>5. GatheredType' /\ WindowIsOfTurns'
    BY <2>1 DEF InspectInv, GatheredType, WindowIsOfTurns
  <2>6. HeldIsRead'
    BY <2>1, <2>2 DEF InspectInv, HeldIsRead
  <2> QED BY <2>1, <2>3, <2>4, <2>5, <2>6 DEF InspectInv
<1> QED
  BY <1>3, <1>4, <1>5, <1>6, <1>7, <1>8, <1>9, <1>10, <1>11, <1>12 DEF InspectNext

(* The invariant of inspect: what is gathered is what the turns and         *)
(* captures read so far hold inside the window, and a report is that of     *)
(* what was gathered.                                                       *)
THEOREM InspectInvHolds == InspectSpec => []InspectInv
BY InspectInvInit, InspectInvNext, PTL DEF InspectSpec

(* What is gathered, when it is valid and named apart, can be matched, and  *)
(* its turns are those that were projected.                                 *)
LEMMA ObservedIsSound ==
    ASSUME InspectInv
    PROVE  /\ Matchable => Sound(Observed)
           /\ Turns(Observed) = {inspect.turns[i] : i \in DOMAIN inspect.turns}
           /\ \A i \in DOMAIN inspect.read : inspect.read[i] \in Observed
<1> DEFINE ts == inspect.turns
<1> DEFINE xs == inspect.read
<1> DEFINE Pool == TurnPool \cup ReadPool
<1>1. ts \in Seq(TurnPool) /\ xs \in Seq(ReadPool)
  BY DEF InspectInv, GatheredType
<1>2. ts \in Seq(Pool) /\ xs \in Seq(Pool)
  <2>1. TurnPool \subseteq Pool /\ ReadPool \subseteq Pool
    OBVIOUS
  <2> HIDE DEF Pool
  <2> QED BY <1>1, <2>1, SeqMonotonic
<1> HIDE DEF ts, xs, Pool
<1>3. /\ ts \o xs \in Seq(Pool) /\ Len(ts \o xs) = Len(ts) + Len(xs)
      /\ \A i \in 1 .. Len(ts) + Len(xs) : (ts \o xs)[i] = IF i <= Len(ts) THEN ts[i] ELSE xs[i - Len(ts)]
  BY <1>2, ConcatProperties
<1>4. /\ Len(ts) \in Nat /\ Len(xs) \in Nat /\ DOMAIN ts = 1 .. Len(ts) /\ DOMAIN xs = 1 .. Len(xs)
      /\ DOMAIN (ts \o xs) = 1 .. Len(ts) + Len(xs)
  BY <1>2, <1>3, LenProperties
<1>5. /\ \A i \in DOMAIN ts : ts[i] \in TurnPool
      /\ \A i \in DOMAIN xs : xs[i] \in ReadPool
  BY <1>1, <1>4, ElementOfSeq
<1>6. Gathered = ts \o xs
  BY DEF Gathered, ts, xs
<1>7. /\ \A t \in TurnPool : Projected(t, "transcript") /\ t.side = "transcript"
      /\ \A x \in ReadPool : Projected(x, "gateway") /\ x.side = "gateway"
  BY PoolsAssumption DEF ReadPool, Projected
<1>8. \A i \in DOMAIN Gathered :
        \/ i \in DOMAIN ts /\ Gathered[i] = ts[i]
        \/ i - Len(ts) \in DOMAIN xs /\ Gathered[i] = xs[i - Len(ts)]
  BY <1>3, <1>4, <1>6
<1>9. Observed = {ts[i] : i \in DOMAIN ts} \cup {xs[i] : i \in DOMAIN xs}
  <2>1. \A i \in DOMAIN ts : i \in DOMAIN Gathered /\ Gathered[i] = ts[i]
    BY <1>3, <1>4, <1>6
  <2>2. \A i \in DOMAIN xs : i + Len(ts) \in DOMAIN Gathered /\ Gathered[i + Len(ts)] = xs[i]
    BY <1>3, <1>4, <1>6
  <2> QED BY <1>8, <2>1, <2>2 DEF Observed
<1>10. IsFiniteSet(Observed)
  <2>1. IsFiniteSet(DOMAIN Gathered)
    BY <1>4, <1>6, FS_Interval
  <2>2. Observed = {Gathered[i] : i \in DOMAIN Gathered}
    BY DEF Observed
  <2> QED BY <2>1, <2>2, ImageSize
<1>11. ASSUME Matchable PROVE Sound(Observed)
  <2>1. \A a, b \in Observed : a.id = b.id => a = b
    BY <1>11 DEF Observed, Matchable
  <2>2. \A o \in Observed : o.side \in {"gateway", "transcript"} /\ Projected(o, o.side)
    BY <1>5, <1>7, <1>9
  <2> QED BY <1>10, <2>1, <2>2 DEF Sound
<1>12. Turns(Observed) = {ts[i] : i \in DOMAIN ts}
  BY <1>5, <1>7, <1>9 DEF Turns
<1>13. \A i \in DOMAIN xs : xs[i] \in Observed
  BY <1>9
<1> QED
  BY <1>11, <1>12, <1>13 DEF ts, xs

(* Every report is that of observations which can be matched.                *)
LEMMA ReportedIsBuilt ==
    ASSUME InspectInv, NEW report \in Reported
    PROVE  Sound(Observed) /\ report = BuildReport(Observed, MatchWindow)
<1>1. inspect.report # <<>>
  BY DEF Reported
<1>2. Matchable /\ inspect.report = <<BuildReport(Observed, MatchWindow)>>
  BY <1>1 DEF InspectInv
<1>3. report = BuildReport(Observed, MatchWindow)
  BY <1>2 DEF Reported
<1> QED
  BY <1>2, <1>3, ObservedIsSound

(* Requests that bear on no turn are unmatched, and change nothing for the   *)
(* others.                                                                  *)
LEMMA StrangersAddNothing ==
    ASSUME NEW obs, Sound(obs), NEW window, NEW cut,
           \A g \in cut : /\ g.side = "gateway" /\ g.started \in Nat
                          /\ \A t \in Turns(obs) : /\ Relation(g, t, window) = "none"
                                                   /\ Relation(t, g, window) = "none"
    PROVE  Match(obs \cup cut, window) = Match(obs, window) \cup {Unresolved(g) : g \in cut}
<1> DEFINE all == obs \cup cut
<1>1. Turns(all) = Turns(obs) /\ Requests(all) = Requests(obs) \cup cut
  BY DEF Turns, Requests
<1>2. IsFiniteSet(Turns(obs)) /\ \A o \in obs : o.started \in Nat /\ o.id # ""
  BY SidesAreSound
<1>3. Turns(obs) \subseteq obs /\ Requests(obs) \subseteq obs
  BY DEF Turns, Requests
<1> HIDE DEF all
<1>4. ASSUME NEW t \in Turns(obs)
      PROVE  Preference(t, Requests(all), window) = Preference(t, Requests(obs), window)
  <2>1. Related(t, Requests(all), window) = Related(t, Requests(obs), window)
    BY <1>1 DEF Related
  <2> QED BY <2>1 DEF Preference
<1>5. ASSUME NEW g, g.started \in Nat, Preference(g, Turns(obs), window).kind = "none"
      PROVE  Resolve(g, all, window) = Unresolved(g) /\ Resolve(g, obs, window) = Unresolved(g)
  <2>1. \A mine, t, theirs : mine.kind = "none" => Resolution(g, mine, t, theirs) = Unresolved(g)
    BY DEF Resolution, Unresolved
  <2> QED BY <1>1, <1>5, <2>1 DEF Resolve
<1>6. ASSUME NEW g \in Requests(obs) PROVE Resolve(g, all, window) = Resolve(g, obs, window)
  <2> DEFINE mine == Preference(g, Turns(obs), window)
  <2> DEFINE t == CHOOSE t \in mine.picks : TRUE
  <2>1. g.started \in Nat
    BY <1>2, <1>3
  <2>2. CASE mine.kind = "none"
    BY <1>5, <2>1, <2>2
  <2>3. CASE mine.kind # "none"
    <3>1. mine.picks \in SUBSET Turns(obs) /\ (mine.kind = "none" <=> mine.picks = {})
      <4>1. g.started \in Nat /\ IsFiniteSet(Turns(obs)) /\ \A c \in Turns(obs) : c.started \in Nat
        BY <1>2, <1>3, <2>1
      <4> QED BY <4>1, PreferenceFacts
    <3>2. t \in Turns(obs)
      <4> HIDE DEF mine
      <4> QED BY <2>3, <3>1
    <3>3. Resolve(g, all, window) = Resolution(g, mine, t, Preference(t, Requests(all), window))
      BY <1>1 DEF Resolve
    <3>4. Resolve(g, obs, window) = Resolution(g, mine, t, Preference(t, Requests(obs), window))
      BY DEF Resolve
    <3> HIDE DEF mine, t
    <3> QED BY <1>4, <3>2, <3>3, <3>4
  <2> QED BY <2>2, <2>3
<1>7. ASSUME NEW g \in cut PROVE Resolve(g, all, window) = Unresolved(g)
  <2> DEFINE mine == Preference(g, Turns(obs), window)
  <2>1. /\ mine.picks \in SUBSET Turns(obs)
        /\ mine.kind = "none" <=> mine.picks = {}
        /\ \A c \in mine.picks : Relation(g, c, window) = mine.kind
    <3>1. g.started \in Nat /\ IsFiniteSet(Turns(obs)) /\ \A c \in Turns(obs) : c.started \in Nat
      BY <1>2, <1>3
    <3> QED BY <3>1, PreferenceFacts
  <2>2. mine.kind = "none"
    <3> HIDE DEF mine
    <3> QED BY <2>1
  <2> QED BY <1>5, <2>2
<1> DEFINE before == {Resolve(g, obs, window) : g \in Requests(obs)}
<1> DEFINE after == {Resolve(g, all, window) : g \in Requests(all)}
<1> DEFINE loose == {Unresolved(g) : g \in cut}
<1> DEFINE taken(rs) == UNION {{r.transcript} \cup r.candidates : r \in rs}
<1> DEFINE left(rs) == {LeftOver(t) : t \in {t \in Turns(obs) : t.id \notin taken(rs)}}
<1>8. after = before \cup loose
  BY <1>1, <1>6, <1>7
<1>9. \A r \in loose : r.transcript = "" /\ r.candidates = {}
  BY ResultFields
<1>10. Match(obs, window) = before \cup left(before)
  BY DEF Match, WithOtherTurns, LeftOver
<1>11. Match(all, window) = after \cup left(after)
  BY <1>1 DEF Match, WithOtherTurns, LeftOver
<1> HIDE DEF before, after, loose
<1>12. \A t \in Turns(obs) : t.id \in taken(after) <=> t.id \in taken(before)
  BY <1>2, <1>3, <1>8, <1>9
<1> HIDE DEF taken
<1>13. left(after) = left(before)
  BY <1>12
<1> HIDE DEF left
<1> QED
  BY <1>8, <1>10, <1>11, <1>13 DEF all, loose

(* What lies outside the window is too far from every turn to be like it.    *)
LEMMA OutsideIsNoCandidate ==
    ASSUME InspectInv, inspect.times # {}, NEW g, g.started \in Nat, ~ WithinWindow(g),
           NEW t \in Turns(Observed), ~ SharesIdentity(g, t)
    PROVE  Relation(g, t, MatchWindow) = "none" /\ Relation(t, g, MatchWindow) = "none"
<1>1. PICK i \in DOMAIN inspect.turns : t = inspect.turns[i]
  BY ObservedIsSound
<1>2. t.started \in Nat
  <2>1. inspect.turns \in Seq(TurnPool)
    BY DEF InspectInv, GatheredType
  <2>2. t \in TurnPool
    BY <1>1, <2>1
  <2> QED BY <2>2, PoolsAssumption DEF Projected
<1>3. t.started # 0 => t.started \in inspect.times
  BY <1>1 DEF InspectInv, WindowIsOfTurns
<1>4. /\ Min(inspect.times) \in Int /\ Max(inspect.times) \in Int
      /\ \A n \in inspect.times : Min(inspect.times) <= n /\ n <= Max(inspect.times)
  <2>1. inspect.times \subseteq Int /\ IsFiniteSet(inspect.times)
    BY DEF InspectInv, GatheredType
  <2> QED BY <2>1, EndsOfIntegers
<1>5. ~ (g.started > 0 /\ t.started > 0 /\ Distance(g, t) <= MatchWindow)
  <2> SUFFICES ASSUME g.started > 0, t.started > 0, Distance(g, t) <= MatchWindow PROVE FALSE
    OBVIOUS
  <2>1. Min(inspect.times) <= t.started /\ t.started <= Max(inspect.times)
    BY <1>2, <1>3, <1>4
  <2>2. t.started - MatchWindow <= g.started /\ g.started <= t.started + MatchWindow
    BY <1>2, MatchWindowAssumption DEF Distance
  <2>3. Min(inspect.times) - MatchWindow <= g.started /\ g.started <= Max(inspect.times) + MatchWindow
    BY <1>2, <1>4, <2>1, <2>2, MatchWindowAssumption
  <2> QED BY <2>3 DEF WithinWindow
<1>6. Distance(t, g) = Distance(g, t)
  BY <1>2 DEF Distance
<1>7. ~ Candidates(g, t, MatchWindow) /\ ~ Candidates(t, g, MatchWindow)
  BY <1>5, <1>6 DEF Candidates
<1>8. ~ SharesIdentity(t, g)
  BY DEF SharesIdentity
<1> QED
  BY <1>7, <1>8 DEF Relation

(* The cut to the session's window costs no report a match: with everything  *)
(* else that the captures hold the matcher would pair the same, and every    *)
(* exchange could be read (internal/app/inspect.go, sessionObservationWindow *)
(* and gatewayObservations, against internal/match, Match).                 *)
THEOREM ReportsMissNoMatch == InspectSpec => []ReportMissesNoMatch
<1>1. InspectInv => ReportMissesNoMatch
  <2> SUFFICES ASSUME InspectInv, NEW report \in Reported
               PROVE  LET requests == {x.observation : x \in inspect.held}
                          cut == {g \in requests \ Observed :
                                    \A t \in Turns(Observed) : ~ SharesIdentity(g, t)}
                      IN  /\ \A x \in inspect.held : ~ Unprojectable(x)
                          /\ Match(Observed \cup cut, MatchWindow) =
                               report.matches \cup
                                 {[gateway |-> g.id, transcript |-> "", status |-> "unmatched",
                                   candidates |-> {}, confidence |-> ""] : g \in cut}
    BY DEF ReportMissesNoMatch
  <2> DEFINE requests == {x.observation : x \in inspect.held}
  <2> DEFINE cut == {g \in requests \ Observed : \A t \in Turns(Observed) : ~ SharesIdentity(g, t)}
  <2>1. Sound(Observed) /\ report = BuildReport(Observed, MatchWindow)
    BY ReportedIsBuilt
  <2>2. report.matches = Match(Observed, MatchWindow)
    BY <2>1, ReportFields
  <2>3. ~ inspect.failed /\ inspect.times # {}
    <3>1. inspect.report # <<>>
      BY DEF Reported
    <3> QED BY <3>1 DEF InspectInv
  <2>4. \A x \in inspect.held : ~ Unprojectable(x)
    BY <2>3 DEF InspectInv, HeldIsRead
  <2>5. ASSUME NEW g \in cut
        PROVE  /\ g.side = "gateway" /\ g.started \in Nat
               /\ \A t \in Turns(Observed) : /\ Relation(g, t, MatchWindow) = "none"
                                             /\ Relation(t, g, MatchWindow) = "none"
    <3>1. PICK x \in inspect.held : g = x.observation
      OBVIOUS
    <3>2. x \in ExchangePool
      BY DEF InspectInv, GatheredType
    <3>3. g.side = "gateway" /\ g.started \in Nat
      BY <3>1, <3>2, PoolsAssumption DEF Projected
    <3>4. \A i \in DOMAIN inspect.read : inspect.read[i] # g
      BY ObservedIsSound
    <3>5. ~ WithinWindow(g)
      BY <2>3, <3>1, <3>4 DEF InspectInv, HeldIsRead
    <3> QED BY <2>3, <3>3, <3>5, OutsideIsNoCandidate
  <2> HIDE DEF cut
  <2>6. Match(Observed \cup cut, MatchWindow)
          = Match(Observed, MatchWindow) \cup {Unresolved(g) : g \in cut}
    BY <2>1, <2>5, StrangersAddNothing
  <2> QED BY <2>2, <2>4, <2>6 DEF Unresolved, cut
<1> QED
  BY <1>1, InspectInvHolds, PTL

(* Matching is one-to-one, mutual, and independent of the order the map of   *)
(* candidates comes in (internal/match, Match and choosePreference).         *)
THEOREM InspectionMatchesMutually == InspectSpec => []MatchingIsMutual
<1>1. InspectInv => MatchingIsMutual
  <2> SUFFICES ASSUME InspectInv, NEW report \in Reported
               PROVE  Mutual(Observed, report.matches, MatchWindow)
    BY DEF MatchingIsMutual, Mutual
  <2>1. Sound(Observed) /\ report = BuildReport(Observed, MatchWindow)
    BY ReportedIsBuilt
  <2>2. report.matches = Match(Observed, MatchWindow)
    BY <2>1, ReportFields
  <2> QED BY <2>1, <2>2, MatchIsMutual
<1> QED
  BY <1>1, InspectInvHolds, PTL

(* A report's counters add up, its pairs can be reconciled, its differences  *)
(* are of measures both sides have, and every turn is shown with one status  *)
(* (internal/reconcile, BuildReport).                                       *)
THEOREM InspectionReportAddsUp == InspectSpec => []ReportAddsUp
<1>1. InspectInv => ReportAddsUp
  <2> SUFFICES ASSUME InspectInv, NEW report \in Reported
               PROVE  /\ report.matched = Cardinality(report.results)
                      /\ report.matched = report.equal + report.different + report.unavailable
                      /\ report.requests
                            = report.matched + report.ambiguousGateways + report.unmatchedGateways
                      /\ \A m \in OfStatus(report.matches, "matched") : ValidPair(m, Observed)
                      /\ \A r \in report.results : \A f \in UsageFields :
                           /\ Available(r.delta[f]) <=> r.fields[f] # "unavailable"
                           /\ r.delta[f].value = 0 <=> r.fields[f] # "different"
                      /\ DOMAIN TurnReconciliations(report) = {t.id : t \in Turns(Observed)}
                      /\ Cardinality({i \in DOMAIN TurnReconciliations(report) :
                                        TurnReconciliations(report)[i] = "unmatched"})
                            = report.unmatchedTranscripts
    BY DEF ReportAddsUp, OfStatus
  <2>1. Sound(Observed) /\ report = BuildReport(Observed, MatchWindow)
    BY ReportedIsBuilt
  <2>2. /\ report.matches = Match(Observed, MatchWindow)
        /\ report.results = Pairs(Observed, Match(Observed, MatchWindow))
    BY <2>1, ReportFields
  <2>3. /\ report.matched = Cardinality(report.results)
        /\ report.matched = report.equal + report.different + report.unavailable
        /\ report.requests = report.matched + report.ambiguousGateways + report.unmatchedGateways
    BY <2>1, CountersAddUp
  <2>4. /\ \A m \in OfStatus(report.matches, "matched") : ValidPair(m, Observed)
        /\ \A r \in report.results : \A f \in UsageFields :
             /\ Available(r.delta[f]) <=> r.fields[f] # "unavailable"
             /\ r.delta[f].value = 0 <=> r.fields[f] # "different"
    BY <2>1, <2>2, ReconciledPairs
  <2>5. {inspect.turns[i].id : i \in DOMAIN inspect.turns} = {t.id : t \in Turns(Observed)}
    <3>1. Turns(Observed) = {inspect.turns[i] : i \in DOMAIN inspect.turns}
      BY ObservedIsSound
    <3> QED BY <3>1
  <2>6. /\ DOMAIN TurnReconciliations(report) = {t.id : t \in Turns(Observed)}
        /\ Cardinality({i \in DOMAIN TurnReconciliations(report) :
                          TurnReconciliations(report)[i] = "unmatched"})
              = report.unmatchedTranscripts
    BY <2>1, <2>5, TurnsAreShown
  <2> QED BY <2>3, <2>4, <2>6
<1> QED
  BY <1>1, InspectInvHolds, PTL

-----------------------------------------------------------------------------
(* Sessions, as far as they were read. *)

ReadTurns ==
    [sequence : Int, usage : {t.usage : t \in TurnKinds},
     accounting : {t.accounting : t \in TurnKinds}, context : Seq(ToolComponents)]
ReadSessions ==
    [source : {"claude", "codex"}, turns : Seq(ReadTurns), trailing : Seq(ToolComponents)]

AnalysisType == analysed \in Seq(ReadSessions)

(* Sessions are as far as they were read: a source each, turns that are        *)
(* numbered, and components of the source's.                                 *)
THEOREM AnalysisTypeHolds == AnalysisSpec => []AnalysisType
<1>1. AnalysisInit => AnalysisType
  BY DEF AnalysisInit, AnalysisType
<1>2. AnalysisType /\ [AnalysisNext]_analysed => AnalysisType'
  <2> SUFFICES ASSUME AnalysisType, AnalysisNext PROVE AnalysisType'
    BY DEF AnalysisType
  <2>1. ASSUME NEW source \in {"claude", "codex"}, BeginSession(source) PROVE AnalysisType'
    <3> DEFINE s == [source |-> source, turns |-> <<>>, trailing |-> <<>>]
    <3>1. s \in ReadSessions
      BY DEF ReadSessions
    <3> HIDE DEF s
    <3>2. Append(analysed, s) \in Seq(ReadSessions)
      BY <3>1 DEF AnalysisType
    <3> QED BY <2>1, <3>2 DEF BeginSession, AnalysisType, s
  <2> DEFINE n == Len(analysed)
  <2>2. analysed # <<>> => n \in DOMAIN analysed /\ analysed[n] \in ReadSessions
    BY DEF AnalysisType
  <2>3. ASSUME NEW s \in ReadSessions, analysed # <<>>, analysed' = [analysed EXCEPT ![n] = s]
        PROVE  AnalysisType'
    <3> HIDE DEF ReadSessions
    <3> QED BY <2>2, <2>3 DEF AnalysisType
  <2> HIDE DEF n
  <2>4. ASSUME NEW t \in TurnKinds, BeginTurn(t) PROVE AnalysisType'
    <3> DEFINE new == [sequence |-> t.sequence, usage |-> t.usage, accounting |-> t.accounting,
                       context |-> <<>>]
    <3>1. new \in ReadTurns
      <4>1. t.sequence \in Int
        BY AnalysisAssumption DEF AnalysisAssumption
      <4>2. <<>> \in Seq(ToolComponents)
        OBVIOUS
      <4> QED BY <4>1, <4>2 DEF ReadTurns
    <3> HIDE DEF new
    <3> DEFINE s == [analysed[n] EXCEPT !.turns = Append(@, new)]
    <3>2. analysed # <<>> /\ s \in ReadSessions
      <4>1. analysed # <<>>
        BY <2>4 DEF BeginTurn
      <4>2. Append(analysed[n].turns, new) \in Seq(ReadTurns)
        <5> HIDE DEF ReadTurns
        <5> QED BY <2>2, <3>1, <4>1 DEF ReadSessions
      <4> HIDE DEF ReadTurns
      <4> QED BY <2>2, <4>1, <4>2 DEF ReadSessions
    <3>3. analysed' = [analysed EXCEPT ![n] = s]
      BY <2>4 DEF BeginTurn, n, new
    <3> HIDE DEF s
    <3> QED BY <2>3, <3>2, <3>3
  <2>5. ASSUME NEW c \in ToolComponents, Attribute(c) PROVE AnalysisType'
    <3> DEFINE m == Len(analysed[n].turns)
    <3> DEFINE t == [analysed[n].turns[m] EXCEPT !.context = Append(@, c)]
    <3> DEFINE s == [analysed[n] EXCEPT !.turns[m] = t]
    <3>1. analysed # <<>> /\ analysed[n].turns # <<>>
      BY <2>5 DEF Attribute, Current, n
    <3>2. analysed[n].turns \in Seq(ReadTurns)
      BY <2>2, <3>1 DEF ReadSessions
    <3>3. m \in DOMAIN analysed[n].turns /\ analysed[n].turns[m] \in ReadTurns
      <4> HIDE DEF ReadTurns
      <4> QED BY <3>1, <3>2
    <3>4. t \in ReadTurns
      <4>1. Append(analysed[n].turns[m].context, c) \in Seq(ToolComponents)
        BY <3>3 DEF ReadTurns
      <4> HIDE DEF m
      <4> QED BY <3>3, <4>1 DEF ReadTurns
    <3>5. [analysed[n].turns EXCEPT ![m] = t] \in Seq(ReadTurns)
      <4> HIDE DEF ReadTurns, m, t
      <4> QED BY <3>2, <3>3, <3>4
    <3>6. analysed' = [analysed EXCEPT ![n] = s]
      BY <2>5 DEF Attribute, Current, n
    <3>7. s \in ReadSessions
      <4> HIDE DEF ReadTurns, m, t
      <4> QED BY <2>2, <3>1, <3>5 DEF ReadSessions
    <3> HIDE DEF s
    <3> QED BY <2>3, <3>1, <3>6, <3>7
  <2>6. ASSUME NEW c \in ToolComponents, Trail(c) PROVE AnalysisType'
    <3> DEFINE s == [analysed[n] EXCEPT !.trailing = Append(@, c)]
    <3>1. analysed # <<>>
      BY <2>6 DEF Trail
    <3>2. Append(analysed[n].trailing, c) \in Seq(ToolComponents)
      BY <2>2, <3>1 DEF ReadSessions
    <3>3. s \in ReadSessions
      BY <2>2, <3>1, <3>2 DEF ReadSessions
    <3>4. analysed' = [analysed EXCEPT ![n] = s]
      BY <2>6 DEF Trail, n
    <3> HIDE DEF s
    <3> QED BY <2>3, <3>1, <3>3, <3>4
  <2> QED BY <2>1, <2>4, <2>5, <2>6 DEF AnalysisNext
<1> QED BY <1>1, <1>2, PTL DEF AnalysisSpec

-----------------------------------------------------------------------------
(* Places. *)

(* What a session that was read has. *)
LEMMA SessionFacts ==
    ASSUME AnalysisType, NEW n \in DOMAIN analysed
    PROVE  /\ analysed[n].source \in {"claude", "codex"}
           /\ analysed[n].turns \in Seq(ReadTurns)
           /\ analysed[n].trailing \in Seq(ToolComponents)
<1>1. analysed[n] \in ReadSessions
  BY DEF AnalysisType
<1> QED BY <1>1 DEF ReadSessions

(* A place is of its session, in one of its turns or trailing, and has a      *)
(* component of the source's.                                                *)
LEMMA PlaceFacts ==
    ASSUME AnalysisType, NEW n \in DOMAIN analysed
    PROVE  /\ \A p \in PlacesOf(n) : /\ p = <<n, p[2], p[3]>> /\ p[2] \in Nat /\ p[3] \in Nat
                                     /\ ComponentAt(p) \in ToolComponents
           /\ \A p \in TurnPlaces(n) : /\ p[2] \in DOMAIN analysed[n].turns /\ p[2] # 0
                                       /\ TurnAt(p).sequence \in Int
<1>1. analysed[n].turns \in Seq(ReadTurns) /\ analysed[n].trailing \in Seq(ToolComponents)
  BY SessionFacts
<1>2. \A i \in DOMAIN analysed[n].turns : /\ i \in Nat /\ i # 0
        /\ analysed[n].turns[i].context \in Seq(ToolComponents)
        /\ analysed[n].turns[i].sequence \in Int
  <2>1. \A i \in DOMAIN analysed[n].turns : i \in Nat /\ i # 0 /\ analysed[n].turns[i] \in ReadTurns
    <3> HIDE DEF ReadTurns
    <3> QED BY <1>1
  <2> QED BY <2>1 DEF ReadTurns
<1>3. ASSUME NEW p \in TrailingPlaces(n)
      PROVE  /\ p = <<n, p[2], p[3]>> /\ p[2] \in Nat /\ p[3] \in Nat
             /\ ComponentAt(p) \in ToolComponents
  <2>1. PICK k \in DOMAIN analysed[n].trailing : p = <<n, 0, k>>
    BY DEF TrailingPlaces
  <2>2. k \in Nat /\ analysed[n].trailing[k] \in ToolComponents
    BY <1>1
  <2> QED BY <2>1, <2>2 DEF ComponentAt
<1>4. ASSUME NEW p \in TurnPlaces(n)
      PROVE  /\ p = <<n, p[2], p[3]>> /\ p[2] \in Nat /\ p[3] \in Nat
             /\ ComponentAt(p) \in ToolComponents
             /\ p[2] \in DOMAIN analysed[n].turns /\ p[2] # 0 /\ TurnAt(p).sequence \in Int
  <2>1. PICK i \in DOMAIN analysed[n].turns :
           \E k \in DOMAIN analysed[n].turns[i].context : p = <<n, i, k>>
    BY DEF TurnPlaces
  <2>2. PICK k \in DOMAIN analysed[n].turns[i].context : p = <<n, i, k>>
    BY <2>1
  <2>3. k \in Nat /\ analysed[n].turns[i].context[k] \in ToolComponents
    BY <1>2
  <2> QED BY <1>2, <2>2, <2>3 DEF ComponentAt, TurnAt
<1> QED BY <1>3, <1>4 DEF PlacesOf

(* A session has finitely many places. *)
LEMMA PlacesFinite ==
    ASSUME AnalysisType, NEW n \in DOMAIN analysed
    PROVE  IsFiniteSet(PlacesOf(n)) /\ IsFiniteSet(TurnPlaces(n))
<1>1. analysed[n].turns \in Seq(ReadTurns) /\ analysed[n].trailing \in Seq(ToolComponents)
  BY SessionFacts
<1>2. \A s, A : s \in Seq(A) => IsFiniteSet(DOMAIN s)
  BY FS_Interval
<1> DEFINE In(i) == {<<n, i, k>> : k \in DOMAIN analysed[n].turns[i].context}
<1>3. ASSUME NEW i \in DOMAIN analysed[n].turns PROVE IsFiniteSet(In(i))
  <2>1. analysed[n].turns[i].context \in Seq(ToolComponents)
    <3>1. analysed[n].turns[i] \in ReadTurns
      <4> HIDE DEF ReadTurns
      <4> QED BY <1>1
    <3> QED BY <3>1 DEF ReadTurns
  <2> DEFINE D == DOMAIN analysed[n].turns[i].context
  <2>2. IsFiniteSet(D)
    BY <1>2, <2>1
  <2> DEFINE f == [k \in D |-> <<n, i, k>>]
  <2>3. In(i) = {f[k] : k \in D}
    OBVIOUS
  <2> HIDE DEF f, D, In
  <2> QED BY <2>2, <2>3, ImageSize
<1> DEFINE D == DOMAIN analysed[n].turns
<1> DEFINE f == [i \in D |-> In(i)]
<1>4. IsFiniteSet({f[i] : i \in D})
  <2>1. IsFiniteSet(D)
    BY <1>1, <1>2
  <2> HIDE DEF f, D
  <2> QED BY <2>1, ImageSize
<1>5. TurnPlaces(n) = UNION {f[i] : i \in D}
  BY DEF TurnPlaces
<1>6. \A T \in {f[i] : i \in D} : IsFiniteSet(T)
  BY <1>3
<1>7. IsFiniteSet(TurnPlaces(n))
  <2> HIDE DEF f, D
  <2> QED BY <1>4, <1>5, <1>6, FS_UNION
<1> DEFINE E == DOMAIN analysed[n].trailing
<1> DEFINE g == [k \in E |-> <<n, 0, k>>]
<1>8. IsFiniteSet(TrailingPlaces(n))
  <2>1. TrailingPlaces(n) = {g[k] : k \in E}
    BY DEF TrailingPlaces
  <2>2. IsFiniteSet(E)
    BY <1>1, <1>2
  <2> HIDE DEF g, E
  <2> QED BY <2>1, <2>2, ImageSize
<1> QED BY <1>7, <1>8, FS_Union DEF PlacesOf

-----------------------------------------------------------------------------
(* What coverage counts, over sessions. *)

Read == DOMAIN analysed

AllPlaces == UNION {PlacesOf(n) : n \in Read}
SessionAt == [p \in AllPlaces |-> p[1]]

LEMMA ReadFinite ==
    ASSUME AnalysisType
    PROVE  IsFiniteSet(Read) /\ IsFiniteSet(AllPlaces) /\ IsFiniteSet(OutputsOf(Read))
<1>1. IsFiniteSet(Read)
  BY FS_Interval DEF AnalysisType, Read
<1> DEFINE f == [n \in Read |-> PlacesOf(n)]
<1>2. IsFiniteSet({f[n] : n \in Read})
  <2> HIDE DEF f
  <2> QED BY <1>1, ImageSize
<1>3. \A T \in {f[n] : n \in Read} : IsFiniteSet(T)
  BY PlacesFinite DEF Read
<1>4. AllPlaces = UNION {f[n] : n \in Read}
  BY DEF AllPlaces
<1>5. IsFiniteSet(AllPlaces)
  <2> HIDE DEF f
  <2> QED BY <1>2, <1>3, <1>4, FS_UNION
<1>6. OutputsOf(Read) \in SUBSET AllPlaces
  BY DEF OutputsOf, AllPlaces
<1> QED BY <1>1, <1>5, <1>6, FS_Subset

(* The places of some of the sessions are those of all that are in them.       *)
LEMMA PlacesOfSome ==
    ASSUME AnalysisType, NEW I \in SUBSET Read
    PROVE  /\ UNION {PlacesOf(n) : n \in I} = {p \in AllPlaces : SessionAt[p] \in I}
           /\ OutputsOf(I) = {p \in OutputsOf(Read) : SessionAt[p] \in I}
           /\ \A p \in AllPlaces : SessionAt[p] \in Read /\ p \in PlacesOf(SessionAt[p])
<1>1. \A n \in Read : \A p \in PlacesOf(n) : p \in AllPlaces /\ SessionAt[p] = n
  BY PlaceFacts DEF AllPlaces, SessionAt, Read
<1>2. UNION {PlacesOf(n) : n \in I} = {p \in AllPlaces : SessionAt[p] \in I}
  <2>1. ASSUME NEW n \in I, NEW p \in PlacesOf(n) PROVE p \in AllPlaces /\ SessionAt[p] \in I
    BY <1>1
  <2>2. ASSUME NEW p \in AllPlaces, SessionAt[p] \in I PROVE p \in UNION {PlacesOf(n) : n \in I}
    <3>1. PICK n \in Read : p \in PlacesOf(n)
      BY DEF AllPlaces
    <3> QED BY <1>1, <2>2, <3>1
  <2> QED BY <2>1, <2>2
<1>3. OutputsOf(I) = {p \in OutputsOf(Read) : SessionAt[p] \in I}
  BY <1>2 DEF OutputsOf, AllPlaces
<1>4. \A p \in AllPlaces : SessionAt[p] \in Read /\ p \in PlacesOf(SessionAt[p])
  BY <1>1 DEF AllPlaces
<1> QED BY <1>2, <1>3, <1>4

(* A count of places adds up over sessions.                                  *)
LEMMA PlacesAdd ==
    ASSUME AnalysisType, NEW T \in SUBSET AllPlaces, NEW c,
           \A I \in SUBSET Read : c[I] = Cardinality(Among(T, SessionAt, I))
    PROVE  AddsOver(c, Read)
<1>1. IsFiniteSet(Read) /\ IsFiniteSet(T)
  BY ReadFinite, FS_Subset
<1>2. \A p \in T : SessionAt[p] \in Read
  BY PlacesOfSome
<1> QED BY <1>1, <1>2, CountsAdd

Counted(f) == [I \in SUBSET Read |-> Scan(I)[f]]

(* Every count of tool outputs is of a part of them.                         *)
LEMMA OutputsAdd ==
    ASSUME AnalysisType, NEW f, NEW T \in SUBSET OutputsOf(Read),
           \A I \in SUBSET Read : Scan(I)[f] = Cardinality(T \cap OutputsOf(I))
    PROVE  AddsOver(Counted(f), Read)
<1>1. T \in SUBSET AllPlaces
  BY DEF OutputsOf, AllPlaces
<1>2. ASSUME NEW I \in SUBSET Read
      PROVE  Counted(f)[I] = Cardinality(Among(T, SessionAt, I))
  <2>1. T \cap OutputsOf(I) = Among(T, SessionAt, I)
    BY PlacesOfSome DEF Among
  <2>2. Counted(f)[I] = Scan(I)[f]
    BY DEF Counted
  <2> QED BY <2>1, <2>2
<1> HIDE DEF Counted
<1> QED BY <1>1, <1>2, PlacesAdd

(* Whatever coverage counts adds up over sessions.                           *)
LEMMA ScanAdds ==
    ASSUME AnalysisType, NEW f \in Counts5
    PROVE  AddsOver(Counted(f), Read)
<1> DEFINE Out == OutputsOf(Read)
<1>0. \A I \in SUBSET Read : OutputsOf(I) \subseteq Out
  BY DEF OutputsOf
<1>1. CASE f = "sessions"
  <2> DEFINE at == [n \in Read |-> n]
  <2>1. \A I \in SUBSET Read : Counted(f)[I] = Cardinality(Among(Read, at, I))
    <3>1. ASSUME NEW I \in SUBSET Read PROVE Counted(f)[I] = Cardinality(Among(Read, at, I))
      <4>1. Among(Read, at, I) = I
        BY DEF Among
      <4>2. Counted(f)[I] = Cardinality(I)
        BY <1>1 DEF Counted, Scan
      <4> QED BY <4>1, <4>2
    <3> QED BY <3>1
  <2>2. \A n \in Read : at[n] \in Read
    OBVIOUS
  <2> HIDE DEF at, Counted
  <2> QED BY <2>1, <2>2, ReadFinite, CountsAdd
<1>2. CASE f = "turns"
  <2> DEFINE w == [n \in Read |-> Len(analysed[n].turns)]
  <2>1. Numbers(w, Read)
    <3>1. ASSUME NEW n \in Read PROVE Len(analysed[n].turns) \in Int
      <4>1. analysed[n].turns \in Seq(ReadTurns)
        BY SessionFacts DEF Read
      <4> QED BY <4>1
    <3> QED BY <3>1 DEF Numbers
  <2>2. ASSUME NEW I \in SUBSET Read PROVE Counted(f)[I] = SumFunctionOnSet(w, I)
    <3> DEFINE v == [n \in I |-> Len(analysed[n].turns)]
    <3>1. OfPart(v, I, w, I) /\ Numbers(w, I)
      BY <2>1 DEF OfPart, Numbers
    <3>2. IsFiniteSet(I)
      BY ReadFinite, FS_Subset
    <3>3. Counted(f)[I] = SumFunctionOnSet(v, I)
      BY <1>2 DEF Counted, Scan
    <3> HIDE DEF v, w, Counted
    <3> QED BY <3>1, <3>2, <3>3, SumOfPart
  <2> HIDE DEF w, Counted
  <2> QED BY <2>1, <2>2, ReadFinite, WeightsAdd
<1>3. CASE f = "unreadableRecords"
  <2> DEFINE T == {p \in AllPlaces : IsUnreadable(p)}
  <2>1. ASSUME NEW I \in SUBSET Read PROVE Counted(f)[I] = Cardinality(Among(T, SessionAt, I))
    <3>1. {p \in UNION {PlacesOf(n) : n \in I} : IsUnreadable(p)} = Among(T, SessionAt, I)
      BY PlacesOfSome DEF Among
    <3>2. Counted(f)[I] = Cardinality({p \in UNION {PlacesOf(n) : n \in I} : IsUnreadable(p)})
      BY <1>3 DEF Counted, Scan
    <3> QED BY <3>1, <3>2
  <2>2. T \in SUBSET AllPlaces
    OBVIOUS
  <2> HIDE DEF T, Counted
  <2> QED BY <2>1, <2>2, PlacesAdd
<1>4. CASE f = "unreadableSessions"
  <2> DEFINE T == {n \in Read : \E p \in PlacesOf(n) : IsUnreadable(p)}
  <2> DEFINE at == [n \in Read |-> n]
  <2>1. ASSUME NEW I \in SUBSET Read PROVE Counted(f)[I] = Cardinality(Among(T, at, I))
    <3>1. {n \in I : \E p \in PlacesOf(n) : IsUnreadable(p)} = Among(T, at, I)
      BY DEF Among
    <3>2. Counted(f)[I] = Cardinality({n \in I : \E p \in PlacesOf(n) : IsUnreadable(p)})
      BY <1>4 DEF Counted, Scan
    <3> QED BY <3>1, <3>2
  <2>2. \A n \in T : at[n] \in Read
    OBVIOUS
  <2>3. IsFiniteSet(T)
    BY ReadFinite, FS_Subset
  <2> HIDE DEF T, at, Counted
  <2> QED BY <2>1, <2>2, <2>3, ReadFinite, CountsAdd
<1>5. CASE f = "toolOutputs"
  <2>1. \A I \in SUBSET Read : Scan(I)[f] = Cardinality(Out \cap OutputsOf(I))
    <3>1. \A I \in SUBSET Read : Out \cap OutputsOf(I) = OutputsOf(I)
      BY <1>0
    <3>2. \A I \in SUBSET Read : Scan(I)[f] = Cardinality(OutputsOf(I))
      BY <1>5 DEF Scan
    <3> QED BY <3>1, <3>2
  <2> HIDE DEF Out
  <2> QED BY <2>1, OutputsAdd DEF Out
<1>6. CASE f = "withContentBytes"
  <2> DEFINE T == {p \in Out : ComponentAt(p).bytes >= 0}
  <2>1. ASSUME NEW I \in SUBSET Read PROVE Scan(I)[f] = Cardinality(T \cap OutputsOf(I))
    <3>1. T \cap OutputsOf(I) = {p \in OutputsOf(I) : ComponentAt(p).bytes >= 0}
      BY <1>0
    <3>2. Scan(I)[f] = Cardinality({p \in OutputsOf(I) : ComponentAt(p).bytes >= 0})
      BY <1>6 DEF Scan, SizedOf
    <3> QED BY <3>1, <3>2
  <2> HIDE DEF T
  <2>2. T \in SUBSET OutputsOf(Read)
    BY DEF T
  <2> QED BY <2>1, <2>2, OutputsAdd
<1>7. CASE f = "withEstimatedTokens"
  <2> DEFINE T == {p \in Out : Estimated(ComponentAt(p).measure)}
  <2>1. ASSUME NEW I \in SUBSET Read PROVE Scan(I)[f] = Cardinality(T \cap OutputsOf(I))
    <3>1. T \cap OutputsOf(I) = {p \in OutputsOf(I) : Estimated(ComponentAt(p).measure)}
      BY <1>0
    <3>2. Scan(I)[f] = Cardinality({p \in OutputsOf(I) : Estimated(ComponentAt(p).measure)})
      BY <1>7 DEF Scan
    <3> QED BY <3>1, <3>2
  <2> HIDE DEF T
  <2>2. T \in SUBSET OutputsOf(Read)
    BY DEF T
  <2> QED BY <2>1, <2>2, OutputsAdd
<1>8. CASE f = "withToolCallID"
  <2> DEFINE T == {p \in Out : ComponentAt(p).call # ""}
  <2>1. ASSUME NEW I \in SUBSET Read PROVE Scan(I)[f] = Cardinality(T \cap OutputsOf(I))
    <3>1. T \cap OutputsOf(I) = {p \in OutputsOf(I) : ComponentAt(p).call # ""}
      BY <1>0
    <3>2. Scan(I)[f] = Cardinality({p \in OutputsOf(I) : ComponentAt(p).call # ""})
      BY <1>8 DEF Scan
    <3> QED BY <3>1, <3>2
  <2> HIDE DEF T
  <2>2. T \in SUBSET OutputsOf(Read)
    BY DEF T
  <2> QED BY <2>1, <2>2, OutputsAdd
<1>9. CASE f = "withToolName"
  <2> DEFINE T == {p \in Out : ComponentAt(p).tool # ""}
  <2>1. ASSUME NEW I \in SUBSET Read PROVE Scan(I)[f] = Cardinality(T \cap OutputsOf(I))
    <3>1. T \cap OutputsOf(I) = {p \in OutputsOf(I) : ComponentAt(p).tool # ""}
      BY <1>0
    <3>2. Scan(I)[f] = Cardinality({p \in OutputsOf(I) : ComponentAt(p).tool # ""})
      BY <1>9 DEF Scan
    <3> QED BY <3>1, <3>2
  <2> HIDE DEF T
  <2>2. T \in SUBSET OutputsOf(Read)
    BY DEF T
  <2> QED BY <2>1, <2>2, OutputsAdd
<1>10. CASE f = "withFreshInput"
  <2> DEFINE T == {p \in Out : Linked(p)}
  <2>1. ASSUME NEW I \in SUBSET Read PROVE Scan(I)[f] = Cardinality(T \cap OutputsOf(I))
    <3>1. T \cap OutputsOf(I) = {p \in OutputsOf(I) : Linked(p)}
      BY <1>0
    <3>2. Scan(I)[f] = Cardinality({p \in OutputsOf(I) : Linked(p)})
      BY <1>10 DEF Scan
    <3> QED BY <3>1, <3>2
  <2> HIDE DEF T
  <2>2. T \in SUBSET OutputsOf(Read)
    BY DEF T
  <2> QED BY <2>1, <2>2, OutputsAdd
<1>11. CASE f = "complete"
  <2> DEFINE T == {p \in Out : ComponentAt(p).completeness = "complete"}
  <2>1. ASSUME NEW I \in SUBSET Read PROVE Scan(I)[f] = Cardinality(T \cap OutputsOf(I))
    <3>1. T \cap OutputsOf(I) = {p \in OutputsOf(I) : ComponentAt(p).completeness = "complete"}
      BY <1>0
    <3>2. Scan(I)[f] = Cardinality({p \in OutputsOf(I) : ComponentAt(p).completeness = "complete"})
      BY <1>11 DEF Scan
    <3> QED BY <3>1, <3>2
  <2> HIDE DEF T
  <2>2. T \in SUBSET OutputsOf(Read)
    BY DEF T
  <2> QED BY <2>1, <2>2, OutputsAdd
<1>12. CASE f = "truncated"
  <2> DEFINE T == {p \in Out : ComponentAt(p).completeness = "truncated"}
  <2>1. ASSUME NEW I \in SUBSET Read PROVE Scan(I)[f] = Cardinality(T \cap OutputsOf(I))
    <3>1. T \cap OutputsOf(I) = {p \in OutputsOf(I) : ComponentAt(p).completeness = "truncated"}
      BY <1>0
    <3>2. Scan(I)[f] = Cardinality({p \in OutputsOf(I) : ComponentAt(p).completeness = "truncated"})
      BY <1>12 DEF Scan
    <3> QED BY <3>1, <3>2
  <2> HIDE DEF T
  <2>2. T \in SUBSET OutputsOf(Read)
    BY DEF T
  <2> QED BY <2>1, <2>2, OutputsAdd
<1>13. CASE f = "unavailable"
  <2> DEFINE T == {p \in Out : ComponentAt(p).completeness = "unavailable"}
  <2>1. ASSUME NEW I \in SUBSET Read PROVE Scan(I)[f] = Cardinality(T \cap OutputsOf(I))
    <3>1. T \cap OutputsOf(I) = {p \in OutputsOf(I) : ComponentAt(p).completeness = "unavailable"}
      BY <1>0
    <3>2. Scan(I)[f] = Cardinality({p \in OutputsOf(I) : ComponentAt(p).completeness = "unavailable"})
      BY <1>13 DEF Scan
    <3> QED BY <3>1, <3>2
  <2> HIDE DEF T
  <2>2. T \in SUBSET OutputsOf(Read)
    BY DEF T
  <2> QED BY <2>1, <2>2, OutputsAdd
<1>14. CASE f = "unknown"
  <2> DEFINE T == {p \in Out : ComponentAt(p).completeness \in {"", "unknown"}}
  <2>1. ASSUME NEW I \in SUBSET Read PROVE Scan(I)[f] = Cardinality(T \cap OutputsOf(I))
    <3>1. T \cap OutputsOf(I) = {p \in OutputsOf(I) : ComponentAt(p).completeness \in {"", "unknown"}}
      BY <1>0
    <3>2. Scan(I)[f] = Cardinality({p \in OutputsOf(I) : ComponentAt(p).completeness \in {"", "unknown"}})
      BY <1>14 DEF Scan
    <3> QED BY <3>1, <3>2
  <2> HIDE DEF T
  <2>2. T \in SUBSET OutputsOf(Read)
    BY DEF T
  <2> QED BY <2>1, <2>2, OutputsAdd
<1>15. CASE f = "trailing"
  <2> DEFINE T == {p \in Out : Trails(p)}
  <2>1. ASSUME NEW I \in SUBSET Read PROVE Scan(I)[f] = Cardinality(T \cap OutputsOf(I))
    <3>1. T \cap OutputsOf(I) = {p \in OutputsOf(I) : Trails(p)}
      BY <1>0
    <3>2. Scan(I)[f] = Cardinality({p \in OutputsOf(I) : Trails(p)})
      BY <1>15 DEF Scan
    <3> QED BY <3>1, <3>2
  <2> HIDE DEF T
  <2>2. T \in SUBSET OutputsOf(Read)
    BY DEF T
  <2> QED BY <2>1, <2>2, OutputsAdd
<1> QED
  BY <1>1, <1>2, <1>3, <1>4, <1>5, <1>6, <1>7, <1>8, <1>9, <1>10, <1>11, <1>12, <1>13, <1>14, <1>15 DEF Counts5

-----------------------------------------------------------------------------
(* Percentiles. *)

(* The k-th of the sizes in order has less than k below it, and k up to it.    *)
LEMMA SortedFacts ==
    ASSUME NEW P, IsFiniteSet(P), \A p \in P : ComponentAt(p).bytes \in Nat,
           NEW k \in 1..Cardinality(P)
    PROVE  /\ SizesBelow(P, SortedSizes(P)[k]) \in Nat /\ SizesUpTo(P, SortedSizes(P)[k]) \in Nat
           /\ SizesBelow(P, SortedSizes(P)[k]) < k /\ k <= SizesUpTo(P, SortedSizes(P)[k])
<1> DEFINE f == [p \in P |-> ComponentAt(p).bytes]
<1> DEFINE V == {f[p] : p \in P}
<1> DEFINE Below(v) == {p \in P : f[p] < v}
<1> DEFINE UpTo2(v) == {p \in P : f[p] <= v}
<1>1. /\ V \subseteq Nat /\ IsFiniteSet(V) /\ Cardinality(P) \in Nat /\ P # {} /\ V # {}
      /\ \A p \in P : f[p] \in V
  <2>1. IsFiniteSet(V)
    <3> HIDE DEF f
    <3> QED BY ImageSize
  <2>2. Cardinality(P) \in Nat /\ P # {}
    BY FS_CardinalityType, FS_EmptySet
  <2> QED BY <2>1, <2>2
<1>2. \A v : /\ IsFiniteSet(Below(v)) /\ Cardinality(Below(v)) \in Nat
             /\ IsFiniteSet(UpTo2(v)) /\ Cardinality(UpTo2(v)) \in Nat
  <2> SUFFICES ASSUME NEW v
               PROVE  /\ IsFiniteSet(Below(v)) /\ Cardinality(Below(v)) \in Nat
                      /\ IsFiniteSet(UpTo2(v)) /\ Cardinality(UpTo2(v)) \in Nat
    OBVIOUS
  <2>1. Below(v) \in SUBSET P /\ UpTo2(v) \in SUBSET P
    OBVIOUS
  <2> HIDE DEF Below, UpTo2
  <2> QED BY <2>1, FS_Subset, FS_CardinalityType
<1>3. \A v : SizesBelow(P, v) = Cardinality(Below(v)) /\ SizesUpTo(P, v) = Cardinality(UpTo2(v))
  <2> SUFFICES ASSUME NEW v
               PROVE  SizesBelow(P, v) = Cardinality(Below(v)) /\ SizesUpTo(P, v) = Cardinality(UpTo2(v))
    OBVIOUS
  <2>1. Below(v) = {p \in P : ComponentAt(p).bytes < v} /\ UpTo2(v) = {p \in P : ComponentAt(p).bytes <= v}
    OBVIOUS
  <2> HIDE DEF Below, UpTo2
  <2> QED BY <2>1 DEF SizesBelow, SizesUpTo
<1>4. V = {ComponentAt(p).bytes : p \in P}
  OBVIOUS
<1> DEFINE T == {v \in V : k <= Cardinality(UpTo2(v))}
<1>5. T # {}
  <2>1. Max(V) \in V /\ \A n \in V : n <= Max(V)
    <3> HIDE DEF V
    <3> QED BY <1>1, GreatestNumber
  <2>2. UpTo2(Max(V)) = P
    <3> DEFINE m == Max(V)
    <3>1. \A p \in P : f[p] <= m
      <4> HIDE DEF f, m
      <4> QED BY <2>1 DEF m
    <3> HIDE DEF m
    <3> QED BY <3>1 DEF m
  <2> HIDE DEF V, UpTo2
  <2> QED BY <1>1, <2>1, <2>2
<1>6. PICK v \in T : \A u \in T : v <= u
  <2>1. T \subseteq Nat
    BY <1>1
  <2> HIDE DEF T
  <2> QED BY <1>5, <2>1, LeastNumber
<1>7. v \in V /\ v \in Nat /\ k <= Cardinality(UpTo2(v))
  <2> HIDE DEF V, UpTo2
  <2> QED BY <1>1, <1>6
<1>8. Cardinality(Below(v)) < k
  <2>0. Cardinality(Below(v)) \in Nat /\ k \in Nat /\ k >= 1
    <3> HIDE DEF V, Below, UpTo2, T
    <3> QED BY <1>1, <1>2
  <2> SUFFICES ASSUME Cardinality(Below(v)) >= k PROVE FALSE
    BY <2>0
  <2> DEFINE L == {f[p] : p \in Below(v)}
  <2>1. L \subseteq V /\ \A u \in L : u < v
    OBVIOUS
  <2>2. Below(v) # {}
    <3> HIDE DEF Below, L, V, T
    <3> QED BY <2>0, FS_EmptySet
  <2>3. L # {}
    BY <2>2
  <2>4. IsFiniteSet(L) /\ L \subseteq Nat
    <3> HIDE DEF L, V
    <3> QED BY <1>1, <2>1, FS_Subset
  <2> DEFINE u == Max(L)
  <2>5. u \in L /\ \A n \in L : n <= u
    <3> HIDE DEF L
    <3> QED BY <2>3, <2>4, GreatestNumber
  <2> HIDE DEF u
  <2>6. Below(v) \subseteq UpTo2(u)
    BY <2>5
  <2>7. k <= Cardinality(UpTo2(u))
    <3> HIDE DEF Below, UpTo2
    <3> QED BY <1>2, <2>6, FS_Subset
  <2>8. u \in V /\ u < v /\ u \in Nat
    <3> HIDE DEF L, V
    <3> QED BY <1>1, <2>1, <2>5
  <2>9. u \in T
    <3> HIDE DEF V, UpTo2
    <3> QED BY <2>7, <2>8
  <2> HIDE DEF T
  <2> QED BY <1>6, <1>7, <2>8, <2>9
<1> HIDE DEF V, T, f, Below, UpTo2
<1> DEFINE s == SortedSizes(P)[k]
<1>9. s = CHOOSE x \in V : SizesBelow(P, x) < k /\ k <= SizesUpTo(P, x)
  BY <1>4 DEF SortedSizes
<1>10. SizesBelow(P, s) < k /\ k <= SizesUpTo(P, s)
  <2>1. SizesBelow(P, v) < k /\ k <= SizesUpTo(P, v)
    BY <1>3, <1>7, <1>8
  <2> HIDE DEF s
  <2> QED BY <1>7, <1>9, <2>1
<1> QED BY <1>2, <1>3, <1>10

(* A nearest-rank percentile is a percentile.                                *)
LEMMA PercentileFacts ==
    ASSUME NEW P, IsFiniteSet(P), P # {}, \A p \in P : ComponentAt(p).bytes \in Nat
    PROVE  LET sorted == SortedSizes(P)
           IN  /\ \A percent \in {50, 90, 95} : IsPercentile(Percentile(sorted, percent), P, percent)
               /\ IsPercentile(sorted[Len(sorted)], P, 100)
<1> DEFINE sorted == SortedSizes(P)
<1> DEFINE n == Cardinality(P)
<1>1. n \in Nat /\ n # 0
  BY FS_CardinalityType, FS_EmptySet
<1>2. Len(sorted) = n
  BY <1>1 DEF SortedSizes
<1>3. ASSUME NEW k \in 1..n, NEW percent \in Nat, 100 * k >= percent * n, 100 * (k - 1) < percent * n
      PROVE  IsPercentile(sorted[k], P, percent)
  <2> DEFINE b == SizesBelow(P, sorted[k])
  <2> DEFINE u == SizesUpTo(P, sorted[k])
  <2>1. b \in Nat /\ u \in Nat /\ b < k /\ k <= u
    BY SortedFacts
  <2> DEFINE m == percent * n
  <2>2. m \in Nat /\ 100 * k >= m /\ 100 * (k - 1) < m
    BY <1>1, <1>3
  <2> HIDE DEF b, u, m, n, sorted
  <2>3. 100 * u >= m /\ 100 * b < m
    BY <2>1, <2>2 DEF n
  <2> QED BY <2>3 DEF IsPercentile, m, n, b, u
<1> HIDE DEF n, sorted
<1>4. ASSUME NEW percent \in {50, 90, 95} PROVE IsPercentile(Percentile(sorted, percent), P, percent)
  <2> DEFINE k == (percent * n + 99) \div 100
  <2>1. k \in 1..n /\ 100 * k >= percent * n /\ 100 * (k - 1) < percent * n
    BY <1>1
  <2>2. Percentile(sorted, percent) = sorted[Max({1, Min({n, k})})]
    BY <1>2 DEF Percentile
  <2>3. Min({n, k}) = k /\ Max({1, k}) = k
    <3>1. k \in 1..n
      BY <2>1
    <3> HIDE DEF k
    <3>2. k \in Int /\ n \in Int /\ 1 \in Int /\ k <= n /\ 1 <= k
      BY <1>1, <3>1
    <3> QED BY <3>2, TwoNumbers
  <2>4. percent \in Nat
    OBVIOUS
  <2>5. IsPercentile(sorted[k], P, percent)
    <3> HIDE DEF k
    <3> QED BY <1>3, <2>1, <2>4
  <2> HIDE DEF k
  <2> QED BY <2>2, <2>3, <2>5
<1>5. IsPercentile(sorted[n], P, 100)
  BY <1>1, <1>3
<1> QED BY <1>2, <1>4, <1>5 DEF sorted

-----------------------------------------------------------------------------
(* Coverage. *)

(* An output is complete, truncated, unavailable or of unknown completeness.  *)
LEMMA ClassesPartition ==
    ASSUME AnalysisType
    PROVE  LET c == CoverageAll IN c.toolOutputs = c.complete + c.truncated + c.unavailable + c.unknown
<1> DEFINE Out == OutputsOf(Read)
<1> DEFINE A == {p \in Out : ComponentAt(p).completeness = "complete"}
<1> DEFINE B == {p \in Out : ComponentAt(p).completeness = "truncated"}
<1> DEFINE C == {p \in Out : ComponentAt(p).completeness = "unavailable"}
<1> DEFINE D == {p \in Out : ComponentAt(p).completeness \in {"", "unknown"}}
<1>1. /\ CoverageAll.toolOutputs = Cardinality(Out) /\ CoverageAll.complete = Cardinality(A)
      /\ CoverageAll.truncated = Cardinality(B) /\ CoverageAll.unavailable = Cardinality(C)
      /\ CoverageAll.unknown = Cardinality(D)
  BY DEF CoverageAll, Scan, Read
<1>2. IsFiniteSet(Out) /\ Out \subseteq AllPlaces
  BY ReadFinite DEF OutputsOf, AllPlaces
<1>3. \A p \in Out : ComponentAt(p).completeness \in {"complete", "truncated", "unavailable", "unknown", ""}
  <2>1. \A p \in AllPlaces : ComponentAt(p) \in ToolComponents
    BY PlaceFacts DEF AllPlaces, Read
  <2> HIDE DEF Out
  <2> QED BY <1>2, <2>1, AnalysisAssumption DEF AnalysisAssumption
<1> DEFINE E == A \cup B
<1>4. Out = E \cup C \cup D /\ E \cap C = {} /\ E \cap D = {} /\ C \cap D = {}
  <2> HIDE DEF Out
  <2> QED BY <1>3
<1>5. IsFiniteSet(A) /\ IsFiniteSet(B) /\ A \cap B = {}
  <2>1. A \in SUBSET Out /\ B \in SUBSET Out /\ A \cap B = {}
    OBVIOUS
  <2> HIDE DEF A, B, Out
  <2> QED BY <1>2, <2>1, FS_Subset
<1> HIDE DEF A, B, C, D, Out
<1>6. /\ Cardinality(E) = Cardinality(A) + Cardinality(B)
      /\ Cardinality(A) \in Nat /\ Cardinality(B) \in Nat
  <2>1. Cardinality(A) \in Nat /\ Cardinality(B) \in Nat
    BY <1>5, FS_CardinalityType
  <2>2. Cardinality(A \cap B) = 0
    BY <1>5, FS_EmptySet
  <2>3. Cardinality(E) = Cardinality(A) + Cardinality(B) - Cardinality(A \cap B)
    BY <1>5, FS_Union
  <2> QED BY <2>1, <2>2, <2>3
<1> HIDE DEF E
<1>7. /\ Cardinality(C) \in Nat /\ Cardinality(D) \in Nat
      /\ Cardinality(Out) = Cardinality(E) + Cardinality(C) + Cardinality(D)
  <2>1. IsFiniteSet(Out)
    BY <1>2
  <2>2. Out = E \cup C \cup D
    BY <1>4
  <2>3. E \cap C = {} /\ E \cap D = {} /\ C \cap D = {}
    BY <1>4
  <2>4. Cardinality(Out) = Cardinality(E) + Cardinality(C) + Cardinality(D)
    BY <2>1, <2>2, <2>3, ThreeParts
  <2>5. IsFiniteSet(C) /\ IsFiniteSet(D)
    BY <2>1, <2>2, FS_Subset
  <2> QED BY <2>4, <2>5, FS_CardinalityType
<1> QED BY <1>1, <1>6, <1>7

(* Coverage's sizes are of the outputs whose size is known.                   *)
LEMMA SizesArePercentiles ==
    ASSUME AnalysisType, SizedOf(Read) # {}
    PROVE  LET bytes == CoverageAll.bytes
               sized == SizedOf(Read)
           IN  /\ IsPercentile(bytes.p50, sized, 50) /\ IsPercentile(bytes.p90, sized, 90)
               /\ IsPercentile(bytes.p95, sized, 95) /\ IsPercentile(bytes.max, sized, 100)
<1> DEFINE P == SizedOf(Read)
<1> DEFINE sorted == SortedSizes(P)
<1>1. P \in SUBSET OutputsOf(Read) /\ P # {} /\ \A p \in P : ComponentAt(p).bytes >= 0
  BY DEF SizedOf
<1>2. \A p \in OutputsOf(Read) : ComponentAt(p).bytes \in Nat \cup {-1}
  <2>1. \A p \in AllPlaces : ComponentAt(p) \in ToolComponents
    BY PlaceFacts DEF AllPlaces, Read
  <2>2. OutputsOf(Read) \subseteq AllPlaces
    BY DEF OutputsOf, AllPlaces
  <2> QED BY <2>1, <2>2, AnalysisAssumption DEF AnalysisAssumption
<1>3. IsFiniteSet(P)
  BY <1>1, ReadFinite, FS_Subset
<1>4. CoverageAll.bytes = ByteStats(P, sorted)
  BY DEF CoverageAll, Scan, Read
<1> HIDE DEF P, sorted
<1>5. \A p \in P : ComponentAt(p).bytes \in Nat
  BY <1>1, <1>2
<1>6. /\ \A percent \in {50, 90, 95} : IsPercentile(Percentile(sorted, percent), P, percent)
      /\ IsPercentile(sorted[Len(sorted)], P, 100)
  BY <1>1, <1>3, <1>5, PercentileFacts DEF sorted
<1>7. /\ CoverageAll.bytes.p50 = Percentile(sorted, 50) /\ CoverageAll.bytes.p90 = Percentile(sorted, 90)
      /\ CoverageAll.bytes.p95 = Percentile(sorted, 95) /\ CoverageAll.bytes.max = sorted[Len(sorted)]
  BY <1>1, <1>4 DEF ByteStats
<1>8. 50 \in {50, 90, 95} /\ 90 \in {50, 90, 95} /\ 95 \in {50, 90, 95}
  OBVIOUS
<1> QED BY <1>6, <1>7, <1>8 DEF P

LEMMA CoverageInv == AnalysisType => CoverageAddsUp
<1> SUFFICES ASSUME AnalysisType PROVE CoverageAddsUp
  OBVIOUS
<1> DEFINE claude == CoverageSource("claude")
<1> DEFINE codex == CoverageSource("codex")
<1> DEFINE each == StrictSequence([n \in DOMAIN analysed |-> CoverageSession(n)])
<1>1. DOMAIN each = Read /\ \A n \in Read : each[n] = Scan({n})
  <2> DEFINE s == [n \in DOMAIN analysed |-> CoverageSession(n)]
  <2>1. DOMAIN s = 1..Len(analysed) /\ Len(analysed) \in Nat
    BY DEF AnalysisType
  <2>2. IsSequence(s)
    <3>1. s = [n \in 1..Len(analysed) |-> s[n]]
      BY <2>1
    <3> HIDE DEF s
    <3> QED BY <2>1, <3>1, MappingIsSequence
  <2>3. each = s
    <3> HIDE DEF s
    <3>1. s \o <<>> = s
      BY <2>2, JoinedWithNothing
    <3> QED BY <3>1 DEF StrictSequence, s
  <2>4. DOMAIN s = Read /\ \A n \in Read : s[n] = Scan({n})
    BY DEF Read, CoverageSession
  <2> HIDE DEF s, each
  <2> QED BY <2>3, <2>4
<1> HIDE DEF each
<1>2. ASSUME NEW f \in Counts5
      PROVE  /\ CoverageAll[f] = claude[f] + codex[f]
             /\ CoverageAll[f] = SumFunctionOnSet([n \in DOMAIN each |-> each[n][f]], DOMAIN each)
  <2> DEFINE c == Counted(f)
  <2>1. AddsOver(c, Read)
    BY ScanAdds
  <2> DEFINE A == OfSource("claude")
  <2> DEFINE B == OfSource("codex")
  <2>2. A \in SUBSET Read /\ B \in SUBSET Read /\ A \cap B = {} /\ A \cup B = Read
    BY SessionFacts DEF OfSource, Read
  <2>3. c[A] = claude[f] /\ c[B] = codex[f] /\ c[Read] = CoverageAll[f]
    <3>1. \A I \in SUBSET Read : c[I] = Scan(I)[f]
      BY DEF Counted
    <3> HIDE DEF c, A, B
    <3>2. c[A] = Scan(A)[f] /\ c[B] = Scan(B)[f] /\ c[Read] = Scan(Read)[f]
      BY <2>2, <3>1
    <3> QED BY <3>2 DEF CoverageSource, CoverageAll, Read, A, B
  <2> DEFINE u == [n \in Read |-> each[n][f]]
  <2>4. \A n \in Read : u[n] = c[{n}]
    BY <1>1 DEF Counted
  <2> HIDE DEF c, A, B
  <2>5. c[Read] = c[A] + c[B]
    BY <2>1, <2>2 DEF AddsOver
  <2>6. c[Read] = SumFunctionOnSet(u, Read)
    <3> HIDE DEF u
    <3> QED BY <2>1, <2>4 DEF AddsOver
  <2> QED BY <1>1, <2>3, <2>5, <2>6
<1> HIDE DEF claude, codex
<1>3. LET c == CoverageAll IN c.toolOutputs = c.complete + c.truncated + c.unavailable + c.unknown
  BY ClassesPartition
<1>4. SizedOf(Read) # {} =>
        /\ IsPercentile(CoverageAll.bytes.p50, SizedOf(Read), 50)
        /\ IsPercentile(CoverageAll.bytes.p90, SizedOf(Read), 90)
        /\ IsPercentile(CoverageAll.bytes.p95, SizedOf(Read), 95)
        /\ IsPercentile(CoverageAll.bytes.max, SizedOf(Read), 100)
  BY SizesArePercentiles
<1> QED BY <1>2, <1>3, <1>4 DEF CoverageAddsUp, Read, claude, codex, each

(* However sessions are grouped, coverage counts every component once, and its *)
(* percentiles are percentiles.                                              *)
THEOREM CoverageIsOfAll == AnalysisSpec => []CoverageAddsUp
BY AnalysisTypeHolds, CoverageInv, PTL

-----------------------------------------------------------------------------
(* Sessions in the order of their turns. *)

TurnOrder(n) == {e \in TurnPlaces(n) \X TurnPlaces(n) : Precedes(e[1], e[2])}

LEMMA PlacesAreOrdered ==
    ASSUME AnalysisType, NEW n \in DOMAIN analysed
    PROVE  /\ StrictOrder(TurnOrder(n), TurnPlaces(n))
           /\ \A p, q \in TurnPlaces(n) : <<p, q>> \in TurnOrder(n) <=> Precedes(p, q)
           /\ \A p, q \in TurnPlaces(n) : Precedes(p, q) => TurnAt(p).sequence <= TurnAt(q).sequence
<1> DEFINE P == TurnPlaces(n)
<1> DEFINE at == [p \in P |-> TurnAt(p).sequence]
<1>1. \A p \in P : /\ p = <<n, p[2], p[3]>> /\ p[2] \in Nat /\ p[3] \in Nat /\ at[p] \in Int
                   /\ TurnAt(p).sequence = at[p]
  <2>1. \A p \in P : p \in PlacesOf(n)
    BY DEF PlacesOf
  <2> QED BY <2>1, PlaceFacts
<1>2. \A p, q \in P : p[2] = q[2] => at[p] = at[q]
  <2>1. \A p, q \in P : p[1] = n /\ q[1] = n
    BY <1>1
  <2> QED BY <2>1 DEF TurnAt
<1>3. \A p, q \in P : <<p, q>> \in TurnOrder(n) <=> Precedes(p, q)
  BY DEF TurnOrder
<1>4. \A p, q \in P :
        Precedes(p, q) <=> (\/ p[2] # q[2] /\ at[p] < at[q]
                            \/ p[2] < q[2] /\ at[p] = at[q]
                            \/ p[2] = q[2] /\ p[3] < q[3])
  BY <1>1 DEF Precedes
<1> HIDE DEF P, at
<1>5. \A p \in P : ~ Precedes(p, p)
  BY <1>1, <1>4
<1>6. \A p, q \in P : p = q \/ Precedes(p, q) \/ Precedes(q, p)
  <2>1. ASSUME NEW p \in P, NEW q \in P, p # q PROVE Precedes(p, q) \/ Precedes(q, p)
    <3>1. p[2] # q[2] \/ p[3] # q[3]
      BY <1>1, <2>1
    <3> QED BY <1>1, <1>4, <3>1
  <2> QED BY <2>1
<1>7. \A p, q, r \in P : Precedes(p, q) /\ Precedes(q, r) => Precedes(p, r)
  <2>1. ASSUME NEW p \in P, NEW q \in P, NEW r \in P, Precedes(p, q), Precedes(q, r)
        PROVE  Precedes(p, r)
    <3>1. /\ p[2] \in Nat /\ q[2] \in Nat /\ r[2] \in Nat /\ p[3] \in Nat /\ q[3] \in Nat /\ r[3] \in Nat
          /\ at[p] \in Int /\ at[q] \in Int /\ at[r] \in Int
          /\ p[2] = q[2] => at[p] = at[q]
          /\ q[2] = r[2] => at[q] = at[r]
          /\ p[2] = r[2] => at[p] = at[r]
      BY <1>1, <1>2
    <3>2. /\ \/ p[2] # q[2] /\ at[p] < at[q]
             \/ p[2] < q[2] /\ at[p] = at[q]
             \/ p[2] = q[2] /\ p[3] < q[3]
          /\ \/ q[2] # r[2] /\ at[q] < at[r]
             \/ q[2] < r[2] /\ at[q] = at[r]
             \/ q[2] = r[2] /\ q[3] < r[3]
      BY <1>4, <2>1
    <3>3. \/ p[2] # r[2] /\ at[p] < at[r]
          \/ p[2] < r[2] /\ at[p] = at[r]
          \/ p[2] = r[2] /\ p[3] < r[3]
      BY <3>1, <3>2
    <3> QED BY <1>4, <3>3
  <2> QED BY <2>1
<1>8. \A p, q \in P : Precedes(p, q) => at[p] <= at[q]
  BY <1>1, <1>2, <1>4
<1>9. StrictOrder(TurnOrder(n), P)
  <2> HIDE DEF Precedes
  <2>1. \A p \in P : <<p, p>> \notin TurnOrder(n)
    BY <1>3, <1>5
  <2>2. \A p, q \in P : p = q \/ <<p, q>> \in TurnOrder(n) \/ <<q, p>> \in TurnOrder(n)
    BY <1>3, <1>6
  <2>3. \A p, q, r \in P : <<p, q>> \in TurnOrder(n) /\ <<q, r>> \in TurnOrder(n) => <<p, r>> \in TurnOrder(n)
    BY <1>3, <1>7
  <2> QED BY <2>1, <2>2, <2>3 DEF StrictOrder
<1> QED BY <1>1, <1>3, <1>8, <1>9 DEF P, at

(* Every place once, each after those that precede it.                       *)
LEMMA TurnOrderFacts ==
    ASSUME AnalysisType, NEW n \in DOMAIN analysed
    PROVE  LET P == TurnPlaces(n)
               m == Cardinality(P)
               t == InTurnOrder(P)
           IN  /\ m \in Nat /\ IsSequence(t) /\ DOMAIN t = 1..m
               /\ \A k \in 1..m : t[k] \in P
               /\ \A p \in P : \E k \in 1..m : t[k] = p
               /\ \A j, k \in 1..m : j < k => Precedes(t[j], t[k])
<1> DEFINE P == TurnPlaces(n)
<1> DEFINE m == Cardinality(P)
<1> DEFINE t == InTurnOrder(P)
<1> DEFINE R == TurnOrder(n)
<1> DEFINE rank == [p \in P |-> Cardinality(Under(R, P, p))]
<1>1. IsFiniteSet(P) /\ m \in Nat
  BY PlacesFinite, FS_CardinalityType
<1>2. /\ StrictOrder(R, P) /\ \A p, q \in P : <<p, q>> \in R <=> Precedes(p, q)
  BY PlacesAreOrdered
<1>3. /\ \A p \in P : rank[p] \in 0..(m - 1)
      /\ \A p, q \in P : <<p, q>> \in R => rank[p] < rank[q]
      /\ \A k \in 1..m : \E p \in P : rank[p] = k - 1
  <2>1. \A p \in P : rank[p] = Cardinality(Under(R, P, p))
    OBVIOUS
  <2> HIDE DEF rank, R, P
  <2> QED BY <1>1, <1>2, <2>1, NumbersInOrder DEF m
<1>4. \A p \in P : Cardinality({q \in P : Precedes(q, p)}) = rank[p]
  <2>1. ASSUME NEW p \in P PROVE Cardinality({q \in P : Precedes(q, p)}) = rank[p]
    <3>1. {q \in P : Precedes(q, p)} = Under(R, P, p)
      <4> HIDE DEF R, P
      <4> QED BY <1>2 DEF Under
    <3> QED BY <3>1
  <2> QED BY <2>1
<1>5. \A k \in 1..m : t[k] = CHOOSE p \in P : Cardinality({q \in P : Precedes(q, p)}) = k - 1
  BY DEF InTurnOrder
<1>6. t = [k \in 1..m |-> t[k]]
  BY DEF InTurnOrder
<1> HIDE DEF P, m, t, R, rank
<1>7. ASSUME NEW k \in 1..m PROVE t[k] \in P /\ rank[t[k]] = k - 1
  <2>1. PICK p \in P : rank[p] = k - 1
    BY <1>3
  <2>2. Cardinality({q \in P : Precedes(q, p)}) = k - 1
    BY <1>4, <2>1
  <2>3. t[k] \in P /\ Cardinality({q \in P : Precedes(q, t[k])}) = k - 1
    BY <1>5, <2>2
  <2> QED BY <1>4, <2>3
<1>8. \A p, q \in P : rank[p] = rank[q] => p = q
  <2>1. ASSUME NEW p \in P, NEW q \in P, rank[p] = rank[q], p # q PROVE FALSE
    <3>1. <<p, q>> \in R \/ <<q, p>> \in R
      BY <1>2, <2>1 DEF StrictOrder
    <3>2. rank[p] < rank[q] \/ rank[q] < rank[p]
      BY <1>3, <3>1
    <3>3. rank[p] \in Int /\ rank[q] \in Int
      BY <1>1, <1>3
    <3> QED BY <2>1, <3>2, <3>3
  <2> QED BY <2>1
<1>9. ASSUME NEW p \in P PROVE \E k \in 1..m : t[k] = p
  <2> DEFINE k == rank[p] + 1
  <2>1. k \in 1..m /\ rank[p] = k - 1
    BY <1>1, <1>3
  <2> HIDE DEF k
  <2>2. t[k] \in P /\ rank[t[k]] = rank[p]
    BY <1>7, <2>1
  <2> QED BY <1>8, <2>1, <2>2
<1>10. ASSUME NEW j \in 1..m, NEW k \in 1..m, j < k PROVE Precedes(t[j], t[k])
  <2>1. t[j] \in P /\ t[k] \in P /\ rank[t[j]] = j - 1 /\ rank[t[k]] = k - 1
    BY <1>7
  <2>2. j - 1 < k - 1 /\ j \in Int /\ k \in Int
    BY <1>1, <1>10
  <2>3. t[j] # t[k] /\ <<t[k], t[j]>> \notin R
    BY <1>3, <2>1, <2>2
  <2> QED BY <1>2, <2>1, <2>3 DEF StrictOrder
<1>11. IsSequence(t) /\ DOMAIN t = 1..m
  <2>1. IsSequence(t)
    BY <1>1, <1>6, MappingIsSequence
  <2>2. DOMAIN t = 1..m
    BY <1>6
  <2> QED BY <2>1, <2>2
<1> QED BY <1>1, <1>7, <1>9, <1>10, <1>11 DEF P, m, t

-----------------------------------------------------------------------------
(* Occurrences of a repeated call. *)

(* Looking at the places one after the other is what Occurrences does.         *)
SeenFold(g, t, key) ==
    /\ g[{}] = <<>>
    /\ \A T \in SUBSET DOMAIN t : T # {} => g[T] = Observe(g[T \ {Max(T)}], t[Max(T)], key)

LEMMA ResultsAreFolded ==
    ASSUME NEW t, IsSequence(t), NEW P, \A k \in DOMAIN t : t[k] \in P, NEW key
    PROVE  \E g : /\ SeenFold(g, t, key) /\ \A T \in SUBSET DOMAIN t : g[T] \in Seq(P)
                  /\ ObserveAll(t, key) = g[DOMAIN t]
<1> DEFINE D == DOMAIN t
<1> DEFINE V == Seq(P)
<1> DEFINE H(h) == [T \in SUBSET D |-> IF T = {} THEN <<>> ELSE Observe(h[T \ {Max(T)}], t[Max(T)], key)]
<1>1. D \subseteq Nat /\ IsFiniteSet(D)
  BY SequenceFacts, FiniteNumbers
<1>2. \A T \in SUBSET D : T # {} => Max(T) \in T
  BY <1>1, FS_Subset, GreatestNumber
<1>3. \A i \in D : \A s \in V : Observe(s, t[i], key) \in V
  BY DEF Observe
<1>4. <<>> \in V
  OBVIOUS
<1>5. \E h : h = H(h)
  <2> DEFINE step == [q \in D \X V |-> Observe(q[2], t[q[1]], key)]
  <2>1. step \in [D \X V -> V]
    <3> HIDE DEF V, D
    <3> QED BY <1>3
  <2>2. PICK h \in [SUBSET D -> V] : Folds(h, D, <<>>, step)
    <3> HIDE DEF step, V, D
    <3> QED BY <1>1, <1>4, <2>1, FoldExists
  <2>3. ASSUME NEW T \in SUBSET D, T # {}
        PROVE  step[<<Max(T), h[T \ {Max(T)}]>>] = Observe(h[T \ {Max(T)}], t[Max(T)], key)
    <3>1. Max(T) \in D /\ h[T \ {Max(T)}] \in V
      BY <1>2, <2>3
    <3> HIDE DEF V, D
    <3> QED BY <3>1
  <2>4. \A T \in SUBSET D : h[T] = IF T = {} THEN <<>> ELSE Observe(h[T \ {Max(T)}], t[Max(T)], key)
    <3> HIDE DEF step, V, D
    <3> QED BY <2>2, <2>3 DEF Folds
  <2>5. h = H(h)
    <3> HIDE DEF step, V, D
    <3> QED BY <2>4
  <2> HIDE DEF H
  <2> QED BY <2>5
<1> DEFINE g == CHOOSE h : h = H(h)
<1>6. g = H(g)
  <2> HIDE DEF H
  <2> QED BY <1>5
<1>7. ObserveAll(t, key) = g[D]
  BY DEF ObserveAll, FoldLeft, MapThenFoldSet
<1> HIDE DEF g
<1>8. SeenFold(g, t, key)
  <2>1. g[{}] = <<>>
    BY <1>6
  <2>2. ASSUME NEW T \in SUBSET D, T # {} PROVE g[T] = Observe(g[T \ {Max(T)}], t[Max(T)], key)
    BY <1>6, <2>2
  <2> QED BY <2>1, <2>2 DEF SeenFold
<1>9. \A T \in SUBSET D : g[T] \in V
  <2> DEFINE W == {T \in SUBSET D : g[T] \in V}
  <2>1. ASSUME NEW T \in SUBSET D, \A x \in T : T \ {x} \in W PROVE T \in W
    <3>1. CASE T = {}
      BY <1>4, <1>8, <3>1 DEF SeenFold
    <3>2. CASE T # {}
      <4>1. Max(T) \in T /\ Max(T) \in D /\ g[T \ {Max(T)}] \in V
        BY <1>2, <2>1, <3>2
      <4> HIDE DEF V
      <4>2. g[T] = Observe(g[T \ {Max(T)}], t[Max(T)], key)
        BY <1>8, <3>2 DEF SeenFold
      <4> QED BY <1>3, <4>1, <4>2
    <3> QED BY <3>1, <3>2
  <2>2. SUBSET D \subseteq W
    <3> HIDE DEF W, D
    <3> QED BY <1>1, <2>1, SubsetsByInduction
  <2> QED BY <2>2
<1> QED BY <1>7, <1>8, <1>9

Repeats(n, key) ==
    {p \in TurnPlaces(n) : RepeatCandidate(ComponentAt(p)) /\ RepeatKey(ComponentAt(p)) = key}

CallAt(p) == ComponentAt(p).call

(* The first results of calls: s has one of each call in A, of no other, and   *)
(* begins with the first of A in t's order.                                  *)
FirstOfEach(s, A) ==
    /\ \A i \in DOMAIN s : s[i] \in A
    /\ \A i, j \in DOMAIN s : CallAt(s[i]) = CallAt(s[j]) => i = j
    /\ \A p \in A : \E i \in DOMAIN s : CallAt(s[i]) = CallAt(p)
    /\ A # {} => 1 \in DOMAIN s /\ \A p \in A : p = s[1] \/ Precedes(s[1], p)

LEMMA OccurrenceFacts ==
    ASSUME AnalysisType, NEW n \in DOMAIN analysed, NEW key
    PROVE  /\ Occurrences(n, key) \in Seq(TurnPlaces(n))
           /\ FirstOfEach(Occurrences(n, key), Repeats(n, key))
<1> DEFINE P == TurnPlaces(n)
<1> DEFINE m == Cardinality(P)
<1> DEFINE t == InTurnOrder(P)
<1>1. /\ m \in Nat /\ IsSequence(t) /\ DOMAIN t = 1..m
      /\ \A k \in 1..m : t[k] \in P
      /\ \A p \in P : \E k \in 1..m : t[k] = p
      /\ \A j, k \in 1..m : j < k => Precedes(t[j], t[k])
  BY TurnOrderFacts
<1>2. PICK g : /\ SeenFold(g, t, key) /\ \A T \in SUBSET DOMAIN t : g[T] \in Seq(P)
               /\ ObserveAll(t, key) = g[DOMAIN t]
  <2> HIDE DEF t, P, m
  <2>1. IsSequence(t) /\ \A k \in DOMAIN t : t[k] \in P
    BY <1>1
  <2> QED BY <2>1, ResultsAreFolded
<1>3. Occurrences(n, key) = g[1..m]
  BY <1>1, <1>2 DEF Occurrences
<1> HIDE DEF t, P, m
<1> DEFINE Of(T) == {t[k] : k \in T} \cap Repeats(n, key)
<1> DEFINE W == {T \in SUBSET (1..m) : FirstOfEach(g[T], Of(T))}
<1>4. ASSUME NEW T \in SUBSET (1..m), \A k \in T : T \ {k} \in W PROVE T \in W
  <2>1. CASE T = {}
    <3>1. g[T] = <<>> /\ Of(T) = {}
      BY <1>2, <2>1 DEF SeenFold
    <3>2. DOMAIN <<>> = {}
      OBVIOUS
    <3> HIDE DEF Of
    <3> QED BY <3>1, <3>2 DEF FirstOfEach
  <2>2. CASE T # {}
    <3> DEFINE z == Max(T)
    <3> DEFINE R == T \ {z}
    <3>1. z \in T /\ \A k \in R : k < z
      <4>1. IsFiniteSet(T) /\ T \subseteq Nat
        BY <1>1, FiniteNumbers
      <4>2. z \in T /\ \A k \in T : k <= z
        BY <2>2, <4>1, GreatestNumber
      <4> HIDE DEF z
      <4> QED BY <4>1, <4>2
    <3> HIDE DEF z
    <3> DEFINE s == g[R]
    <3> DEFINE A == Of(R)
    <3> DEFINE p == t[z]
    <3>2. R \in SUBSET (1..m) /\ FirstOfEach(s, A)
      BY <1>4, <3>1
    <3>3. g[T] = Observe(s, p, key)
      BY <1>1, <1>2, <2>2 DEF SeenFold, z
    <3>4. s \in Seq(P) /\ p \in P
      BY <1>1, <1>2, <3>1, <3>2
    <3>5. \A q \in A : Precedes(q, p)
      <4>1. \A k \in R : Precedes(t[k], t[z])
        BY <1>1, <3>1, <3>2
      <4> QED BY <4>1
    <3>6. Of(T) = IF p \in Repeats(n, key) THEN A \cup {p} ELSE A
      BY <3>1
    <3>7. p \in Repeats(n, key) <=> RepeatCandidate(ComponentAt(p)) /\ RepeatKey(ComponentAt(p)) = key
      BY <3>4 DEF Repeats, P
    <3> HIDE DEF Of, R, s, A, p
    <3>8. CASE p \notin Repeats(n, key)
      <4>1. g[T] = s /\ Of(T) = A
        BY <3>3, <3>6, <3>7, <3>8 DEF Observe
      <4> QED BY <3>2, <4>1
    <3>9. CASE p \in Repeats(n, key) /\ \E i \in DOMAIN s : CallAt(s[i]) = CallAt(p)
      <4>1. g[T] = s
        BY <3>3, <3>9 DEF Observe, CallAt
      <4>2. Of(T) = A \cup {p} /\ A # {}
        BY <3>2, <3>6, <3>9 DEF FirstOfEach
      <4>3. \A q \in A \cup {p} : q = s[1] \/ Precedes(s[1], q)
        <5>1. 1 \in DOMAIN s /\ s[1] \in A
          BY <3>2, <4>2 DEF FirstOfEach
        <5> QED BY <3>2, <3>5, <4>2, <5>1 DEF FirstOfEach
      <4>4. FirstOfEach(s, A \cup {p})
        BY <3>2, <3>9, <4>2, <4>3 DEF FirstOfEach
      <4> QED BY <4>1, <4>2, <4>4
    <3>10. CASE p \in Repeats(n, key) /\ ~ \E i \in DOMAIN s : CallAt(s[i]) = CallAt(p)
      <4> DEFINE new == Append(s, p)
      <4>1. g[T] = new
        BY <3>3, <3>7, <3>10 DEF Observe, CallAt
      <4>2. Of(T) = A \cup {p}
        BY <3>6, <3>10
      <4>3. /\ DOMAIN new = DOMAIN s \cup {Len(s) + 1} /\ new[Len(s) + 1] = p
            /\ \A i \in DOMAIN s : new[i] = s[i]
            /\ Len(s) \in Nat /\ DOMAIN s = 1..Len(s)
        BY <3>4, AppendFacts
      <4> HIDE DEF new
      <4>4. \A i \in DOMAIN new : new[i] \in A \cup {p}
        BY <3>2, <4>3 DEF FirstOfEach
      <4>5. \A i, j \in DOMAIN new : CallAt(new[i]) = CallAt(new[j]) => i = j
        BY <3>2, <3>10, <4>3 DEF FirstOfEach
      <4>6. \A q \in A \cup {p} : \E i \in DOMAIN new : CallAt(new[i]) = CallAt(q)
        <5>1. \A q \in A : \E i \in DOMAIN s : CallAt(s[i]) = CallAt(q)
          BY <3>2 DEF FirstOfEach
        <5> QED BY <4>3, <5>1
      <4>7. 1 \in DOMAIN new /\ \A q \in A \cup {p} : q = new[1] \/ Precedes(new[1], q)
        <5>1. CASE A = {}
          <6>1. DOMAIN s = {}
            BY <3>2, <5>1 DEF FirstOfEach
          <6>2. Len(s) = 0
            BY <4>3, <6>1
          <6> QED BY <4>3, <5>1, <6>2
        <5>2. CASE A # {}
          <6>1. 1 \in DOMAIN s /\ s[1] \in A /\ \A q \in A : q = s[1] \/ Precedes(s[1], q)
            BY <3>2, <5>2 DEF FirstOfEach
          <6> QED BY <3>5, <4>3, <6>1
        <5> QED BY <5>1, <5>2
      <4>8. FirstOfEach(new, A \cup {p})
        BY <4>4, <4>5, <4>6, <4>7 DEF FirstOfEach
      <4> QED BY <4>1, <4>2, <4>8
    <3> QED BY <3>8, <3>9, <3>10
  <2> QED BY <2>1, <2>2
<1>5. 1..m \in W
  <2>1. IsFiniteSet(1..m)
    BY <1>1, FS_Interval
  <2>2. SUBSET (1..m) \subseteq W
    <3> HIDE DEF W
    <3> QED BY <1>4, <2>1, SubsetsByInduction
  <2> QED BY <2>2
<1>6. Of(1..m) = Repeats(n, key)
  <2>1. Repeats(n, key) \subseteq P
    BY DEF Repeats, P
  <2> QED BY <1>1, <2>1
<1>7. FirstOfEach(g[1..m], Repeats(n, key))
  <2> HIDE DEF Of
  <2> QED BY <1>5, <1>6
<1>8. g[1..m] \in Seq(P)
  BY <1>1, <1>2
<1> QED BY <1>3, <1>7, <1>8 DEF P

-----------------------------------------------------------------------------
(* Repeated calls. *)

OfCall(n, key, call) == {p \in Repeats(n, key) : CallAt(p) = call}
FirstTurn(n, key, call) == Min({TurnAt(p).sequence : p \in OfCall(n, key, call)})
MostOf(n, key, call) == Max({ComponentAt(p).measure.value : p \in OfCall(n, key, call)})

(* A repeated result's first turn is that of a place, and the most of its       *)
(* estimates no less than any.                                               *)
LEMMA CallFacts ==
    ASSUME AnalysisType, NEW n \in DOMAIN analysed, NEW key, NEW q \in Repeats(n, key)
    PROVE  /\ \E p \in OfCall(n, key, CallAt(q)) : FirstTurn(n, key, CallAt(q)) = TurnAt(p).sequence
           /\ FirstTurn(n, key, CallAt(q)) <= TurnAt(q).sequence
           /\ FirstTurn(n, key, CallAt(q)) \in Int
           /\ MostOf(n, key, CallAt(q)) \in Nat
           /\ ComponentAt(q).measure.value <= MostOf(n, key, CallAt(q))
<1> DEFINE A == OfCall(n, key, CallAt(q))
<1>1. q \in A /\ A \in SUBSET TurnPlaces(n)
  BY DEF OfCall, Repeats
<1>2. IsFiniteSet(A)
  BY <1>1, PlacesFinite, FS_Subset
<1> HIDE DEF A
<1> DEFINE f == [p \in A |-> TurnAt(p).sequence]
<1> DEFINE h == [p \in A |-> ComponentAt(p).measure.value]
<1>3. \A p \in A : f[p] \in Int /\ h[p] \in Nat
  <2>1. \A p \in TurnPlaces(n) : p \in PlacesOf(n)
    BY DEF PlacesOf
  <2>2. \A p \in A : TurnAt(p).sequence \in Int /\ ComponentAt(p) \in ToolComponents
    BY <1>1, <2>1, PlaceFacts
  <2> QED BY <2>2, AnalysisAssumption DEF AnalysisAssumption
<1> DEFINE F == {f[p] : p \in A}
<1> DEFINE G == {h[p] : p \in A}
<1>4. F = {TurnAt(p).sequence : p \in A} /\ G = {ComponentAt(p).measure.value : p \in A}
  OBVIOUS
<1>5. FirstTurn(n, key, CallAt(q)) = Min(F) /\ MostOf(n, key, CallAt(q)) = Max(G)
  BY <1>4 DEF FirstTurn, MostOf, A
<1>6. f[q] = TurnAt(q).sequence /\ h[q] = ComponentAt(q).measure.value
  BY <1>1
<1>7. \A p \in A : f[p] = TurnAt(p).sequence
  OBVIOUS
<1> HIDE DEF f, h
<1>8. IsFiniteSet(F) /\ IsFiniteSet(G)
  BY <1>2, ImageSize
<1>9. F \subseteq Int /\ G \subseteq Nat /\ G \subseteq Int /\ f[q] \in F /\ h[q] \in G
  BY <1>1, <1>3
<1>10. Min(F) \in F /\ Min(F) <= f[q] /\ Max(G) \in G /\ h[q] <= Max(G)
  <2> HIDE DEF F, G
  <2> QED BY <1>8, <1>9, EndsOfIntegers
<1>11. PICK p \in A : Min(F) = f[p]
  BY <1>10
<1> HIDE DEF F, G
<1> QED BY <1>5, <1>6, <1>7, <1>9, <1>10, <1>11 DEF A

LEMMA RepeatsInv == AnalysisType => RepeatsAreDistinctCalls
<1> SUFFICES ASSUME AnalysisType, NEW n \in DOMAIN analysed, NEW f \in RepeatedToolCalls(n)
             PROVE  /\ Len(f.calls) >= 2 /\ Cardinality(ToSet(f.calls)) = Len(f.calls)
                    /\ \A p \in Repeats(n, f.key) : CallAt(p) \in ToSet(f.calls)
                    /\ \A i \in DOMAIN f.calls :
                         FirstTurn(n, f.key, f.calls[1]) <= FirstTurn(n, f.key, f.calls[i])
                    /\ f.tokens.has =>
                         f.tokens.value <= SumFunctionOnSet(
                             [i \in 2..Len(f.calls) |-> MostOf(n, f.key, f.calls[i])], 2..Len(f.calls))
  BY DEF RepeatsAreDistinctCalls, Repeats, OfCall, FirstTurn, MostOf, CallAt
<1>1. PICK key : /\ f.key = key /\ Len(Occurrences(n, key)) >= 2
                 /\ f.calls = [i \in DOMAIN Occurrences(n, key) |-> ComponentAt(Occurrences(n, key)[i]).call]
                 /\ f.tokens = RepeatedEstimate(Occurrences(n, key))
  BY DEF RepeatedToolCalls
<1> DEFINE occ == Occurrences(n, key)
<1> DEFINE m == Len(occ)
<1>2. occ \in Seq(TurnPlaces(n)) /\ FirstOfEach(occ, Repeats(n, key))
  BY OccurrenceFacts
<1>3. DOMAIN occ = 1..m /\ m \in Nat /\ m >= 2 /\ IsSequence(occ)
  <2> HIDE DEF occ
  <2> QED BY <1>1, <1>2 DEF IsSequence, occ
<1>4. f.calls = [i \in 1..m |-> CallAt(occ[i])] /\ f.key = key /\ f.tokens = RepeatedEstimate(occ)
  BY <1>1, <1>3 DEF CallAt
<1> HIDE DEF occ, m
<1>5. /\ \A i \in 1..m : occ[i] \in Repeats(n, key)
      /\ \A i, j \in 1..m : CallAt(occ[i]) = CallAt(occ[j]) => i = j
      /\ \A p \in Repeats(n, key) : \E i \in 1..m : CallAt(occ[i]) = CallAt(p)
      /\ \A p \in Repeats(n, key) : p = occ[1] \/ Precedes(occ[1], p)
  BY <1>2, <1>3 DEF FirstOfEach
<1> DEFINE calls == [i \in 1..m |-> CallAt(occ[i])]
<1>6. Len(calls) = m /\ DOMAIN calls = 1..m /\ \A i \in 1..m : calls[i] = CallAt(occ[i])
  BY <1>3
<1>7. f.calls = calls
  BY <1>4
<1> HIDE DEF calls
<1>8. Cardinality(ToSet(calls)) = m
  <2>1. ToSet(calls) = {calls[i] : i \in 1..m}
    BY <1>6 DEF ToSet
  <2>2. \A i, j \in 1..m : calls[i] = calls[j] => i = j
    BY <1>5, <1>6
  <2>3. IsFiniteSet(1..m) /\ Cardinality(1..m) = m
    BY <1>3, FS_Interval
  <2> QED BY <2>1, <2>2, <2>3, ImageSize
<1>9. \A p \in Repeats(n, key) : CallAt(p) \in ToSet(calls)
  BY <1>5, <1>6 DEF ToSet
<1>10. ASSUME NEW i \in 1..m PROVE FirstTurn(n, key, calls[1]) <= FirstTurn(n, key, calls[i])
  <2>1. 1 \in 1..m /\ occ[1] \in Repeats(n, key) /\ occ[i] \in Repeats(n, key)
    BY <1>3, <1>5
  <2>2. PICK p \in OfCall(n, key, CallAt(occ[i])) : FirstTurn(n, key, CallAt(occ[i])) = TurnAt(p).sequence
    BY <2>1, CallFacts
  <2>3. p \in Repeats(n, key) /\ p \in TurnPlaces(n) /\ occ[1] \in TurnPlaces(n)
    BY <2>1, <2>2 DEF OfCall, Repeats
  <2>4. TurnAt(occ[1]).sequence <= TurnAt(p).sequence
    <3>1. TurnAt(p).sequence \in Int
      BY <2>3, PlaceFacts
    <3>2. p = occ[1] \/ Precedes(occ[1], p)
      BY <1>5, <2>3
    <3> QED BY <2>3, <3>1, <3>2, PlacesAreOrdered
  <2>5. /\ FirstTurn(n, key, CallAt(occ[1])) <= TurnAt(occ[1]).sequence
        /\ FirstTurn(n, key, CallAt(occ[1])) \in Int
    BY <2>1, CallFacts
  <2>6. TurnAt(p).sequence \in Int /\ TurnAt(occ[1]).sequence \in Int
    BY <2>3, PlaceFacts
  <2> QED BY <1>6, <2>1, <2>2, <2>4, <2>5, <2>6
<1>11. ASSUME f.tokens.has
       PROVE  f.tokens.value <= SumFunctionOnSet([i \in 2..m |-> MostOf(n, key, calls[i])], 2..m)
  <2> DEFINE S == 2..m
  <2> DEFINE ms == [i \in S |-> ComponentAt(occ[i]).measure]
  <2> DEFINE T == {i \in S : Available(ms[i])}
  <2> DEFINE v == [i \in T |-> ms[i].value]
  <2> DEFINE w == [i \in S |-> MostOf(n, key, calls[i])]
  <2>1. f.tokens = IF SumMeasurements(ms).has THEN Measured(SumMeasurements(ms).value, "estimated")
                   ELSE Unknown
    BY <1>4 DEF RepeatedEstimate, m
  <2>2. SumMeasurements(ms) = IF T = {} THEN NoMeasurement ELSE Measured(SumFunctionOnSet(v, T), "derived")
    BY DEF SumMeasurements
  <2>3. f.tokens.value = SumFunctionOnSet(v, T)
    <3> DEFINE sum == SumMeasurements(ms)
    <3> DEFINE of == SumFunctionOnSet(v, T)
    <3>1. f.tokens = IF sum.has THEN Measured(sum.value, "estimated") ELSE Unknown
      BY <2>1
    <3>2. sum = IF T = {} THEN NoMeasurement ELSE Measured(of, "derived")
      BY <2>2
    <3> HIDE DEF sum, of, ms, T, v
    <3>3. sum.has
      BY <1>11, <3>1 DEF Unknown
    <3>4. sum = Measured(of, "derived")
      BY <3>2, <3>3 DEF NoMeasurement
    <3> QED BY <3>1, <3>3, <3>4 DEF Measured, of
  <2>4. ASSUME NEW i \in S
        PROVE  ms[i].value \in Nat /\ w[i] \in Nat /\ ms[i].value <= w[i]
    <3>1. i \in 1..m
      BY <1>3
    <3>2. occ[i] \in Repeats(n, key) /\ calls[i] = CallAt(occ[i])
      BY <1>5, <1>6, <3>1
    <3>3. w[i] \in Nat /\ ComponentAt(occ[i]).measure.value <= w[i]
      BY <3>2, CallFacts
    <3>4. ComponentAt(occ[i]).measure.value \in Nat
      <4>1. occ[i] \in PlacesOf(n)
        BY <3>2 DEF Repeats, PlacesOf
      <4>2. ComponentAt(occ[i]) \in ToolComponents
        BY <4>1, PlaceFacts
      <4> QED BY <4>2, AnalysisAssumption DEF AnalysisAssumption
    <3> QED BY <3>3, <3>4
  <2>5. /\ T \in SUBSET S /\ IsFiniteSet(S)
        /\ \A i \in T : v[i] = ms[i].value
    BY <1>3, FS_Interval
  <2> HIDE DEF ms, T, v, w, S
  <2>6. \A i \in T : v[i] \in Nat /\ v[i] <= w[i]
    BY <2>4, <2>5
  <2>7. \A i \in S : w[i] \in Nat
    BY <2>4
  <2>8. SumFunctionOnSet(v, T) <= SumFunctionOnSet(w, S)
    BY <2>5, <2>6, <2>7, SumOfSomeIsLess
  <2> QED BY <2>3, <2>8 DEF w, S
<1> QED BY <1>3, <1>4, <1>6, <1>7, <1>8, <1>9, <1>10, <1>11

(* A call is said to be repeated only with other calls, its baseline is the    *)
(* earliest, and what is counted is no more than the later ones returned.     *)
THEOREM RepeatsAreOfDistinctCalls == AnalysisSpec => []RepeatsAreDistinctCalls
BY AnalysisTypeHolds, RepeatsInv, PTL
=============================================================================
