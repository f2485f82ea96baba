-------------------------------- MODULE Matching --------------------------------
(***************************************************************************)
(* Pairing what the gateway saw with what a transcript says, and comparing *)
(* the pairs (internal/match, internal/reconcile).  An observation here is *)
(* one of Observations with its side, its identity (a function from the    *)
(* identity fields that are set) and its profile-wide unique id.           *)
(***************************************************************************)
EXTENDS Observations, FiniteSets, FiniteSetsExt

Requests(obs) == {o \in obs : o.side = "gateway"}
Turns(obs) == {o \in obs : o.side = "transcript"}

\* Same field, same value; an equal value in another field says nothing.
SharesIdentity(a, b) ==
    \E f \in DOMAIN a.identity \cap DOMAIN b.identity : a.identity[f] = b.identity[f]

SameModel(a, b) == a.model # "" /\ a.model = b.model
CompatibleModel(a, b) == a.model = "" \/ b.model = "" \/ a.model = b.model

UsageSimilarity(a, b) ==
    Cardinality({f \in UsageFields : /\ Available(a.usage[f]) /\ Available(b.usage[f])
                                     /\ a.usage[f].value = b.usage[f].value})

Distance(a, b) == IF a.started < b.started THEN b.started - a.started ELSE a.started - b.started

\* Time brings a pair into question, a model or a number has to confirm it.
Candidates(g, t, window) ==
    /\ g.started > 0 /\ t.started > 0
    /\ Distance(g, t) <= window
    /\ CompatibleModel(g, t)
    /\ SameModel(g, t) \/ UsageSimilarity(g, t) > 0

Score(g, t) ==
    [delta |-> Distance(g, t), usage |-> UsageSimilarity(g, t), model |-> SameModel(g, t)]

Better(a, b) ==
    \/ a.delta < b.delta
    \/ a.delta = b.delta /\ a.usage > b.usage
    \/ a.delta = b.delta /\ a.usage = b.usage /\ a.model /\ ~ b.model

\* How one observation regards the other side's: a relation to each.
Relation(a, b, window) ==
    CASE SharesIdentity(a, b) -> "identity"
      [] ~ SharesIdentity(a, b) /\ Candidates(a, b, window) -> "heuristic"
      [] OTHER -> "none"

\* Mutant: the first of several equals is taken.
TopOfFirst(o, others) ==
    FoldLeft(LAMBDA top, c :
                 IF top = {} \/ Better(Score(o, c), Score(o, CHOOSE t \in top : TRUE)) THEN {c} ELSE top,
             {}, others)

\* choosePreference walks a Go map, in whatever order that comes.
TopOf(o, others) ==
    FoldLeft(LAMBDA top, c :
                 IF top = {} \/ Better(Score(o, c), Score(o, CHOOSE t \in top : TRUE)) THEN {c}
                 ELSE IF Better(Score(o, CHOOSE t \in top : TRUE), Score(o, c)) THEN top
                 ELSE top \cup {c},
             {}, others)

\* The other side's observations that bear on this one.
Related(o, others, window) == {c \in others : Relation(o, c, window) # "none"}

\* An identity that is shared goes before anything that is alike.
PreferenceInOrder(o, relations, window) ==
    LET shared == {c \in ToSet(relations) : Relation(o, c, window) = "identity"}
    IN  CASE shared # {} -> [kind |-> "identity", picks |-> shared]
          [] relations = <<>> -> [kind |-> "none", picks |-> {}]
          [] shared = {} /\ relations # <<>> ->
                [kind |-> "heuristic", picks |-> TopOf(o, relations)]

Preference(o, others, window) ==
    PreferenceInOrder(o, SetToSeq(Related(o, others, window)), window)

\* What becomes of a gateway request that regards its candidates so, the first of
\* which is t: it is matched where the two have only each other, and ambiguous where
\* either has several.
Resolution(g, mine, t, theirs) ==
    LET base == [gateway |-> g.id, transcript |-> "", status |-> "unmatched", candidates |-> {},
                 confidence |-> ""]
    IN  CASE mine.kind = "none" -> base
          [] mine.kind # "none" /\ Cardinality(mine.picks) # 1 ->
                [base EXCEPT !.status = "ambiguous", !.candidates = {p.id : p \in mine.picks}]
          [] OTHER ->
                IF theirs.kind # mine.kind THEN base
                ELSE IF Cardinality(theirs.picks) # 1
                THEN [base EXCEPT !.status = "ambiguous", !.candidates = {t.id}]
                ELSE IF theirs.picks # {g} THEN base
                ELSE [base EXCEPT !.status = "matched", !.transcript = t.id,
                                  !.confidence = IF mine.kind = "identity" THEN "high" ELSE "medium"]

Resolve(g, obs, window) ==
    LET with(mine, t) == Resolution(g, mine, t, Preference(t, Requests(obs), window))
        resolved(mine) == with(mine, CHOOSE t \in mine.picks : TRUE)
    IN  resolved(Preference(g, Turns(obs), window))

\* One result per request, and one per turn that no request took or considered.
WithOtherTurns(resolved, obs) ==
    LET consumed == UNION {{r.transcript} \cup r.candidates : r \in resolved}
    IN  resolved \cup
        {[gateway |-> "", transcript |-> t.id, status |-> "unmatched", candidates |-> {},
          confidence |-> ""] : t \in {t \in Turns(obs) : t.id \notin consumed}}

Match(obs, window) ==
    WithOtherTurns({Resolve(g, obs, window) : g \in Requests(obs)}, obs)

------------------------------------------------------------------------------
CompareField(left, right) ==
    CASE ~ (Available(left) /\ Available(right)) -> "unavailable"
      [] Available(left) /\ Available(right) /\ left.value = right.value -> "equal"
      [] OTHER -> "different"

\* Mutant: what is not measured counts as zero.
Delta7OfValues(g, t) ==
    [f \in UsageFields |-> Measured(t.usage[f].value - g.usage[f].value, "derived")]

Delta7(g, t) ==
    [f \in UsageFields |-> Subtract(t.usage[f], g.usage[f])]

OverallStatus(fields) ==
    CASE \E f \in DOMAIN fields : fields[f] = "different" -> "different"
      [] \A f \in DOMAIN fields : fields[f] = "unavailable" -> "unavailable"
      [] OTHER -> "equal"

Named(obs, id) == CHOOSE o \in obs : o.id = id

\* validatePair and Reconcile: only a matched pair, one observation of each side.
ValidPair(m, obs) ==
    /\ m.status = "matched" /\ m.candidates = {}
    /\ \E o \in Requests(obs) : o.id = m.gateway
    /\ \E o \in Turns(obs) : o.id = m.transcript
    /\ m.gateway # m.transcript

ReconcilePair(m, obs) ==
    LET g == Named(obs, m.gateway)
        t == Named(obs, m.transcript)
        fields == [f \in UsageFields |-> CompareField(g.usage[f], t.usage[f])]
    IN  [gateway |-> m.gateway, transcript |-> m.transcript, confidence |-> m.confidence,
         fields |-> fields, delta |-> Delta7(g, t), status |-> OverallStatus(fields)]

\* BuildReport on observations with unique names.
ReportOf(obs, matches, results) ==
    LET count(S) == Cardinality(S)
    IN  [matches |-> matches,
         results |-> results,
         requests |-> count(Requests(obs)),
         turns |-> count(Turns(obs)),
         matched |-> count({m \in matches : m.status = "matched"}),
         equal |-> count({r \in results : r.status = "equal"}),
         different |-> count({r \in results : r.status = "different"}),
         unavailable |-> count({r \in results : r.status = "unavailable"}),
         ambiguousGateways |-> count({m \in matches : m.status = "ambiguous"}),
         unmatchedGateways |->
             count({m \in matches : m.status = "unmatched" /\ m.gateway # ""}),
         unmatchedTranscripts |->
             count({m \in matches : m.status = "unmatched" /\ m.gateway = ""})]

BuildReport(obs, window) ==
    LET of(matches) ==
            ReportOf(obs, matches,
                   {ReconcilePair(m, obs) : m \in {m \in matches : m.status = "matched"}})
    IN  of(Match(obs, window))
===============================================================================
