--------------------------- MODULE SessionAnalysis ---------------------------
(***************************************************************************)
(* What `tok coverage` and `tok analyze` say of sessions                   *)
(* (internal/coverage, internal/app/coverage.go, internal/rule/tool,       *)
(* internal/analyze): how much of the tool output was observed, and which  *)
(* outputs are too large or were asked for twice.                          *)
(***************************************************************************)
EXTENDS ContextAccounting, FiniteSetsExt, TLC

CONSTANTS
    \* Turns without their context: a sequence, and the usage and accounting that
    \* say what input was reported.
    TurnKinds,
    \* Components: kind, call, tool, print (the fingerprint of the call's arguments),
    \* hash (of the content), each "" where unknown; bytes, -1 where the source gave
    \* no output; measure and completeness.
    ToolComponents,
    MaxOutputBytes,     \* DefaultMaxOutputBytes
    HighSeverityBytes,  \* highSeverityBytes
    AnalysisSessions, AnalysisTurns, AnalysisComponents   \* bounds

ASSUME AnalysisAssumption ==
    /\ \A t \in TurnKinds : t.sequence \in Int
    /\ \A c \in ToolComponents :
         /\ c.bytes \in Nat \cup {-1} /\ c.measure.value \in Nat
         /\ c.completeness \in {"complete", "truncated", "unavailable", "unknown", ""}

VARIABLE analysed       \* the sessions of each source, as far as they were read

AnalysisInit == analysed = <<>>

Size ==
    FoldLeft(LAMBDA n, s : n + Len(s.trailing) +
                 FoldLeft(LAMBDA m, t : m + Len(t.context), 0, s.turns), 0, analysed)

BeginSession(source) ==
    /\ Len(analysed) < AnalysisSessions
    /\ analysed' = Append(analysed, [source |-> source, turns |-> <<>>, trailing |-> <<>>])

Current == analysed[Len(analysed)]

\* Readers number the turns of a session, no two alike.
BeginTurn(t) ==
    /\ analysed # <<>> /\ Current.trailing = <<>>
    /\ FoldLeft(LAMBDA n, s : n + Len(s.turns), 0, analysed) < AnalysisTurns
    /\ \A i \in DOMAIN Current.turns : Current.turns[i].sequence # t.sequence
    /\ analysed' = [analysed EXCEPT ![Len(analysed)].turns =
                      Append(@, [sequence |-> t.sequence, usage |-> t.usage,
                                 accounting |-> t.accounting, context |-> <<>>])]

Attribute(c) ==
    /\ analysed # <<>> /\ Current.turns # <<>> /\ Size < AnalysisComponents
    /\ Current.trailing = <<>>
    /\ analysed' = [analysed EXCEPT
                      ![Len(analysed)].turns[Len(Current.turns)].context = Append(@, c)]

Trail(c) ==
    /\ analysed # <<>> /\ Size < AnalysisComponents
    /\ analysed' = [analysed EXCEPT ![Len(analysed)].trailing = Append(@, c)]

AnalysisNext ==
    \/ \E source \in {"claude", "codex"} : BeginSession(source)
    \/ \E t \in TurnKinds : BeginTurn(t)
    \/ \E c \in ToolComponents : Attribute(c) \/ Trail(c)

AnalysisSpec == AnalysisInit /\ [][AnalysisNext]_analysed

------------------------------------------------------------------------------
(* Where sessions have components. *)

\* A place is a session, a turn (0 for what is trailing) and an index.
TurnPlaces(n) ==
    UNION {{<<n, i, k>> : k \in DOMAIN analysed[n].turns[i].context} : i \in DOMAIN analysed[n].turns}
TrailingPlaces(n) == {<<n, 0, k>> : k \in DOMAIN analysed[n].trailing}
PlacesOf(n) == TurnPlaces(n) \cup TrailingPlaces(n)

TurnAt(p) == analysed[p[1]].turns[p[2]]
ComponentAt(p) ==
    IF p[2] = 0 THEN analysed[p[1]].trailing[p[3]] ELSE TurnAt(p).context[p[3]]

------------------------------------------------------------------------------
(* coverage.Scan. *)

Trails(p) == p[2] = 0

\* What is trailing belongs to no turn, so to no fresh input.
Linked(p) == ~ Trails(p) /\ Authoritative(TurnInputAccounting(TurnAt(p)).fresh)

IsToolOutput(p) == ComponentAt(p).kind = "tool_result"
IsUnreadable(p) == ComponentAt(p).completeness \in {"truncated", "unavailable"}

\* Mutant: the rank is rounded down.
PercentileBelow(sorted, percent) == sorted[Max({1, (percent * Len(sorted)) \div 100})]

\* Nearest rank: the value at ceil(percent/100 * n), counted from 1.
Percentile(sorted, percent) ==
    sorted[Max({1, Min({Len(sorted), (percent * Len(sorted) + 99) \div 100})})]

SizesBelow(places, v) == Cardinality({p \in places : ComponentAt(p).bytes < v})
SizesUpTo(places, v) == Cardinality({p \in places : ComponentAt(p).bytes <= v})

SortedSizes(places) ==
    [k \in 1..Cardinality(places) |->
        CHOOSE v \in {ComponentAt(p).bytes : p \in places} :
            SizesBelow(places, v) < k /\ k <= SizesUpTo(places, v)]

ByteStats(places, sorted) ==
    IF places = {} THEN [samples |-> 0, total |-> 0]
    ELSE [samples |-> Len(sorted), total |-> SumFunctionOnSet(sorted, DOMAIN sorted),
          min |-> sorted[1], p50 |-> Percentile(sorted, 50), p90 |-> Percentile(sorted, 90),
          p95 |-> Percentile(sorted, 95), max |-> sorted[Len(sorted)]]

OutputsOf(sessions) == {p \in UNION {PlacesOf(n) : n \in sessions} : IsToolOutput(p)}
SizedOf(sessions) == {p \in OutputsOf(sessions) : ComponentAt(p).bytes >= 0}

Estimated(m) == m.kind = "estimated" /\ Available(m)

\* Of the sessions with these numbers.
Scan(sessions) ==
    LET outputs == OutputsOf(sessions)
        howMany(Test(_)) == Cardinality({p \in outputs : Test(ComponentAt(p))})
        known == {p \in outputs : Estimated(ComponentAt(p).measure)}
        sized == SizedOf(sessions)
    IN  [sessions |-> Cardinality(sessions),
         turns |-> SumFunctionOnSet([n \in sessions |-> Len(analysed[n].turns)], sessions),
         toolOutputs |-> Cardinality(outputs),
         withContentBytes |-> Cardinality(sized),
         withEstimatedTokens |-> Cardinality(known),
         withToolCallID |-> howMany(LAMBDA c : c.call # ""),
         withToolName |-> howMany(LAMBDA c : c.tool # ""),
         withFreshInput |-> Cardinality({p \in outputs : Linked(p)}),
         complete |-> howMany(LAMBDA c : c.completeness = "complete"),
         truncated |-> howMany(LAMBDA c : c.completeness = "truncated"),
         unavailable |-> howMany(LAMBDA c : c.completeness = "unavailable"),
         unknown |-> howMany(LAMBDA c : c.completeness \in {"", "unknown"}),
         trailing |-> Cardinality({p \in outputs : Trails(p)}),
         unreadableRecords |->
             Cardinality({p \in UNION {PlacesOf(n) : n \in sessions} : IsUnreadable(p)}),
         unreadableSessions |->
             Cardinality({n \in sessions : \E p \in PlacesOf(n) : IsUnreadable(p)}),
         bytes |-> ByteStats(sized, SortedSizes(sized)),
         estimatedTokens |->
             IF known = {} THEN Unknown
             ELSE Measured(SumFunctionOnSet([p \in known |-> ComponentAt(p).measure.value], known),
                           "estimated")]

\* CoverageAll, CoverageSource and CoverageSession differ in what they scan.
OfSource(source) == {n \in DOMAIN analysed : analysed[n].source = source}
CoverageAll == Scan(DOMAIN analysed)
CoverageSource(source) == Scan(OfSource(source))
CoverageSession(n) == Scan({n})

------------------------------------------------------------------------------
(* The rules, and what they make of one session. *)

OversizedOutputs(n) ==
    LET large(c) == /\ c.kind = "tool_result" /\ c.completeness = "complete"
                    /\ c.bytes > MaxOutputBytes
        finding(c) == [rule |-> "TOOL001", tokens |-> c.measure, calls |-> <<c.call>>,
                       severity |-> IF c.bytes >= HighSeverityBytes THEN "high" ELSE "medium"]
    IN  [p \in {p \in TurnPlaces(n) : large(ComponentAt(p))} |-> finding(ComponentAt(p))]

\* Only complete results whose call and content are known can be said to repeat.
RepeatCandidate(c) ==
    /\ c.kind = "tool_result" /\ c.completeness = "complete"
    /\ "" \notin {c.call, c.tool, c.print, c.hash}

RepeatKey(c) == <<c.tool, c.print, c.hash>>

\* In order of the turns' sequence; a stable sort leaves turns of one sequence, and
\* each turn's components, as they are.
Precedes(p, q) ==
    \/ p[2] # q[2] /\ TurnAt(p).sequence < TurnAt(q).sequence
    \/ p[2] < q[2] /\ TurnAt(p).sequence = TurnAt(q).sequence
    \/ p[2] = q[2] /\ p[3] < q[3]

InTurnOrder(places) ==
    [k \in 1..Cardinality(places) |->
        CHOOSE p \in places : Cardinality({q \in places : Precedes(q, p)}) = k - 1]

\* Mutant: a result that is carried twice is two calls.
ObserveResult(seen, p, key) ==
    IF RepeatCandidate(ComponentAt(p)) /\ RepeatKey(ComponentAt(p)) = key
    THEN Append(seen, p) ELSE seen

\* The first place of every call with this key.
Observe(seen, p, key) ==
    IF /\ RepeatCandidate(ComponentAt(p)) /\ RepeatKey(ComponentAt(p)) = key
       /\ \A i \in DOMAIN seen : ComponentAt(seen[i]).call # ComponentAt(p).call
    THEN Append(seen, p) ELSE seen

ObserveAll(places, key) == FoldLeft(LAMBDA seen, p : Observe(seen, p, key), <<>>, places)

Occurrences(n, key) == ObserveAll(InTurnOrder(TurnPlaces(n)), key)

\* Of what the later calls returned, what is known; the first is the baseline.
RepeatedEstimate(found) ==
    LET later == SumMeasurements([i \in 2..Len(found) |-> ComponentAt(found[i]).measure])
    IN  IF later.has THEN Measured(later.value, "estimated") ELSE Unknown

RepeatedToolCalls(n) ==
    LET keys == {RepeatKey(ComponentAt(p)) :
                    p \in {p \in TurnPlaces(n) : RepeatCandidate(ComponentAt(p))}}
    IN  {[rule |-> "TOOL002", key |-> key, severity |-> "medium",
          calls |-> [i \in DOMAIN Occurrences(n, key) |-> ComponentAt(Occurrences(n, key)[i]).call],
          tokens |-> RepeatedEstimate(Occurrences(n, key))] :
            key \in {key \in keys : Len(Occurrences(n, key)) >= 2}}

Healthy(n) == DOMAIN OversizedOutputs(n) = {} /\ RepeatedToolCalls(n) = {}

------------------------------------------------------------------------------
(* Properties. *)

Counts5 == {"sessions", "turns", "toolOutputs", "withContentBytes", "withEstimatedTokens",
            "withToolCallID", "withToolName", "withFreshInput", "complete", "truncated",
            "unavailable", "unknown", "trailing", "unreadableRecords", "unreadableSessions"}

\* The share of samples that a nearest-rank percentile promises, from both sides.
IsPercentile(value, places, percent) ==
    /\ 100 * SizesUpTo(places, value) >= percent * Cardinality(places)
    /\ 100 * SizesBelow(places, value) < percent * Cardinality(places)

\* However sessions are grouped, coverage counts every component once: the counts
\* of all are the sums of the sources' and of the sessions', the classes of
\* completeness partition the outputs, and the percentiles of the pooled sizes are
\* percentiles (Scan, CoverageAll and percentile, at one sample and at many).
CoverageAddsUp ==
    LET overall == CoverageAll
        claude == CoverageSource("claude")
        codex == CoverageSource("codex")
        each == StrictSequence([n \in DOMAIN analysed |-> CoverageSession(n)])
        sized == SizedOf(DOMAIN analysed)
    IN  /\ \A f \in Counts5 :
             /\ overall[f] = claude[f] + codex[f]
             /\ overall[f] = SumFunctionOnSet([n \in DOMAIN each |-> each[n][f]], DOMAIN each)
        /\ overall.toolOutputs = overall.complete + overall.truncated + overall.unavailable
                                 + overall.unknown
        /\ sized # {} =>
             /\ IsPercentile(overall.bytes.p50, sized, 50)
             /\ IsPercentile(overall.bytes.p90, sized, 90)
             /\ IsPercentile(overall.bytes.p95, sized, 95)
             /\ IsPercentile(overall.bytes.max, sized, 100)

\* A call is said to be repeated only with other calls: a result that a transcript
\* carries twice, in one turn or in a turn written out of order, is one call, the
\* baseline is the earliest, and what is counted is no more than what the later
\* ones returned (repeatedCallBuilder.observe, estimatedRepeatedOutput).
RepeatsAreDistinctCalls ==
    \A n \in DOMAIN analysed : \A f \in RepeatedToolCalls(n) :
        LET repeats == {p \in TurnPlaces(n) : /\ RepeatCandidate(ComponentAt(p))
                                              /\ RepeatKey(ComponentAt(p)) = f.key}
            of(call) == {p \in repeats : ComponentAt(p).call = call}
            turnOf(call) == Min({TurnAt(p).sequence : p \in of(call)})
            most(call) == Max({ComponentAt(p).measure.value : p \in of(call)})
            later == 2..Len(f.calls)
        IN  /\ Len(f.calls) >= 2 /\ Cardinality(ToSet(f.calls)) = Len(f.calls)
            /\ \A p \in repeats : ComponentAt(p).call \in ToSet(f.calls)
            /\ \A i \in DOMAIN f.calls : turnOf(f.calls[1]) <= turnOf(f.calls[i])
            /\ f.tokens.has =>
                 f.tokens.value <= SumFunctionOnSet([i \in later |-> most(f.calls[i])], later)
===============================================================================
