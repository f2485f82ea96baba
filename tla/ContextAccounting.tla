--------------------------- MODULE ContextAccounting ---------------------------
(***************************************************************************)
(* What a transcript says was in the model's context, and how much of the  *)
(* input a turn reports that explains (internal/model/context.go,          *)
(* internal/source/attribution.go).  Both transcript readers use it.       *)
(***************************************************************************)
EXTENDS Measurements, FiniteSets

\* A text is its number of characters; four make a token, rounded up.
EstimatedText(runes) ==
    IF runes = 0 THEN Unknown ELSE Measured((runes + 3) \div 4, "estimated")

\* A component is known by its kind and its record (Path is the file's, below).
Component(kind, record, runes) ==
    [kind |-> kind, record |-> record, path |-> "", measure |-> EstimatedText(runes),
     completeness |-> "", call |-> "", tool |-> ""]

\* Call and tool stay empty where the transcript names neither.
ToolResult(record, runes, call, tool, completeness) ==
    [Component("tool_result", record, runes) EXCEPT
        !.call = call, !.tool = tool, !.completeness = completeness]

UnreadableRecord(line, completeness) ==
    [Component("unknown", <<"line", line>>, 0) EXCEPT !.completeness = completeness]

ComponentKey(c) == <<c.kind, c.record, c.path>>

\* The first component with a key is kept, in their order.
FirstOfKey(components) ==
    {i \in DOMAIN components :
        \A j \in 1..(i - 1) : ComponentKey(components[j]) # ComponentKey(components[i])}

\* The k-th of some numbers, from the least one up.
Nth(numbers, k) == CHOOSE i \in numbers : Cardinality({j \in numbers : j <= i}) = k

DedupeContext(components) ==
    [k \in 1..Cardinality(FirstOfKey(components)) |-> components[Nth(FirstOfKey(components), k)]]

\* Where a record appears in a sequence of contexts: in which, and where in it.
Places(contexts, record) ==
    UNION {{<<t, p>> : p \in {p \in DOMAIN contexts[t] : contexts[t][p].record = record}} :
             t \in DOMAIN contexts}

------------------------------------------------------------------------------
(* Codex counts the cached tokens in the input; Claude reports them apart. *)
CodexInputAccounting(u) == [fresh |-> Subtract(u.input, u.cached), cached |-> u.cached]

SeparateInputAccounting(u) == [fresh |-> u.input, cached |-> u.cached]

TurnInputAccounting(turn) ==
    IF Available(turn.accounting.fresh) \/ Available(turn.accounting.cached)
    THEN turn.accounting ELSE SeparateInputAccounting(turn.usage)

\* What the provider measured is not an attribution, only what was counted or
\* estimated from the transcript.
Attributions(components) ==
    SelectSeq([i \in DOMAIN components |-> components[i].measure],
              LAMBDA m : Available(m) /\ m.kind \notin {"measured", "derived"})

SumAttributionMeasurements(components) ==
    LET ms == Attributions(components)
    IN  IF ms = <<>> THEN NoMeasurement
        ELSE Measured(SumMeasurements(ms).value,
                      IF \E i \in DOMAIN ms : ms[i].kind = "estimated" THEN "estimated"
                      ELSE "counted")

\* A turn whose context explains more than was sent is a conflict, and leaves
\* nothing unexplained; FreshCoverage is attributed over fresh where both are.
ReconcileContext(turn) ==
    LET input == TurnInputAccounting(turn)
        attributed == SumAttributionMeasurements(turn.context)
        known == Authoritative(input.fresh) /\ attributed.has
        rest == input.fresh.value - attributed.value
    IN  [fresh |-> input.fresh,
         cached |-> input.cached,
         attributed |-> IF known THEN attributed ELSE Unknown,
         unexplained |-> IF known THEN Measured(IF rest < 0 THEN 0 ELSE rest, attributed.kind)
                         ELSE Unknown,
         conflict |-> known /\ rest < 0]
===============================================================================
