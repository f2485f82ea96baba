----------------------------- MODULE ProviderUsage -----------------------------
(***************************************************************************)
(* What a provider reports of a call's tokens, in two schemas, and the     *)
(* three readings of it that must agree: a request's summary, a profile's  *)
(* account and the canonical observation (internal/gateway/accounting.go,  *)
(* profile_accounting.go, observation.go, token_semantics.go).             *)
(***************************************************************************)
EXTENDS Observations, TLC

Protocols == {"anthropic_messages", "openai_responses"}

\* The counts that were reported, by name ("input", "creation", "read", "output",
\* "reasoning", "totalInput", "total"); a pointer that is nil has no name here, and
\* reporting none of them is reporting no usage.
UsageReport(source, counts) == [source |-> source, counts |-> counts]
NoReport == UsageReport("", <<>>)

\* What is new, and what the old has beside it.
Overlay(new, old) ==
    [c \in DOMAIN new \cup DOMAIN old |-> IF c \in DOMAIN new THEN new[c] ELSE old[c]]

Has(u, c) == c \in DOMAIN u.counts
Count(u, c) == IF Has(u, c) THEN u.counts[c] ELSE 0
HasUsage(u) == DOMAIN u.counts # {}
HasInput(u) == Has(u, "input") \/ Has(u, "totalInput")
KnownSource(u) == u.source \in Protocols

Positive(n) == IF n < 0 THEN 0 ELSE n

\* ProviderUsageToObserved: Anthropic counts the cached tokens apart from the
\* input, OpenAI among it; an unknown schema keeps what needs no reading.
ObservedUsage(u) ==
    LET whole == Count(u, IF Has(u, "totalInput") THEN "totalInput" ELSE "input")
        parts == Count(u, "input") + Count(u, "read") + Count(u, "creation")
        sum == IF Has(u, "input") THEN parts ELSE Count(u, "totalInput")
        fixed == [output |-> Count(u, "output"), reasoning |-> Count(u, "reasoning")]
        read ==
          CASE u.source = "anthropic_messages" ->
                 [freshInput |-> Count(u, "input"), cachedInput |-> Count(u, "read"),
                  cacheCreation |-> Count(u, "creation"), totalInput |-> sum,
                  total |-> sum + Count(u, "output")]
            [] u.source = "openai_responses" ->
                 [freshInput |-> Positive(whole - Count(u, "read")), cachedInput |-> Count(u, "read"),
                  cacheCreation |-> 0, totalInput |-> whole,
                  total |-> IF Has(u, "total") THEN Count(u, "total")
                            ELSE whole + Count(u, "output")]
            [] OTHER ->
                 [freshInput |-> 0, cachedInput |-> 0, cacheCreation |-> 0,
                  totalInput |-> Count(u, "totalInput"), total |-> Count(u, "total")]
    IN  Overlay(fixed, read)

\* providerFieldKindsFor: what the provider states is measured, what is computed
\* from it, and all of an unknown schema, derived.
FieldKind(u, f) ==
    CASE ~ KnownSource(u) -> "derived"
      [] f = "total" -> IF Has(u, "total") THEN "measured" ELSE "derived"
      [] f = "totalInput" /\ u.source = "anthropic_messages" ->
           IF Has(u, "totalInput") THEN "measured" ELSE "derived"
      [] f = "freshInput" /\ u.source = "openai_responses" -> "derived"
      [] OTHER -> "measured"

\* The input fields that a schema's counts are counted as.
AnthropicInput(u) ==
    {f \in {"freshInput", "cachedInput", "cacheCreation", "totalInput"} :
        CASE f = "freshInput" -> Has(u, "input")
          [] f = "cachedInput" -> Has(u, "read")
          [] f = "cacheCreation" -> Has(u, "creation")
          [] f = "totalInput" -> HasInput(u)}

OutputFields(u) == {f \in {"output", "reasoning"} : Has(u, f)}

\* derivedTotal: only of a schema that is known, and of both parts.
DerivedTotal(u) == KnownSource(u) /\ HasInput(u) /\ Has(u, "output")

TotalField(u) == IF Has(u, "total") \/ DerivedTotal(u) THEN {"total"} ELSE {}

ToldTotal(u) == IF Has(u, "total") THEN Count(u, "total") ELSE ObservedUsage(u).total

------------------------------------------------------------------------------
(* A request's summary, and a call's within its chain. *)

SummaryFields(u) ==
    OutputFields(u)
    \cup (IF Has(u, "output") \/ Has(u, "total") THEN {"total"} ELSE {})
    \cup CASE u.source = "anthropic_messages" -> AnthropicInput(u)
           [] u.source = "openai_responses" ->
                {f \in {"totalInput", "cachedInput", "freshInput"} :
                    /\ f # "cachedInput" => Has(u, "input")
                    /\ f # "totalInput" => Has(u, "read")}
           [] OTHER -> {"totalInput"} \cap DOMAIN u.counts

ProviderSummary(u) ==
    [f \in SummaryFields(u) |-> Measured(ObservedUsage(u)[f], FieldKind(u, f))]

------------------------------------------------------------------------------
(* A profile's account: how many reported a field, its sum and weakest kind. *)

AccountedFields(u) ==
    OutputFields(u) \cup TotalField(u)
    \cup CASE u.source = "anthropic_messages" -> AnthropicInput(u)
           [] u.source = "openai_responses" ->
                IF ~ HasInput(u) THEN {}
                ELSE {"totalInput"} \cup (IF Has(u, "read") THEN {"cachedInput", "freshInput"} ELSE {})
           [] OTHER -> {"totalInput"} \cap DOMAIN u.counts

AccountedValue(u, f) == IF f = "total" THEN ToldTotal(u) ELSE ObservedUsage(u)[f]

\* Of the usages of some calls; a call without any is not observed.
AccountOf(usages) ==
    LET seen == {i \in DOMAIN usages : HasUsage(usages[i])}
        of(f) == {i \in seen : f \in AccountedFields(usages[i])}
    IN  [observed |-> Cardinality(seen),
         count |-> [f \in UsageFields |-> Cardinality(of(f))],
         sum |-> [f \in UsageFields |-> SumFunction([i \in of(f) |-> AccountedValue(usages[i], f)])],
         kind |-> [f \in UsageFields |->
                     IF of(f) = {} THEN ""
                     ELSE IF \E i \in of(f) : FieldKind(usages[i], f) = "derived" THEN "derived"
                     ELSE "measured"]]

------------------------------------------------------------------------------
(* The canonical observation. *)

ObservationFields(u) ==
    OutputFields(u)
    \cup CASE u.source = "anthropic_messages" -> AnthropicInput(u) \cup TotalField(u)
           [] u.source = "openai_responses" ->
                TotalField(u) \cup
                {f \in {"totalInput", "cachedInput", "freshInput"} :
                    /\ f # "cachedInput" => HasInput(u)
                    /\ f # "totalInput" => Has(u, "read")}
           [] OTHER -> {"totalInput", "total"} \cap DOMAIN u.counts

ObservationUsage(u) ==
    LET told(f) == CASE f = "totalInput" /\ Has(u, f) -> Count(u, f)
                     [] f = "total" -> ToldTotal(u)
                     [] OTHER -> ObservedUsage(u)[f]
    IN  [f \in UsageFields |-> IF f \in ObservationFields(u) THEN Measured(told(f), FieldKind(u, f))
                               ELSE NoMeasurement]

\* successfulRequestCompleteness: an answer needs its input and its output.
AnswerIsWhole(u) ==
    CASE u.source = "anthropic_messages" -> Has(u, "input") /\ Has(u, "output")
      [] u.source = "openai_responses" -> HasInput(u) /\ Has(u, "output")
      [] OTHER -> FALSE
===============================================================================
