----------------------------- MODULE RequestChains -----------------------------
(***************************************************************************)
(* `tok gateway requests` and `chains`: what a recorded call's context was *)
(* made of, which calls went on from which, and what a chain of calls used *)
(* (internal/gateway/accounting.go, chain.go).  The exchanges are those of *)
(* one capture file, so of one profile.                                    *)
(***************************************************************************)
EXTENDS ProtocolObservers

\* A stable sort; TLC's SortSeq has no definition to prove about.
StableSort(s, Before(_, _)) ==
    LET ahead(i) == {j \in DOMAIN s : IF j <= i THEN ~ Before(s[i], s[j]) ELSE Before(s[j], s[i])}
    IN  [n \in DOMAIN s |-> s[CHOOSE i \in DOMAIN s : Cardinality(ahead(i)) = n]]

CategoryOrder == <<"instructions", "user_prompt", "history", "file", "tool_result",
                   "tool_definition", "other", "unknown">>

AddMeasurement(acc, next) ==
    IF ~ Available(next) THEN acc
    ELSE IF ~ Available(acc) THEN next
    ELSE Measured(acc.value + next.value, WeakerKind(acc.kind, next.kind))

AddAll(ms) == FoldLeft(AddMeasurement, NoMeasurement, ms)

\* A tool definition that older captures counted in bytes is no count of tokens.
SummaryMeasurement(c) ==
    IF c.kind = "tool_definition" /\ c.measure.kind = "counted" THEN Unknown ELSE c.measure

Categories(components) ==
    Strict([k \in Range(CategoryOrder) |->
        LET ofKind == SelectSeq(components, LAMBDA c : c.kind = k)
        IN  AddAll([i \in DOMAIN ofKind |-> SummaryMeasurement(ofKind[i])])])

\* A file counts under its path, where its size is known.
FileAttribution(components) ==
    LET files == SelectSeq(components, LAMBDA c : c.kind = "file" /\ c.path # "" /\ Available(c.measure))
        at(p) == SelectSeq(files, LAMBDA c : c.path = p)
    IN  [p \in {files[i].path : i \in DOMAIN files} |->
            AddAll([i \in DOMAIN at(p) |-> at(p)[i].measure])]

\* computeCoverage: the share of the provider's input that the context explains,
\* as its two parts.
CoverageOf(attributed, provider) ==
    IF Available(attributed) /\ Available(provider) /\ provider.value # 0
    THEN <<attributed.value, provider.value>> ELSE <<>>

Told(summary, f) == IF f \in DOMAIN summary THEN summary[f] ELSE NoMeasurement

\* SummarizeRequest; a call that used no input has no gap.
RequestSummary(x, categories, context, provider) ==
    LET input == Told(provider, "totalInput")
    IN  [id |-> x.id, started |-> x.started, categories |-> categories,
         files |-> FileAttribution(x.components), context |-> context, provider |-> provider,
         gap |-> IF input.value > 0 THEN Subtract(input, context) ELSE Unknown,
         coverage |-> CoverageOf(context, input)]

SummarizeRequest(x) ==
    LET context(categories) == AddAll([i \in DOMAIN CategoryOrder |-> categories[CategoryOrder[i]]])
        summary(categories) ==
            RequestSummary(x, categories, context(categories), ProviderSummary(x.usage))
    IN  summary(Categories(x.components))

\* summarizeCallProviderUsage: within a chain a call that used no input has one.
SummarizeCall(x) ==
    LET withGap(request) ==
            [request EXCEPT !.gap = Subtract(Told(request.provider, "totalInput"), request.context)]
    IN  withGap(SummarizeRequest(x))

------------------------------------------------------------------------------
(* Which call goes on from which. *)

\* The endpoints a protocol lists are the model's or known not to be; a request is
\* for the model when it is posted to one of the former.
RequestKind(endpoint, method) ==
    CASE endpoint = "model" /\ method = "POST" -> "model"
      [] endpoint = "listed" -> "non_model"
      [] OTHER -> ""

IsChainModelCall(x) == x.endpoint = "model" /\ x.method = "POST"

ModelsCompatible(a, b) == a = "" \/ b = "" \/ a = b

LineageHashes(components) ==
    {components[i].hash : i \in {i \in DOMAIN components :
        components[i].kind \in {"history", "tool_result", "file"}}} \ {""}

ExplicitLineage(previous, current) ==
    current.metadata.previous # "" /\ current.metadata.previous = previous.response

\* Anthropic's tool uses are those the earlier request carried, OpenAI's those the
\* earlier answer asked for.
ToolLineage(previous, current) ==
    LET uses == IF current.protocol = "anthropic_messages" THEN previous.metadata.uses
                ELSE previous.calls
    IN  uses \cap current.metadata.results # {}

\* All of the earlier context and more.
ContextLineage(previous, current) ==
    LET before == LineageHashes(previous.components)
        now == LineageHashes(current.components)
    IN  before # {} /\ before \subseteq now /\ before # now

\* The method by which current continues previous, or "".
Correlate(previous, current) ==
    CASE \/ previous.protocol # current.protocol
         \/ ~ ModelsCompatible(previous.model, current.model) -> ""
      [] ExplicitLineage(previous, current) -> "explicit_id"
      [] ToolLineage(previous, current) -> "tool_lineage"
      [] ContextLineage(previous, current) -> "context_lineage"
      [] OTHER -> ""

------------------------------------------------------------------------------
(* ChainBuilder.Build. *)

StartedBefore(x, y) == x.started < y.started \/ (x.started = y.started /\ x.id < y.id)

NothingBuilt == [chains |-> <<>>, uncorrelated |-> <<>>]

ChainStart(x) == [id |-> x.id, calls |-> <<x>>, methods |-> <<"chain_start">>]

GoneOn(chain, x, method) ==
    [id |-> chain.id, calls |-> Append(chain.calls, x), methods |-> Append(chain.methods, method)]

\* Mutant: only the chain begun last is looked at.
PlaceInLastChain(built, x) ==
    LET n == Len(built.chains)
        method == IF n = 0 THEN "" ELSE Correlate(Last(built.chains[n].calls), x)
    IN  IF ~ IsChainModelCall(x) THEN built
        ELSE CASE method # "" -> [built EXCEPT !.chains[n] = GoneOn(@, x, method)]
               [] method = "" /\ x.metadata.starts ->
                    [built EXCEPT !.chains = Append(@, ChainStart(x))]
               [] OTHER -> [built EXCEPT !.uncorrelated = Append(@, x)]

\* A call goes on from the one chain whose last call it continues; it starts a
\* chain when it continues none and looks like a start.
Place(built, x) ==
    LET method(i) == Correlate(Last(built.chains[i].calls), x)
        followed == {i \in DOMAIN built.chains : method(i) # ""}
        at == CHOOSE i \in followed : TRUE
    IN  IF ~ IsChainModelCall(x) THEN built
        ELSE CASE Cardinality(followed) = 1 ->
                    [built EXCEPT !.chains[at] = GoneOn(@, x, method(at))]
               [] followed = {} /\ x.metadata.starts ->
                    [built EXCEPT !.chains = Append(@, ChainStart(x))]
               [] OTHER -> [built EXCEPT !.uncorrelated = Append(@, x)]

Build(exchanges) == FoldLeft(Place, NothingBuilt, StableSort(exchanges, StartedBefore))

------------------------------------------------------------------------------
(* summarizeChain. *)

\* Mutant: a total is of the calls that tell.
ChainTotalOfTold(calls, f) == AddAll([i \in DOMAIN calls |-> Told(calls[i].provider, f)])

\* A field's total needs every call's.
ChainTotal(calls, f) ==
    IF \A i \in DOMAIN calls : Available(Told(calls[i].provider, f))
    THEN AddAll([i \in DOMAIN calls |-> calls[i].provider[f]]) ELSE NoMeasurement

ContextsKnown(calls) == \A i \in DOMAIN calls : Available(calls[i].context)

TotalContextSent(calls) ==
    IF ContextsKnown(calls) THEN AddAll([i \in DOMAIN calls |-> calls[i].context]) ELSE Unknown

\* The first of the largest, with the weakest kind seen since.
PeakContext(calls) ==
    LET higher(peak, call) ==
            IF ~ Available(peak) \/ call.context.value > peak.value THEN call.context
            ELSE [peak EXCEPT !.kind = WeakerKind(peak.kind, call.context.kind)]
    IN  IF ContextsKnown(calls) THEN FoldLeft(higher, NoMeasurement, calls) ELSE Unknown

\* ContextDelta: by how much a call's context grew over the last one's.
ContextDelta(calls, i) ==
    IF i = 1 THEN Unknown ELSE Subtract(calls[i].context, calls[i - 1].context)

\* The largest growth and the first call that grew by it; a chain that never grew
\* names no call.
LargestGrowth(calls) ==
    LET later == 2..Len(calls)
        delta(i) == ContextDelta(calls, i)
        largest == CHOOSE i \in later : \A j \in later :
                      /\ delta(j).value <= delta(i).value
                      /\ j < i => delta(j).value < delta(i).value
    IN  CASE later = {} \/ \E i \in later : ~ Available(delta(i)) -> [growth |-> Unknown, call |-> 0]
          [] delta(largest).value <= 0 ->
               [growth |-> Measured(0, delta(largest).kind), call |-> 0]
          [] OTHER -> [growth |-> delta(largest), call |-> largest]

Growth(calls, category) ==
    Subtract(Last(calls).categories[category], calls[1].categories[category])

ChainFields == {"totalInput", "cachedInput", "freshInput", "cacheCreation", "output", "reasoning"}

ChainSummary(chain, calls, sent, totals) ==
    [id |-> chain.id, started |-> calls[1].started, calls |-> calls,
     sent |-> sent, peak |-> PeakContext(calls),
     growth |-> Subtract(Last(calls).context, calls[1].context),
     largest |-> LargestGrowth(calls),
     grown |-> [k \in {"tool_result", "history", "tool_definition"} |-> Growth(calls, k)],
     totals |-> totals,
     observed |-> Cardinality({i \in DOMAIN calls : DOMAIN calls[i].provider # {}}),
     gap |-> Subtract(totals["totalInput"], sent),
     coverage |-> CoverageOf(sent, totals["totalInput"])]

SummarizeChain(chain) ==
    LET summary(calls) == ChainSummary(chain, calls, TotalContextSent(calls),
                                       [f \in ChainFields |-> ChainTotal(calls, f)])
    IN  summary(StrictSequence([i \in DOMAIN chain.calls |-> SummarizeCall(chain.calls[i])]))

\* The newest chain first; its time is kept to the second.
AnalyzeChains(exchanges) ==
    LET summaries(chains) == StrictSequence([i \in DOMAIN chains |-> SummarizeChain(chains[i])])
    IN  StableSort(summaries(Build(exchanges).chains), LAMBDA a, b : a.started > b.started)
===============================================================================
