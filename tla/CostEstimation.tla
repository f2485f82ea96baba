---------------------------- MODULE CostEstimation ----------------------------
(***************************************************************************)
(* What `tok cost` and `tok pricing missing` say sessions would have cost  *)
(* at API prices (internal/pricing/pricing.go from EstimateSession on).    *)
(* Money is whole micros; every part of a turn is rounded down.            *)
(***************************************************************************)
EXTENDS Measurements, FiniteSetsExt

CONSTANTS
    \* The active catalog: a sequence of [rank, provider, sku, names, from, currency,
    \* tiers]; `from` is 0 without a date and a tier's `upTo` -1 without a bound.  A
    \* profile without tiers is one tier without a bound.
    PriceCatalog,
    PricedSessions,     \* sessions without their turns
    PricedTurns,        \* turns: model, at (0 without a timestamp), billable
    Million,            \* the token count that rates are for, 1_000_000
    Word,               \* 2^63: products of int64 wrap there
    CostSessions, CostTurns     \* bounds

BillableKinds == {"input", "cacheRead", "cacheWrite", "output"}
RateKinds == {"fresh", "read", "cached", "write", "output"}

ASSUME PriceAssumption ==
    /\ PriceCatalog \in Seq(ToSet(PriceCatalog))
    /\ \A p \in ToSet(PriceCatalog) :
         /\ p.rank \in Int /\ p.from \in Int /\ p.sku \in Int /\ p.provider # ""
         /\ p.tiers \in Seq([upTo : Nat \cup {-1}, rates : [RateKinds -> Nat]])
    /\ \A t \in PricedTurns : \A f \in BillableKinds : t.billable[f].value \in Int
    /\ \A s \in PricedSessions : \A f \in BillableKinds : s.billable[f].value \in Int
    /\ Million \in Nat \ {0} /\ Word \in Nat \ {0}

VARIABLE billed         \* the sessions read so far

\* A model name is what it has before its first slash, and the rest.
NoModel == <<"", "">>
TurnModel(t, s) == IF t.model # NoModel THEN t.model ELSE s.model

CostInit == billed = <<>>

ReadSession(s) ==
    /\ Len(billed) < CostSessions
    /\ billed' = Append(billed, [id |-> s.id, source |-> s.source, model |-> s.model,
                                  updated |-> s.updated, billable |-> s.billable, turns |-> <<>>])

ReadTurn(t) ==
    /\ billed # <<>>
    /\ FoldLeft(LAMBDA n, s : n + Len(s.turns), 0, billed) < CostTurns
    /\ billed' = [billed EXCEPT ![Len(billed)].turns = Append(@, t)]

CostNext == (\E s \in PricedSessions : ReadSession(s)) \/ (\E t \in PricedTurns : ReadTurn(t))

CostSpec == CostInit /\ [][CostNext]_billed

------------------------------------------------------------------------------
\* profileAfter; a stable sort leaves what it does not order as it was.
PriceBefore(i, j) ==
    LET p == PriceCatalog[i]  q == PriceCatalog[j]
    IN  \/ p.rank > q.rank
        \/ p.rank = q.rank /\ p.from > q.from
        \/ p.rank = q.rank /\ p.from = q.from /\ p.sku < q.sku
        \/ p.rank = q.rank /\ p.from = q.from /\ p.sku = q.sku /\ i < j

\* Catalog.Resolve: no date asks for the newest profile there is.
PriceMatches(model, at) ==
    {i \in DOMAIN PriceCatalog :
        model \in PriceCatalog[i].names /\ (at = 0 \/ PriceCatalog[i].from <= at)}

PriceFor(model, at) ==
    PriceCatalog[CHOOSE i \in PriceMatches(model, at) :
                    \A j \in PriceMatches(model, at) \ {i} : PriceBefore(i, j)]

CostParts == {"fresh", "read", "write", "output"}
Nothing64 == [p \in CostParts |-> 0]
Total4(f) == f.fresh + f.read + f.write + f.output

\* Mutant: what is written to the cache is billed as fresh input too.
BillableTokensTwice(b) ==
    [fresh |-> b.input.value - b.cacheRead.value, read |-> b.cacheRead.value,
     write |-> b.cacheWrite.value, output |-> b.output.value]

\* A cache write that is missing counts as none.
BillableTokens(b) ==
    [fresh |-> b.input.value - b.cacheRead.value - b.cacheWrite.value,
     read |-> b.cacheRead.value, write |-> b.cacheWrite.value, output |-> b.output.value]

Billable(b) ==
    /\ \A f \in {"input", "cacheRead", "output"} : Available(b[f])
    /\ BillableTokens(b).fresh >= 0

TotalInput(tokens) == tokens.fresh + tokens.read + tokens.write

TiersFor(profile, input) ==
    {i \in DOMAIN profile.tiers : profile.tiers[i].upTo = -1 \/ input <= profile.tiers[i].upTo}

Rate(rates, part) ==
    IF part = "read" /\ rates.read = 0 THEN rates.cached ELSE rates[part]

\* int64 multiplication wraps, and division goes towards zero.
CostMicros(tokens, rate) ==
    LET product == ((tokens * rate + Word) % (2 * Word)) - Word
    IN  IF product < 0 THEN -((-product) \div Million) ELSE product \div Million

Refused(status) ==
    [status |-> status, usage |-> Nothing64, cost |-> Nothing64, provider |-> "", sku |-> "",
     currency |-> ""]

Estimate(profile, tokens, tiers, billable) ==
    LET rates == profile.tiers[Min(tiers)].rates
    IN  CASE ~ Billable(billable) -> Refused("unmeasured")
          [] Billable(billable) /\ tiers = {} -> Refused("no_tier")
          [] OTHER ->
               IF rates.write > 0 /\ ~Available(billable.cacheWrite) THEN Refused("unmeasured")
               ELSE [status |-> "available", usage |-> tokens,
                     cost |-> [p \in CostParts |-> CostMicros(tokens[p], Rate(rates, p))],
                     provider |-> profile.provider, sku |-> profile.sku,
                     currency |-> profile.currency]

EstimateUsage(model, at, billable) ==
    LET estimate(profile, tokens) ==
            Estimate(profile, tokens, TiersFor(profile, TotalInput(tokens)), billable)
    IN  IF PriceMatches(model, at) = {} THEN Refused("no_profile")
        ELSE estimate(PriceFor(model, at), BillableTokens(billable))

------------------------------------------------------------------------------
(* What is summed up. *)

\* A session without turns counts as one, at the time it was last written.
TurnsForCost(s) ==
    IF s.turns # <<>> THEN s.turns
    ELSE <<[model |-> s.model, at |-> s.updated, billable |-> s.billable]>>

\* A place is a session and a turn of it.
PlacesFor(sessions) ==
    UNION {{<<n, k>> : k \in DOMAIN TurnsForCost(billed[n])} : n \in sessions}
TurnFor(p) == TurnsForCost(billed[p[1]])[p[2]]
ModelFor(p) == TurnModel(TurnFor(p), billed[p[1]])

AllCosts(sessions) ==
    [p \in PlacesFor(sessions) |-> EstimateUsage(ModelFor(p), TurnFor(p).at, TurnFor(p).billable)]

\* On its own, a session without turns is priced without a date.
SessionCosts(n) ==
    [p \in PlacesFor({n}) |->
        EstimateUsage(ModelFor(p), IF billed[n].turns = <<>> THEN 0 ELSE TurnFor(p).at,
                      TurnFor(p).billable)]

Priced(costs) == {p \in DOMAIN costs : costs[p].status = "available"}

SumOver(places, costs, field) ==
    [part \in CostParts |-> SumFunctionOnSet([p \in places |-> costs[p][field][part]], places)]

\* In the order in which sessions and their turns are read.
ReadBefore(p, q) ==
    \/ p[1] < q[1]
    \/ p[1] = q[1] /\ p[2] < q[2]

FirstOf(places) == CHOOSE p \in places : \A q \in places \ {p} : ReadBefore(p, q)
LastOf(places) == CHOOSE p \in places : \A q \in places \ {p} : ReadBefore(q, p)

WithoutProfile(places, costs) == {p \in places : costs[p].status = "no_profile"}

\* Mutant: a model is missing once, however many turns it had.
MissingFromModels(places, costs) ==
    {[model |-> m, turns |-> 1] : m \in {ModelFor(p) : p \in WithoutProfile(places, costs)}}

\* missingFromTurns: the turns whose model has no profile, counted by the model.
MissingFromTurns(places, costs) ==
    {[model |-> m, turns |-> Cardinality({p \in WithoutProfile(places, costs) : ModelFor(p) = m})] :
        m \in {ModelFor(p) : p \in WithoutProfile(places, costs)}}

\* All of a session's turns, in one currency, or no cost.
SessionCost(costs, priced) ==
    LET places == DOMAIN costs
        ok == priced = places /\ \A p, q \in places : costs[p].currency = costs[q].currency
        total(field) == IF ok THEN SumOver(places, costs, field) ELSE Nothing64
    IN  [available |-> ok, usage |-> total("usage"), cost |-> total("cost"),
         currency |-> IF priced = {} THEN "" ELSE costs[FirstOf(priced)].currency,
         missing |-> MissingFromTurns(places, costs)]

EstimateSession(n) ==
    LET of(costs) == SessionCost(costs, Priced(costs)) IN of(Strict(SessionCosts(n)))

ModelCost(k, places, costs) ==
    [sku |-> k[1], model |-> k[2], calls |-> Cardinality(places),
     usage |-> SumOver(places, costs, "usage"), cost |-> SumOver(places, costs, "cost")]

ModelOf(p, costs) == <<costs[p].sku, ModelFor(p)>>
ModelCosts(places, costs) ==
    {ModelCost(k, {p \in places : ModelOf(p, costs) = k}, costs) :
        k \in {ModelOf(p, costs) : p \in places}}

\* A group is of one provider and one source; its currency is its last turn's.
ProviderCost(k, places, costs) ==
    [provider |-> k[1], source |-> k[2], currency |-> costs[LastOf(places)].currency,
     sessions |-> Cardinality({billed[p[1]].id : p \in places}), calls |-> Cardinality(places),
     usage |-> SumOver(places, costs, "usage"), cost |-> SumOver(places, costs, "cost"),
     models |-> ModelCosts(places, costs)]

GroupOf(p, costs) == <<costs[p].provider, billed[p[1]].source>>
Groups(places, costs) ==
    {ProviderCost(k, {p \in places : GroupOf(p, costs) = k}, costs) :
        k \in {GroupOf(p, costs) : p \in places}}

\* `provider` is "" for all; a missing model is a provider's by its prefix.
Collection(costs, provider) ==
    LET known == {p \in Priced(costs) : provider \in {"", costs[p].provider}}
        lost == {p \in DOMAIN costs \ Priced(costs) : provider \in {"", ModelFor(p)[1]}}
    IN  [available |-> known # {}, groups |-> Groups(known, costs),
         missing |-> MissingFromTurns(lost, costs)]

EstimateCollection(sessions, provider) == Collection(Strict(AllCosts(sessions)), provider)

MissingProfiles(sessions) ==
    LET lost == {p \in PlacesFor(sessions) : PriceMatches(ModelFor(p), TurnFor(p).at) = {}}
        of(m) == {p \in lost : ModelFor(p) = m}
    IN  {[model |-> m, turns |-> Cardinality(of(m)),
          sessions |-> Cardinality({billed[p[1]].id : p \in of(m)})] :
            m \in {ModelFor(p) : p \in lost}}

------------------------------------------------------------------------------
(* Properties. *)

\* The rates a turn is priced at, by what they are and not how they are found: the
\* newest profile of the highest rank that names the model at that time, and its
\* first tier that takes the whole input.
RatesOf(t, s) ==
    LET fits == PriceMatches(TurnModel(t, s), t.at)
        best == CHOOSE i \in fits : \A j \in fits : i = j \/ PriceBefore(i, j)
        tiers == PriceCatalog[best].tiers
    IN  tiers[CHOOSE k \in DOMAIN tiers :
                 /\ tiers[k].upTo = -1 \/ t.billable.input.value <= tiers[k].upTo
                 /\ \A l \in 1..(k - 1) : 0 <= tiers[l].upTo /\ tiers[l].upTo < t.billable.input.value]
          .rates

\* Micros times Million, exactly: cached input is not charged as fresh input too.
ExactPrice(t, s) ==
    LET b == t.billable  r == RatesOf(t, s)
    IN  (b.input.value - b.cacheRead.value) * r.fresh
          + b.cacheWrite.value * (r.write - r.fresh)
          + b.cacheRead.value * (IF r.read = 0 THEN r.cached ELSE r.read)
          + b.output.value * r.output

\* Of records, in a set.
CallsOf(records) == SumFunctionOnSet([r \in records |-> r.calls], records)
TurnsOf(records) == SumFunctionOnSet([r \in records |-> r.turns], records)
TotalOf(records, field) ==
    [part \in CostParts |-> SumFunctionOnSet([r \in records |-> r[field][part]], records)]

\* Where no product leaves the 64 bits, what a session is said to cost is the price of
\* the tokens it reports, each once, less than four micros below it for every turn;
\* it is said only where every turn has a price, in one currency, and then
\* `tok cost <session>` and `tok cost --all` say the same (EstimateSession,
\* EstimateCollection, costMicros).
SessionCostIsItsPrice ==
    \A n \in DOMAIN billed :
        LET s == billed[n]
            cost == EstimateSession(n)
            alone == EstimateCollection({n}, "")
            turns == DOMAIN s.turns
            exact == SumFunctionOnSet([i \in turns |-> ExactPrice(s.turns[i], s)], turns)
            tokens(f) == SumFunctionOnSet([i \in turns |-> s.turns[i].billable[f].value], turns)
            counts == \A i \in turns : \A f \in BillableKinds : s.turns[i].billable[f].value >= 0
        IN  s.turns # <<>> /\ cost.available =>
              /\ counts /\ exact < Word =>
                   /\ Million * Total4(cost.cost) <= exact
                   /\ exact < Million * (Total4(cost.cost) + 4 * Len(s.turns))
              /\ TotalInput(cost.usage) = tokens("input")
              /\ cost.usage.output = tokens("output")
              /\ cost.missing = {} /\ alone.missing = {}
              /\ \A g \in alone.groups : g.currency = cost.currency
              /\ cost.cost = TotalOf(alone.groups, "cost")

\* Each turn that was read is in exactly one group, or its model is counted missing, or
\* it has no usage that can be priced; a group is the sum of its models, the view of
\* one provider is that provider's part of the whole, a group's currency is that of
\* every turn in it while a provider has one, and the missing profiles of
\* `tok pricing missing` are those of `tok cost` (EstimateCollection, MissingProfiles).
CollectionCountsEveryTurn ==
    LET all == Strict(AllCosts(DOMAIN billed))
        whole == EstimateCollection(DOMAIN billed, "")
        unpriced == {p \in DOMAIN all : all[p].status \in {"unmeasured", "no_tier"}}
        profiles(provider) == {p \in ToSet(PriceCatalog) : p.provider = provider}
    IN  /\ CallsOf(whole.groups) + TurnsOf(whole.missing) + Cardinality(unpriced) = Cardinality(DOMAIN all)
        /\ \A g \in whole.groups :
             /\ CallsOf(g.models) = g.calls
             /\ g.cost = TotalOf(g.models, "cost") /\ g.usage = TotalOf(g.models, "usage")
             /\ \A p \in profiles(g.provider) :
                  (\A q \in profiles(g.provider) : p.currency = q.currency) => p.currency = g.currency
        /\ \A provider \in {p.provider : p \in ToSet(PriceCatalog)} :
             LET one == EstimateCollection(DOMAIN billed, provider)
             IN  /\ one.groups = {g \in whole.groups : g.provider = provider}
                 /\ one.missing = {m \in whole.missing : m.model[1] = provider}
        /\ whole.missing = {[model |-> m.model, turns |-> m.turns] : m \in MissingProfiles(DOMAIN billed)}
===============================================================================
