# A TLA+ model of tok

`tok` reads the usage of coding agents: from the session files the agents write (the *sources*), and from a
*gateway*, a local proxy that forwards an agent's requests to its provider and records each exchange. This directory
specifies the parts of it that are hard to test, model-checks them with TLC and proves the most important results
with TLAPS. Paths below are relative to `src/internal/`; `PROJECT.json` maps every definition to its lines.

## 1. Inventory

### The gateway: processes, files and goroutines

| component | state | operations | what makes it hard |
|---|---|---|---|
| lifecycle (`gateway/manager.go`, `runtime.go`, `runtime_state.go`, `app/app.go`) | config entry, `<profile>.json` state file, each daemon's listeners, exchanges and server maps | `gateway start`, `stop`, `status`, `remove`, `setup`; the daemon's `Start`, `Wait`, `Shutdown`, its control endpoint | several processes that share a file by its name and an address; time limits; crashes; a shutdown that waits for exchanges without a limit; two goroutines that shut down at once |
| capture (`gateway/proxy.go`, `stream_observer.go`) | per exchange: request capture, response buffer or stream observer | accept, forward, answer, read or observe, break, cancel, record | a transport goroutine that still sends the body when the answer comes; end, close and failure of a stream; every path must record once |
| recorder (`gateway/recorder.go`) | `<profile>.jsonl`, `<profile>.failures.jsonl`, `journalErrs` in memory | `Record`, `Replay`, `RecorderFailures`, `Purge`, `Close` | writes that fail half way, two files that are not written or removed together, state that is lost with the process |
| report (`app/app.go` `GatewayReport`, `gateway/profile_accounting.go`) | none: reads the two files | `Replay`, chains, `RecorderFailures`, `AccountProfile` | reads two files a daemon appends to; must not call an incomplete account complete |
| chains, token accounting, observers (`gateway/chain.go`, `accounting.go`, `token_semantics.go`, `observer_*.go`) | none: functions of exchanges | grouping, sums, `partial` from unknown parts | duplicates, order, absent values against zero |

The daemon and the commands meet in the state file (written by the daemon, removed by everyone), the listen address
and the control endpoint (health check and shutdown request, both authenticated with what the state file says). The
proxy calls the recorder from every handler under one mutex; the report and the purge are other processes that open
the recorder's files by name.

### The rest

| component | state | what makes it hard |
|---|---|---|
| pricing (`pricing/pricing.go`) | override file, cache (catalog and metadata files), embedded catalog | updates by several processes without a lock, two files written one after another, precedence, effective dates, tiers, rounding |
| config (`config/config.go`) | one YAML file | load, modify and save without a lock |
| matching, reconciliation, coverage (`match/`, `reconcile/`, `coverage/`) | none | one-to-one claims, ambiguity, percentile boundaries |
| sources (`source/jsonl.go`, `source/claude/`, `source/codex/`) | parser state over one file | snapshots of one message counted once, cumulative counters that restart, record limits, files still being written |
| rules and analysis (`rule/tool/`, `analyze/`) | none | thresholds |
| command line, rendering, web UI | none that outlives a call | - |

The properties that make each correct are in the sections below for what is modelled, and in `PROJECT.json`
("hazards") for every component, at the line where it can go wrong.

### What must be right

| component | what its properties say |
|---|---|
| lifecycle | one daemon holds the address; commands tell the truth about it; a daemon leaves no file behind; commands return |
| capture, recorder, report | every exchange is recorded once and whole; a report that says complete is |
| chains, accounts, observers | a chain is of one conversation, whatever others do; chains, report and observations read one capture alike; what a provider did not say is not zero |
| pricing, cost | the files stay readable and current; a name has one price; a cost is that of the tokens, each once |
| config | an edit that ran alone is kept |
| sources, reader | a response is counted once, counters are taken apart without loss, no line is lost or made up |
| matching, reconciliation, coverage, rules | pairs are mutual and of the best, counters add up, everything is counted once |

## 2. Plan

1. **Lifecycle** - `GatewaySlot` (abstract), `GatewayLifecycle` (detailed, implements it), proofs. *Done.*
2. **Capture, recorder, report** - `FileRecorder`, `ExchangeCapture` (extends it), `GatewayReport` (composes both with
   the report and the purge), proofs. *Done.*
3. **What is made of a capture** - `ProviderUsage`, `ProtocolObservers`, `RequestChains`, `ProfileAccounts`, composed
   with the agents that talk through the proxy in `RecordedTraffic`, with proofs about what is read of an answer and
   what a report makes of it. *Done.*
4. **Match and reconcile** - `Matching`, composed with the gathering of both sides in `SessionInspection`, with proofs;
   coverage and the rules in `SessionAnalysis`, with proofs. *Done.*
5. **Pricing and config** - `PricingStore`, `CostEstimation` and `ConfigStore`, with proofs. *Done.*
6. **Sources** - `RecordReader`, `SourceDetection`, `CodexSession` and `ClaudeSession`, with proofs. *Done.*
7. **More proofs** - that `RequestChains.Place` leaves every call in one place; an
   abstract store that `PricingStore` implements when adds do not overlap.

The modules of 3, 4 and 6 use folds and no `RECURSIVE` operator, so that they can be proved about.

## 3. Modules and the code they model

**`GatewaySlot`** is the abstract promise about one profile's address: at most one daemon holds it, a daemon takes it
once, and a command calls a daemon running only if it took the address and stopped only if it has left it.

**`GatewayLifecycle`** is one profile in detail. `phase[d]` is the position of daemon `d`'s main goroutine in
`App.GatewayServe` (`booting`: process spawned; `loaded`: configuration read; `bound`: `net.Listen` and the maps;
`serving`: state file written), `task[d][g]` the position of goroutine `g` in `Runtime.shutdown`. `listening`,
`controlled`, `busy` and `registered` are the daemon's proxy listener, control endpoint, exchanges and server maps.
`pc[c]` is the position of command `c` in `Manager.startOne`, `waitReady`, `Manager.Stop`, `Runtime.Status` or
`App.GatewayRemove`, and `seen[c]` what it last read from the state file. Every read, write, probe and request is a
step of its own. A health check succeeds for exactly the daemon whose identity was read, since instance id and token
are random; it may fail when the daemon is gone, and, with `ProbeMayTimeOut`, at any time.

**`FileRecorder`** is `FileRecorder.Record` and the two files. A write may fail before anything is written or leave a
fragment, which in the capture file makes `Replay` fail and in the journal swallows the next line.

**`ExchangeCapture`** is one daemon's handlers: `Accept` and `Refuse` are `captureMiddleware`; `AnswerWhole`,
`AnswerStream`, `ReadResponse` and `ResponseBreaks` are `observeResponse`; `RoundTripFails` and `HandleBreak` are
`errorHandler`; `Frame`, `Overrun`, `StreamEnds`, `StreamBreaks`, `CloseStream` and `CloseEnded` are `streamObserver`.
`sent[x]` is what the client's stream carried, `noted[x]` what the observer made of it. A frame is a whole event with
its closing blank line; a fragment at the end of a stream is dropped by `finalize`, as the format prescribes. `Stop`,
`Crash` and `Start` are the daemon's life as `GatewayLifecycle` has it: a graceful end waits for the exchanges
(`ExitsDrained` there).

**`GatewayReport`** adds `tok gateway report` (read the capture, read the journal, conclude) and the two halves of
`Purge`, between any two steps of the above.

**`PricingStore`** is `internal/pricing`'s three files and the invocations of `tok` that share them without a lock.
`override` is the override file, `catalogFile` and `metaFile` the version of the catalog that `catalog.json` holds and
that the tag in `catalog.meta.json` names. `ReadOverride` and `RenameOverride` are the two sides of `AddOverride`;
`Ask`, `NotModified`, `Download`, `WriteCatalog` and `WriteMeta` are `Update`; `List`, `ReadCache` and `MergeOverride`
are `Active`. A failed request, a failed write and a kill all end an invocation between two of these (`Stop`).
`Merge`, `Before` and `Resolve` are `mergeCatalogs`, `profileAfter` and `Catalog.Resolve`. `saved` and `raced` are not
in the code: what adds have saved, and whether two invocations replaced one file at once. `saved` is computed from the
keys of profiles, not from what `replaceProviderModel` drops.

**Values.** `Measurements` is `model.Measurement` and its arithmetic: a value that may be absent is never zero.
`ContextAccounting` is what both transcript readers attribute to the context and how it explains the input;
`Observations` is the canonical observation and what `Validate` refuses. They have no state.

**`ClaudeSession`** and **`CodexSession`** are the two `parseSession` functions, one action per branch of the loop over
a file's lines (`ReadInvocation`, `ReadDuplicate`, `ReadConflict`, `ReadTokenCount`, ...), with the parser's locals as
the fields of one variable. What the code does after the loop - the session's usage, its turns, the source's sum, the
observations - are operators over that state, so that an invariant speaks of every file that is a prefix of another. A
line is one of a small set; a text is its length. `CodexAssumption` types the lines: a counter is any integer, as the
parser refuses none. `DedupeContext` keeps the components that are first with their key and numbers them by their rank;
`Places` says in which contexts a record appears and where.

**`Matching`** is `match.Match` and `reconcile.Reconcile` as operators over sets of observations. The code iterates over
maps and sorts: `Related` is what one observation's map holds, `PreferenceInOrder` goes through it in one order,
`Preference` in some order, and `MatchingIsMutual` states that every order chooses the same.

**`SessionInspection`** is `App.reconcileSession`, from the session's turns to
the captures of the selected profiles, one file and one exchange at a time, any of which may be absent or broken. It ends
in a report, in a reason why there is none, or in an error: the session or a turn of it cannot be projected
(`SessionRefused`, `ProjectionFails`), the configuration does not load (`ConfigFails`), an observation is invalid or
carried twice (`ReportFails`). `times` is what the window is made of; a session may have times of its own beside its
turns' (`TimesAssumption` makes these finitely many and not zero, which stands for a time that is absent). `held` is not
in the code: every exchange of the model's that the captures were found to hold, whether it was taken, lay outside the
window or could not be projected.
`PoolsAssumption` says of the pools what the code's projections and `Validate` give: a name, a side, numbers, and names
that begin differently on the two sides; `CapturesAssumption` only keeps the captures apart from the names of stages.

**`SessionAnalysis`** is `coverage.Scan`, both rules and `Analyzer.Analyze` over sessions that grow component by
component. It reads them by *places*, a session, a turn and an index: a count is of the places that pass, a total is a
sum over them, the sorted sizes are ranks, and the order of the turns is `Precedes`, which ties break as the stable sort
does. `AnalysisAssumption` is what the types of the code give: sequences are integers, sizes and estimates not negative.
The rank of a percentile is computed in floating point; for 50, 90 and 95 per cent it is the exact one, which is what
the model takes. **`CostEstimation`** is `EstimateSession`, `EstimateCollection` and `MissingProfiles` over one catalog and
the *places* of sessions, a session and a turn of it, in integers that wrap at `Word`; only which turn is first and which
last depends on their order (`FirstOf`, `LastOf`, for currencies). `PriceAssumption` says what `Catalog.Validate` and the
types give: a provider is named, rates are not negative, counts are integers, negative ones too. **`RecordReader`** is `RecordReader.Next` over every short file, buffer by buffer; what a
line of a file is, and its number, is stated of the file alone (`LineEnds`, `LineOf`, `NumberOf`). **`SourceDetection`**
is `Detect` of the agents and of 9Router on a machine that changes, and the files that the commands then open. A
directory has transcripts at some depth below it, whose extension is spelled `.jsonl` or otherwise (`FilesAssumption`).
`HasSessionData` and `SessionFilesIn` are the code's two tests of them, written apart as there: detection goes down
`SearchDepth` directories and compares names in small letters, collection goes down to any depth and compares the
extension as spelled. `PathsAssumption` says that the path an override names is none that the platform searches.

**`ConfigStore`** is `config.Store`: an edit is `Load`, `Truncate` and `Write`, since `os.WriteFile` truncates when it
opens; another command runs, or the command is killed, between any two. Two writes to a file that both have truncated
may leave the end of the longer text under the shorter, which is read as anything or refused (`Loads`, `LoadFails`).

**`ProviderUsage`** holds the three readings of a provider's usage (`ProviderSummary` for a request, `AccountUsage` for
a profile, `ObservationUsage` for `inspect`), **`ProtocolObservers`** what is kept of a body, an answer and a stream's
frames, **`RequestChains`** lineage, `ChainBuilder.Build` and the summaries, **`ProfileAccounts`** `AccountProfile` and
`ObservationFromExchange`. **`RecordedTraffic`** composes them: agents ask, retry, compact their history and send other
requests, their calls end in any order, and the capture has what the proxy kept. Every text of a conversation is
distinct from every other one: where conversations share texts, lineage by content joins them by design. Exchanges that
are recorded twice (section 5) are left out here. It shows some limits of `Build` that no document denies: a
conversation's first call is often a chain of its own, because the latest user message is `other` and not lineage; an
answer that was streamed keeps neither the response's id nor its tool calls, so only content links later calls to it;
and a call that was sent again leaves two chains that a later call goes on from, which is then in neither.

The `MC...` modules extend these and give TLC its symmetry. Definitions above an action that differ from it in one
respect (`WritesEarly` above `LoadConfig`, ...) are the mutants of `PROJECT.json`: the same step with a plausible bug.
TLC finds the property of each mutant violated, which shows that the property says something about that step. No
specification uses them.

`MCAnalyses` puts the modules from `ClaudeSession` to `RecordedTraffic` side by side: `part` says which one a behaviour
is about, and the others stay as they began. They share no state in the code either, beyond the files that are
modelled in each; what one hands to the next (a session's observations, a capture's exchanges) is chosen from a pool
that holds each case.

## 4. Runs

| run | instance | shows |
|---|---|---|
| `lifecycle_safety` | 2 daemons, 2 commands, all verbs, 1 shutdown goroutine beside main, prompt health checks | `JudgedDead`; `SlotSpec`: the refinement of `GatewaySlot` |
| `lifecycle_ends` | 2 daemons, 1 command, health checks that may time out, fairness | `NamedDaemonWasUp`, `GracefulExitLeavesNoFile`, `ExitsDrained`, `CommandsReturn`, `ShutdownCompletes` |
| `capture_accounting` | 1 exchange, Anthropic's terminal event, fairness | `AccountedOnce`, `StreamRecordIsWhole`, `AccountedInTheEnd` |
| `report_sound` | 2 exchanges, journal writable | `CompleteIsComplete` |
| `pricing_files` | 2 invocations, 4 additions by 2 providers, 3 published catalogs of which one does not validate | `OverrideReadable`, `AddedIsKept`, `NotModifiedIsCurrent`, `LastKnownGood`, `ResolvesByPrecedence` |
| `analyses` | files of up to 4 lines of 12 (Claude) and 16 kinds (Codex); 3 turns against 3 exchanges of 2 captures; 2 sessions, 2 turns, 3 components; 2 priced sessions of 2 turns; 2 editors, 3 edits; files of up to 6 bytes; 3 changes of a machine; 6 mixes of agents, 3 or 4 calls | `ClaudeCountsResponsesOnce` ... `ReportedIsWhatWasSaid`: the invariants of the nine parts |
| `lifecycle_duplicate` | 2 daemons, 1 command | finding: `NoDuplicateLaunch` fails |
| `capture_twice`, `capture_http_error`, `capture_measure` | 1 exchange | findings: `RecordedOnce`, `HttpErrorIsNoSuccess`, `MeasuredOnceForwarded` fail |
| `report_unhealthy` | 1 exchange, journal not writable | finding: `CompleteIsComplete` fails |
| `pricing_add` | 1 invocation, 3 additions | finding: `AddPersistsAndResolves` fails |

**Bounds.** Two daemons are what it takes for one to outlive its state file while another starts; two commands for
one to act on what another has changed. Daemons and commands are interchangeable (symmetry sets, in the runs without
liveness). Exchanges share only the recorder, and the recorder's fragments are shared by all: one exchange shows what
a handler does, two show what a report may miss. `Handlers` bounds the shutdown goroutines; a request beyond it joins
one that runs. Two
invocations of `tok` are what a lost update takes; `Published` bounds what the remote publishes: a change of price by
date, a catalog that does not validate, and one that renames an embedded profile. The remote is assumed never to
publish an earlier catalog again: with a tag that comes back, a crash between the two writes of the cache would leave
a 304 for the wrong catalog. In `analyses`, a repeated
response needs two lines, a conflict and the duplicate after it three, and a fourth puts context between them; a
counter that falls and rises takes three events. A tie needs two candidates on one side, a chain that could be mistaken
for another two conversations with two calls each, the compensation of one exchange's silence by another's excess two
calls. An exchange at the edge of the session's window pairs with a turn exactly `MatchWindow` away: the pool has one
on the edge, one beyond it, one that cannot be projected and a turn without a time; a turn that comes twice is refused. `SearchDepth` is 4 in the code and 1
in the runs, with files at and below it, in both spellings. `Chunk` = 2 and `Limit` = 3 put a record below, at and above both limits in a file of 6 bytes; `Word` = 512 lets
products wrap for some of the turns. Elsewhere nothing else is bounded: every variable ranges over a finite set. The proofs hold without these bounds.

**Fairness.** Weak fairness for each daemon's and each command's next step: processes the system schedules keep
running. Strong fairness for `AwaitTimesOut`: `waitReady` polls in a `select` whose ready cases are chosen at random,
so a deadline that has passed is seen in the end. In `ExchangeCapture`, weak fairness for the steps of a handler that
wait for nobody. Users, crashes, providers and the ends of exchanges are not fair: `ShutdownCompletes` and
`AccountedInTheEnd` say "provided exchanges end" instead.

## 5. Findings

- *A second daemon beside a serving one* (`lifecycle_duplicate`). `Runtime.shutdown` closes the listener, drains, and
  then removes the state file by the profile's name. A daemon started in between has written its own name there. After
  the removal nothing points to it: the next `start` spawns another daemon, which fails on the address, and `stop` and
  `status` report the profile as stopped.
- *A broken response is recorded twice* (`capture_twice`), by `observeResponse` and by `errorHandler`.
- *A stream with an HTTP error is a success* (`capture_http_error`): `streamObserver.finalize` does not look at the
  status.
- *The measured size of a streamed exchange's body is not used* (`capture_measure`).
- *A report says complete when neither file could be written* (`report_unhealthy`): `journalErrs` lives in the
  daemon's memory and the report is another process.

- *An add that makes the override file unreadable* (`pricing_add`). `tok pricing add p/m1 --sku s` and then
  `tok pricing add p/m2 --sku m1` both succeed; the file then has two profiles for `p/m1`, which `Validate` refuses on
  every later read, so that `pricing`, `cost` and the next `add` fail until it is edited by hand. `OverrideReadable`
  shows the condition under which this cannot happen: no SKU is another SKU's model, as without `--sku`.

Three things were met while modelling and are not runs of their own:

- *`tok usage` tells a partial sum as an exact one.* `source/claude/source.go:82` hands the per-file sums to
  `SumSnapshots`, which takes each for one whole response: a counter that one response left out or reported as negative,
  and that the session therefore does not know, becomes a derived number. `docs/architecture.md:633` says "unknown is
  never converted to measured" and `docs/reconciliation-observation.md:194` that such a field "becomes unknown" for a
  session. `ClaudeSessionAgreesWithTurns` states agreement for sessions whose total is known.
- *After a counter falls*, `source/codex/parser.go:483` makes the turn unknown and later deltas are against the fallen
  counter, so the turns that are known may sum to more than the session's cumulative maximum. `CodexTurnsTelescope` is
  about files in which every turn is known.
- *A source is ready and has nothing to read.* `source/detect.go:186` takes `X.JSONL` for a transcript, and
  `collectSessionFiles` (`source/codex/source.go:279`, `source/claude/source.go:286`) passes it over; a configured path
  counts for detection only. `docs/adapter-spec.md:707` calls an adapter usable when it can "discover at least one
  supported analysis unit". `DetectedIsRead` therefore says of a ready source that it has a transcript in reach of the
  search, and not that it is read; what is read does make it ready, but for a depth or a broken path.

Some lines of the code are for inputs that the instances leave out or no document is about: a session without turns is
priced without a date by `cost <session>` and at its last update by `cost --all`; turns without a measured usage appear
in a collection under no model; a group's currency is its last turn's.

What overlapping invocations lose is in the properties' conditions and not a finding, since no document promises more:
two adds at once keep only one of the profiles, and two updates at once may leave the older catalog under the newer
tag, which the remote then confirms with 304 until it publishes again.

## 6. Proofs

All theorems are about every value of the constants, under the modules' assumptions (an identity for "nobody" that is
no daemon, a main goroutine that is no handler, Boolean switches, known verbs and marks).

**`GatewayLifecycleProofs`**: `TypeCorrect`, then the inductive invariant `IInv`, whose parts are: one listener at a
time; sockets, exchanges and map entries belong to live daemons; goroutines are idle until the daemon serves; the
order of shutdown (a goroutine past the drain has the listener closed and no exchange in flight, one past the removal
has the control endpoint closed); a daemon forgotten by the maps has shut; the file names published daemons and no
exited one; and what a command has seen was published, and is dead where it acts on its death. `GracefulExitIsClean`
needs the order of shutdown because main may exit while a handler's goroutine still runs: what makes it right is that
main's own shutdown finds the maps empty only after the other goroutine has removed the file. From `IInv` follow the
safety properties, `ExitIsDrained` (an action property) and `ImplementsSlot`, by the refinement mapping
`slot <- listening`, step by step. `FileIsClearedOfTheDead` and `ImplementsSlot` hold for prompt health checks only:
with a check that times out on a live daemon, `stop` does call a serving daemon stopped.

**`CaptureProofs`**: `CInv` (types; the number of calls of `Record` follows from the step; an exchange that
was not recorded has no line; the observer noted only what was sent, and all of it unless it overran; lines of
streams are whole) and `OneLineForOneTry` (with a working journal, the calls of `Record` and the lines correspond).
`CInv` survives a purge, `OneLineForOneTry` does not, which is why they are apart. For the report, `CInv` is lifted to
the composition, with: every exchange that ended is in the capture or the journal or was purged; what the report read
when it began is therefore missing an ended exchange only if the journal has an entry, and still has it when the report
reads it.

**`PricingStoreProofs`**: `OverrideInv` (what is in the override file, and what each add has read of it, are saved
additions that validate; without overlap the file is `saved`), which rests on `DisplacedShares`: under
`SkusNameThemselves`, what an add displaces is what shares a key with it. `CacheInv` (without overlap, tag <= catalog
<= remote, and an update holds a version between the last two), from which a tag equal to the remote's forces the
catalog to be. `MergeUnambiguous` and `ResolvesToOne`: merging keeps catalogs unambiguous, and in an unambiguous catalog
`Before` has at most one first entry; that it has one is `FirstInOrder`, since `Before` is a total order and a catalog
is finite (`FiniteAssumption`). `ListingsResolve` puts them together by `ListedInv`: the override file and what listings have read of it
stay finite, and a listing that got as far as merging has read one that validates.
The costs need no more than the types of what was read (`CostType`). `EstimateFacts` says what an estimate is, and
`RecordsAddUp` that records made of the parts of a set, one for each key, count and sum up to what the set does: models
and groups are such parts, and so are missing models. `CollectionIsCounted` splits the places by their status.
`SessionIsPriced` rests on `MicrosRoundDown` (a product that fits is divided and rounded down), `ExactPriceFacts` (the
price is of four parts, none negative, so that each product fits when their sum does), `FourRoundings` for a turn and
`SumsWithin` for the turns together; `TurnFacts` has that the profile and the tier that are found are those that
`RatesOf` describes.

**`InductionLemmas`** makes the inductions that the other proofs need: over numbers (`LeastNumber`), over the subsets of
a finite set, the first element of a finite total order, and the folds of the community modules (`IterationExists`,
`SumFacts`), and what appending and joining do to sequences of any elements,
each derived from the least-number principle and the library's facts on cardinality for a *set* rather than a predicate,
since the provers cannot instantiate a theorem's operator parameter.

**`InspectionProofs`**: `InspectInv` types what has been gathered (turns and exchanges of the pools, names of turns all
different, a report only of all captures and of what was gathered), and says that the window is of every turn that has
a time, and that whatever the captures held was read and taken, or lay outside the window, or forbids a report. `MatchingIsMutual` rests on two facts about the
heuristic's order. `Better` compares scores lexicographically, so "neither is better" is an equivalence that `Better`
respects; a fold that keeps what is not worse therefore ends with the set of all best candidates, whatever the order
(`TopOf` is characterised by induction over the sequence's prefixes). A match is then of two observations that are each
other's only pick, which makes it mutual and of the best. `ReportAddsUp` is counting: the results of the requests are
as many as the requests because names are unique, statuses divide them (`ThreeParts`), and a pair's field is
unavailable exactly where its difference is. `ReportsMissNoMatch` is about two windows, the session's and the
matcher's for each pair: an exchange outside the first is too far from every turn for the second (`OutsideIsNoCandidate`,
as the window reaches from before the first turn to after the last), a request that is no turn's candidate changes no
turn's preference and no request's, and is itself unmatched (`StrangersAddNothing`), so that matching with everything
that was cut off gives the report's matches and those. Identities that the two sides share reach further than any
window, and the property excepts them; no source gives a turn an identity that a gateway's observation has.

Of `SessionAnalysis`, `AnalysisTypeHolds` types the sessions, and both theorems follow from the types alone, since
coverage and the rules read them and change nothing. `CoverageIsOfAll`: every count is the size of a part of all places,
or a sum over sessions, so it `AddsOver` sessions (`CountsAdd`, `WeightsAdd`, `ScanAdds`), those of either source and
each on its own; the classes of completeness are disjoint and leave nothing over; and the k-th of the sizes in order has
less than k sizes below it and k up to it (`SortedFacts`, by the least size that has k up to it), which at the nearest
rank is what a percentile promises (`PercentileFacts`). `RepeatsAreOfDistinctCalls`: `Precedes` is a strict total order
of a session's places (`PlacesAreOrdered`), so counting what comes before numbers them (`NumbersInOrder`), and the fold
over them keeps `FirstOfEach`: one place of each call that was met and of no other, the earliest of all first. The
calls of a finding are then distinct, the first call's earliest turn is no later than any other's, and the sum over the
later places that have an estimate is at most that of their calls' largest (`SumOfSomeIsLess`).

**`SourceProofs`**: `DetectionIsTrue` follows from the machine's types: the first session path that is broken or has
data in reach decides (`SearchFacts`), so a file that is read and in reach is on that path or behind it, and one on a
path behind a broken one is why `DetectedIsRead` excepts that. `RecordsAreLines` has
`ReaderInv`: what is left is the tail of the file; the records returned so far are the lines up to one end `s`, in order
and under their numbers; and the buffer is what was read since `s`, without a newline, or, while a record is being
discarded, what was read since is longer than the bound. Each step then either moves within one line or returns the one
that ends where the slice does (`CompletedLine`).
`CodexInv`: the usage is that of the last event with the largest total, if one is not negative; and each unreadable
line's record is in one place, among what is pending or in one snapshot's context, and in no place before it is read,
which every action keeps because it names its own line only (`StepGathers`) and an event only moves what is pending
(`DedupeKeeps`: dropping repeated components keeps a record that appears once). `CodexTurnsAddUp` then is a telescoping
sum: with no unknown turn the totals never fall, so the largest is the last (`LastIsLargest`), and the differences of a
sequence that starts at zero add up to its end (`DifferencesAddUp`, by `SumFacts` on the community modules' sum).
`CodexReadingIsSound` follows a counter through the delta, the usage and the projection (`TurnCounted`,
`ObservationIsSound`).

For the configuration, `ConfigInv` is `ConfigTypeOK`, `AloneOK` (an edit that is alone so far has no other beside it) and `SettledOK`: what
an edit that ran alone has settled is in the file, and in what every edit of another entry has loaded and is about to
write. The second half is what makes it inductive, since a later edit writes the whole file from what it loaded;
`EditHolds` and `OtherHolds` say what an edit does to its own entry and to every other.

**`ClaudeProofs`**: `ClaudeInv` has three parts beside the types. `RecordsKept`: a tool result or an unreadable line that
was read is in one place, among what is pending or in one invocation's context, and nothing else is; each line names
records of its own only (`OnlyLine`), a new invocation moves what is pending, and a repeated response leaves both alone,
which is what `ClaudeContextKept` says of the whole file. `FirstLines`: every invocation has a line it was first read
from, no two the same, with its identifier and usage; every measured line is of some invocation and not before its first
line; and an invocation is in conflict exactly where a line of its message reports something else. The lines a session
may count are then the first lines of the accepted invocations, one to one (`CountedAreFirst`), and a sum over the ones
is a sum over the others (`SumOfImage`): `ClaudeResponsesAreCountedOnce`. `ClaudeSessionsAgree` follows a counter through
the snapshot, the usage and the projection, of a turn (`TurnFacts`) and of the session (`SessionObservedFacts`): a
session's counter is complete where every accepted response has it, the sum over counters of sums over responses is the
sum over responses of sums over counters (`WholesAddUp`, by `SumOfSums`), and names are different because a message
makes one invocation only.

**`TrafficProofs`** reads a stream as the fold that it is (`FoldExists` gives the fold, `StreamsAreFolded` makes
`StreamedAnswer` one). `StreamsSay`, by induction over the frames up to one: the snapshot has what the frames told last,
and the usage is the snapshot unless nothing was told; where everything is said in places that are read, all of it. So
`KeptFacts`: what is kept of an answer, whole or streamed, was said. `TrafficInv` has that of every call of the capture,
and that its kind follows from endpoint and method. `CompleteReportsAreOfEveryCall` then is counting: the calls that
report a field are some of the model's calls, so they are as many only if they are all of them, and a schema's own
counts reach the fresh input and the output only from what was said (`CountedWasSaid`). `ReportsAreOfWhatWasSaid` needs
that the account and the observation read the same fields as the same numbers (`SameReading`) and that the account's
sum over the calls that report is the sum over all (`SumOfPart`). It assumes `AnswersSayAll` of the answers, because the
code reads an answer in some places only: a usage in another event of a stream is not seen, details that replace others
lose what they leave out, and OpenAI's cached tokens without the input's are observed by `inspect` and left out by
`report`. The run's answers are such (`SmallAnswersSayAll`).
`AccountsAgreeWithChains` rests on three more arguments. Every call has a number of its own, in flight or recorded
(`CallsAreNumbered`), so both sorts by start are permutations (`PlacesInOrder`: an element's place is how many come up
to it). `Build` is a fold that keeps `Placed`: each chain has a call, each call is one of the model's and in one chain at
one place (`PlaceKeeps`, one case per way to place a call). The calls in chains are then parted by their chains, one to
one with the chains' places (`ChainParts`), and a sum over them is the sum of the chains' sums (`SumOfParts`); a chain's
summary and the account read the same fields as the same numbers (`SameSummary`). It assumes `AnswersSayAll` too: of an
answer with cached tokens and no input, `chains` has the cached tokens and `report` leaves them out.

**Only model-checked**: liveness (`CommandsReturn`, `ShutdownCompletes`, `AccountedInTheEnd`), which the prover does
not reach; the findings; and two invariants of `analyses`. `ChainsFollowConversations` is about names put together from
strings, which the provers take as opaque. `ChainTotalsCoverEveryCall` reads sequences through `SelectSeq` and
`FlattenSeq`: what these compute is an induction over data of its own.

## 7. Not modelled

Rendering, flags and the web UI keep no state. Of providers' and transcripts' JSON, the model keeps what a line, a frame
or a body says and leaves out the shapes that decode to it; content hashes and fingerprints are names, so that equal
names stand for equal content and never for a collision. `tok gateway chain` looks a chain up by
its id or a prefix of it (`FindChain`) among those that `Build` made, and keeps no state; `ProviderUsageAdd` has no
caller outside tests. Of the sources, listing by time of modification and the shell commands that count as file reads are abstracted
to the files and paths they yield; the catalog is a table of sources. Windows' liveness check differs from Unix's in
how it asks for a process; both are a check that may fail. Purge while a daemon whose stop timed out still holds its
files open is not modelled.
