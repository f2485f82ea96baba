------------------------------ MODULE MCAnalyses ------------------------------
(* The readers and analyses of native transcripts and of captures, and what *)
(* surrounds them, on small instances.                                      *)
EXTENDS
    ClaudeSession, CodexSession, SessionInspection, SessionAnalysis, CostEstimation,
    ConfigStore, RecordReader, SourceDetection, MCGatewayAccounts

CONSTANT Parts      \* which of the components a run is about

VARIABLE part

Usage(i, r, w, o) == "input" :> i @@ "cacheRead" :> r @@ "cacheWrite" :> w @@ "output" :> o

Blank ==
    [line |-> "blank", uuid |-> TRUE, at |-> 0, type |-> "", role |-> "", id |-> "", model |-> "",
     usage |-> <<>>, text |-> 0, uses |-> <<>>, results |-> <<>>]

Prompt == [Blank EXCEPT !.line = "entry", !.type = "user", !.role = "user", !.text = 5, !.at = 1]

Answer(id, usage) ==
    [Blank EXCEPT !.line = "entry", !.type = "assistant", !.role = "assistant", !.id = id,
                  !.model = "opus", !.usage = usage, !.text = 4, !.at = 2]

SmallClaudeLines ==
    {Blank, Prompt,
     [Blank EXCEPT !.line = "malformed"], [Blank EXCEPT !.line = "oversized"],
     [Prompt EXCEPT !.results = <<"t1", "t2">>],
     [Prompt EXCEPT !.role = "assistant", !.uuid = FALSE],
     [Answer("m1", Usage(8, 4, 2, 1)) EXCEPT !.uses = "t1" :> "Read"],
     Answer("m1", Usage(8, 4, 2, 3)),
     Answer("m2", [c \in {"input", "cacheRead", "output"} |-> IF c = "input" THEN -1 ELSE 16]),
     [Answer("", Usage(32, 0, 0, 16)) EXCEPT !.uuid = FALSE, !.model = "sonnet"],
     Answer("m3", <<>>),
     [Answer("m4", Usage(0, 0, 0, 0)) EXCEPT !.model = "<synthetic>"]}

------------------------------------------------------------------------------
Nothing ==
    [line |-> "blank", kind |-> "", at |-> 0, model |-> "", id |-> "", call |-> "", name |-> "",
     role |-> "", text |-> 0, paths |-> <<>>, counts |-> <<>>]

Line(kind) == [Nothing EXCEPT !.line = "entry", !.kind = kind, !.at = 1]

Counts(i, c, o, t) == "input" :> i @@ "cached" :> c @@ "output" :> o @@ "total" :> t

SmallCodexLines ==
    {Nothing, [Nothing EXCEPT !.line = "malformed"], [Nothing EXCEPT !.line = "oversized"],
     Line("bad"), Line("other"), [Line("session_meta") EXCEPT !.model = "s1"],
     [Line("turn_context") EXCEPT !.model = "gpt-5"],
     [Line("message") EXCEPT !.role = "user", !.text = 7],
     [Line("call") EXCEPT !.call = "c1", !.name = "exec_command", !.paths = <<"a.go">>],
     [Line("output") EXCEPT !.call = "c1", !.text = 9],
     [Line("user_message") EXCEPT !.text = 3],
     [Line("token_count") EXCEPT !.counts = <<>>],
     [Line("token_count") EXCEPT !.counts = Counts(4, 1, 2, 6), !.at = 2],
     [Line("token_count") EXCEPT !.counts = Counts(9, 1, 3, 12) @@ "reasoning" :> 2],
     [Line("token_count") EXCEPT !.counts = Counts(16, 4, 8, 24) @@ "reasoning" :> 1],
     [Line("token_count") EXCEPT !.counts = Counts(-3, 0, 2, -1) @@ "reasoning" :> -2]}

------------------------------------------------------------------------------
Seen(id, side, at, model, output) ==
    [id |-> id, side |-> side, started |-> at, finished |-> 0, model |-> model,
     identity |-> <<>>, outcome |-> "unknown", completeness |-> "partial",
     usage |-> [NoUsage EXCEPT !["output"] = output]]

Tokens(n) == Measured(n, "measured")

SmallTurnPool ==
    {Seen("t1", "transcript", 3, "gpt-5", Tokens(5)),
     Seen("t2", "transcript", 5, "gpt-5", Tokens(6)),
     Seen("t3", "transcript", 3, "", Unknown),
     [Seen("t4", "transcript", 0, "gpt-5", Tokens(5)) EXCEPT !.identity = "turnId" :> "a"]}

Recorded(profile, o) == [profile |-> profile, kind |-> "model", fails |-> FALSE, observation |-> o]

SmallExchangePool ==
    {Recorded("codex", Seen("x1", "gateway", 3, "gpt-5", Tokens(5))),
     Recorded("codex", Seen("x2", "gateway", 4, "gpt-5", Tokens(9))),
     Recorded("codex", [Seen("x3", "gateway", 9, "gpt-5", Tokens(6)) EXCEPT !.identity = "turnId" :> "a"]),
     [Recorded("codex", Seen("x4", "gateway", 3, "", Tokens(5))) EXCEPT !.kind = "non_model"],
     [Recorded("work", Seen("x5", "gateway", 2, "", Tokens(5))) EXCEPT !.fails = TRUE],
     Recorded("work", Seen("x6", "gateway", 7, "gpt-4", NoMeasurement)),
     Recorded("work", Seen("x7", "gateway", 5, "", Tokens(5)))}

------------------------------------------------------------------------------
Fresh(m) == [usage |-> [input |-> m, cached |-> NoMeasurement],
             accounting |-> [fresh |-> m, cached |-> NoMeasurement]]

SmallTurnKinds ==
    {[sequence |-> 1] @@ Fresh(Tokens(8)), [sequence |-> 2] @@ Fresh(Unknown)}

Result(call, hash, bytes, tokens) ==
    [kind |-> "tool_result", call |-> call, tool |-> "Read", print |-> "p", hash |-> hash,
     bytes |-> bytes, measure |-> Measured(tokens, "estimated"), completeness |-> "complete"]

SmallComponents ==
    {Result("c1", "h", 9, 3), Result("c2", "h", 4, 2),
     [Result("c3", "h", 5, 0) EXCEPT !.measure = Unknown, !.completeness = "truncated"],
     [Result("", "", -1, 0) EXCEPT !.kind = "unknown", !.measure = Unknown,
                                   !.completeness = "unavailable"]}

------------------------------------------------------------------------------
Rates(i, r, c, w, o) == [fresh |-> i, read |-> r, cached |-> c, write |-> w, output |-> o]

Profile(provider, sku, names, from, currency, tiers) ==
    [rank |-> 1, provider |-> provider, sku |-> sku, names |-> names, from |-> from,
     currency |-> currency, tiers |-> tiers]

SmallCatalog ==
    LET flat(rates) == <<[upTo |-> -1, rates |-> rates]>>
    IN  <<Profile("anthropic", 1, {<<"", "opus">>, <<"anthropic", "opus">>}, 0, "USD",
                  flat(Rates(7, 1, 0, 9, 11))),
          Profile("anthropic", 1, {<<"", "opus">>}, 5, "USD", flat(Rates(5, 0, 3, 0, 13))),
          Profile("zhipu", 2, {<<"", "glm">>, <<"", "opus">>}, 3, "CNY",
                  <<[upTo |-> 4, rates |-> Rates(3, 1, 0, 0, 7)],
                    [upTo |-> 8, rates |-> Rates(6, 2, 0, 0, 14)]>>),
          [Profile("zhipu", 3, {<<"", "glm">>}, 0, "CNY", flat(Rates(40, 2, 0, 0, 14)))
             EXCEPT !.rank = 0]>>

Bill(i, r, w, o) == [input |-> i, cacheRead |-> r, cacheWrite |-> w, output |-> o]

SmallPricedTurns ==
    {[model |-> m, at |-> at, billable |-> Bill(Tokens(i), Tokens(1), Tokens(2), Tokens(i))] :
        m \in {NoModel, <<"", "opus">>, <<"", "glm">>}, at \in {0, 4}, i \in {4, 9}}
    \cup {[model |-> <<"", "opus">>, at |-> 6, billable |-> Bill(Tokens(5), Tokens(2), Unknown, Tokens(3))],
          [model |-> <<"", "opus">>, at |-> 1, billable |-> Bill(Tokens(5), Tokens(2), Unknown, Tokens(3))],
          [model |-> <<"", "glm">>, at |-> 6, billable |-> Bill(Tokens(2), Tokens(3), Unknown, Tokens(3))],
          [model |-> <<"zhipu", "glm-9">>, at |-> 6, billable |-> Bill(Unknown, Unknown, Unknown, Unknown)]}

SmallPricedSessions ==
    {[id |-> "a", source |-> "claude", model |-> <<"anthropic", "opus">>, updated |-> 4,
      billable |-> Bill(Tokens(6), Tokens(0), Tokens(0), Tokens(3))],
     [id |-> "b", source |-> "codex", model |-> NoModel, updated |-> 0,
      billable |-> Bill(NoMeasurement, NoMeasurement, NoMeasurement, NoMeasurement)]}

------------------------------------------------------------------------------
InstallA == <<"~/.claude">>
SessionsA == <<"~/.claude/projects", "~/other">>

SmallFiles ==
    {[depth |-> 1, spelled |-> "small"], [depth |-> 2, spelled |-> "small"],
     [depth |-> 1, spelled |-> "otherwise"]}

vars == <<part, claudeRead, claude, codexRead, codex, inspect, analysed, billed,
          configFile, editor, begun, settled, damaged, file, reader, machine, traffic>>

derivedVars == <<inspect, analysed, billed>>
claudeVars == <<claudeRead, claude>>
codexVars == <<codexRead, codex>>
settingVars == <<configVars, file, reader, machine>>

\* Only the part that a behaviour is about has more than one state.
Init ==
    /\ part \in Parts
    /\ ClaudeInit /\ CodexInit /\ InspectInit /\ AnalysisInit /\ CostInit
    /\ ConfigInit /\ DetectionInit
    /\ IF part = "reader" THEN ReaderInit ELSE file = <<>> /\ reader = Started(<<>>)
    /\ TrafficInit /\ (part # "traffic" => traffic.mix = CHOOSE m \in Mixes : TRUE)

Transcripts ==
    \/ part = "claude" /\ ClaudeNext /\ UNCHANGED <<codexVars, inspect, analysed, billed>>
    \/ part = "codex" /\ CodexNext /\ UNCHANGED <<claudeVars, inspect, analysed, billed>>
    \/ part = "inspect" /\ InspectNext /\ UNCHANGED <<claudeVars, codexVars, analysed, billed>>
    \/ part = "analysis" /\ AnalysisNext /\ UNCHANGED <<claudeVars, codexVars, inspect, billed>>
    \/ part = "cost" /\ CostNext /\ UNCHANGED <<claudeVars, codexVars, inspect, analysed>>

Surroundings ==
    \/ part = "config" /\ ConfigNext /\ UNCHANGED <<file, reader, machine, traffic>>
    \/ part = "reader" /\ ReaderNext /\ UNCHANGED <<configVars, machine, traffic>>
    \/ part = "detection" /\ DetectionNext /\ UNCHANGED <<configVars, file, reader, traffic>>
    \/ part = "traffic" /\ TrafficNext /\ UNCHANGED settingVars

Next ==
    /\ UNCHANGED part
    /\ \/ Transcripts /\ UNCHANGED <<settingVars, traffic>>
       \/ Surroundings /\ UNCHANGED <<claudeVars, codexVars, derivedVars>>

Spec == Init /\ [][Next]_vars
===============================================================================
