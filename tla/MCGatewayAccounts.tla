--------------------------- MODULE MCGatewayAccounts ---------------------------
(* RecordedTraffic on small mixes of conversations and answers.            *)
EXTENDS RecordedTraffic

Whole(usage, asks) ==
    [how |-> "whole", outcome |-> "upstream_ok", usage |-> usage, frames |-> <<>>, asks |-> asks]

Lost(outcome) == [NotModel EXCEPT !.outcome = outcome]

Stream(frames) ==
    [NotModel EXCEPT !.how = "stream", !.frames = frames]

Frame(type, usage, details) ==
    [type |-> type, id |-> "m", usage |-> usage, inner |-> <<>>, details |-> details]

Used(i, r, o) == "input" :> i @@ "read" :> r @@ "output" :> o

\* One conversation that gets every kind of answer, beside other requests.
Alone(protocol, answers) ==
    [protocol |-> protocol, stateful |-> FALSE, conversations |-> {"a"}, answers |-> answers,
     others |-> TRUE, calls |-> 3, losses |-> 0]

\* Two conversations at once that are answered or asked for a tool's result.
Together(protocol, stateful, calls) ==
    [protocol |-> protocol, stateful |-> stateful, conversations |-> {"a", "b"},
     answers |-> {Whole(Used(8, 4, 1), TRUE), Whole(Used(8, 4, 2), FALSE)},
     others |-> FALSE, calls |-> calls, losses |-> 0]

\* The same when a call may fail, and n records.
Failing(mix, n) == [mix EXCEPT !.answers = @ \cup {Lost("client_canceled")}, !.losses = n]

AnthropicAnswers ==
    {Whole(Used(8, 4, 1) @@ "creation" :> 2, FALSE), Whole("output" :> 32, TRUE),
     Whole(<<>>, FALSE), Lost("transport_failure"),
     Stream(<<[Frame("message_start", <<>>, {}) EXCEPT !.inner = Used(16, 2, 1)],
              Frame("ping", <<>>, {}), Frame("message_delta", "output" :> 6, {}),
              Frame("message_stop", <<>>, {})>>),
     Stream(<<[Frame("message_start", <<>>, {}) EXCEPT !.inner = "input" :> 64]>>)}

OpenAIAnswers ==
    LET all == Used(9, 4, 5) @@ "reasoning" :> 2 @@ "total" :> 14
    IN  {Whole(all, FALSE), Whole("input" :> 32 @@ "output" :> 3, TRUE),
         [Whole(<<>>, FALSE) EXCEPT !.outcome = "upstream_http_error"],
         Stream(<<Frame("response.in_progress", "input" :> 16, {}),
                  Frame("response.completed", [all EXCEPT !["output"] = 7], {"read", "reasoning"})>>),
         Stream(<<>>)}

SmallMixes ==
    {Alone("anthropic_messages", AnthropicAnswers), Alone("openai_responses", OpenAIAnswers),
     Together("openai_responses", FALSE, 4),
     Failing(Together("openai_responses", TRUE, 4), 0),
     Failing(Together("anthropic_messages", FALSE, 3), 1),
     Failing(Together("openai_responses", TRUE, 3), 1)}

\* The answers of these mixes are such as ReportedIsWhatWasSaid is stated for.
ASSUME SmallAnswersSayAll == AnswersSayAll
===============================================================================
