---------------------------- MODULE RecordedTraffic ----------------------------
(***************************************************************************)
(* The calls of agents that talk to a model through one profile, as the    *)
(* proxy records them, and what `tok gateway requests`, `chains`, `report` *)
(* and `inspect` make of the capture.  Conversations take turns; a capture *)
(* has the calls in the order in which they ended.                         *)
(***************************************************************************)
EXTENDS ProfileAccounts

CONSTANTS
    Mixes       \* what agents may do, and how often, see Mix

VARIABLE traffic

\* The counts that a protocol's answers have fields for.
CountsOf(protocol) ==
    IF protocol = "anthropic_messages" THEN {"input", "creation", "read", "output"}
    ELSE {"input", "read", "output", "reasoning", "total"}

AllCounts == CountsOf("anthropic_messages") \cup CountsOf("openai_responses")

UsageOf(protocol, usage) ==
    DOMAIN usage \subseteq CountsOf(protocol) /\ \A c \in DOMAIN usage : usage[c] \in Int

\* A frame of a stream may say a usage, and another of its message; `details` are
\* the counts whose objects it replaces.
IsFrame(protocol, frame) ==
    /\ DOMAIN frame = {"type", "id", "usage", "inner", "details"}
    /\ UsageOf(protocol, frame.usage) /\ UsageOf(protocol, frame.inner)

\* An answer comes whole, in frames, or without anything that is read of it; `asks`
\* is whether it asks for a tool.
IsAnswer(protocol, answer) ==
    /\ DOMAIN answer = {"how", "outcome", "usage", "frames", "asks"}
    /\ answer.how \in {"whole", "stream", "none"} /\ answer.outcome \in RequestOutcomes
    /\ UsageOf(protocol, answer.usage)
    /\ answer.frames \in Seq(Range(answer.frames))
    /\ \A i \in DOMAIN answer.frames : IsFrame(protocol, answer.frames[i])
    /\ answer.how # "whole" => answer.usage = <<>>
    /\ answer.how # "stream" => answer.frames = <<>>

\* The conversations of a mix and how their client works: whether it names the last
\* response instead of sending all again, what answers it may get, whether it sends
\* other requests; and the bounds on its calls and on the records that fail.
Mix(m) ==
    /\ DOMAIN m = {"protocol", "stateful", "conversations", "answers", "others", "calls", "losses"}
    /\ m.protocol \in Protocols /\ \A answer \in m.answers : IsAnswer(m.protocol, answer)

ASSUME TrafficAssumption == \A m \in Mixes : Mix(m)

Anthropic == traffic.mix.protocol = "anthropic_messages"

\* Every text of a conversation is another one, and so is every id.
Name(what, c, n) == what \o c \o ToString(n)
Text(name) == [hash |-> name, runes |-> 8]

Message(role, type, call, text) ==
    [role |-> role, blocks |-> <<[type |-> type, id |-> call, name |-> "Read", path |-> "", text |-> text]>>]

\* A conversation: its messages, the first that the provider has not seen, and how
\* the last call ended.
NewTalk ==
    [messages |-> <<>>, from |-> 1, last |-> "", turn |-> 0, idle |-> TRUE, asked |-> FALSE,
     failed |-> FALSE, retried |-> FALSE]

TrafficInit ==
    \E m \in Mixes :
        traffic = [mix |-> m, talks |-> [c \in m.conversations |-> NewTalk], open |-> {},
                   capture |-> <<>>, made |-> 0, failures |-> 0]

ItemType(type) ==
    CASE type = "text" -> "message"
      [] type = "tool_use" -> "function_call"
      [] type = "tool_result" -> "function_call_output"

Item(message) ==
    LET b == message.blocks[1]
    IN  [type |-> ItemType(b.type), role |-> IF b.type = "text" THEN message.role ELSE "",
         id |-> "", call |-> b.id, name |-> b.name, text |-> b.text]

\* The body of a conversation's next call.
Body(talk) ==
    [system |-> Text("system"), tools |-> Text("tools"), messages |-> talk.messages,
     previous |-> talk.last,
     items |-> [i \in 1..(Len(talk.messages) + 1 - talk.from) |->
                  Item(talk.messages[talk.from - 1 + i])]]

\* captureMiddleware, of a body within the limit.
Begun(c, endpoint, method, body) ==
    [id |-> traffic.made + 1, of |-> c, started |-> traffic.made + 1, model |-> "m",
     protocol |-> traffic.mix.protocol, endpoint |-> endpoint, method |-> method,
     kind |-> RequestKind(endpoint, method),
     components |-> IF Anthropic THEN ParseAnthropic(body) ELSE ParseOpenAI(body),
     metadata |-> IF Anthropic THEN AnthropicMetadata(body) ELSE OpenAIMetadata(body)]

Sent(c, talk) ==
    [traffic EXCEPT !.made = @ + 1, !.open = @ \cup {Begun(c, "model", "POST", Body(talk))},
                    !.talks[c] = [talk EXCEPT !.idle = FALSE]]

MayAsk(c) == traffic.made < traffic.mix.calls /\ traffic.talks[c].idle

\* The next prompt, or what the tools said that the last answer asked for.
Ask(c) ==
    LET talk == traffic.talks[c]
        text == Text(Name("u", c, talk.turn))
        message == IF talk.asked THEN Message("user", "tool_result", Name("t", c, talk.turn - 1), text)
                   ELSE Message("user", "text", "", text)
    IN  /\ MayAsk(c)
        /\ traffic' = Sent(c, [talk EXCEPT !.turn = @ + 1, !.messages = Append(@, message),
                                           !.asked = FALSE, !.failed = FALSE])

\* A client that got no answer sends the call again as it was.
Retry(c) ==
    /\ MayAsk(c) /\ traffic.talks[c].failed
    /\ traffic' = Sent(c, [traffic.talks[c] EXCEPT !.failed = FALSE, !.retried = TRUE])

\* A client puts a summary in the place of the history.
Compact(c) ==
    LET talk == traffic.talks[c]
    IN  /\ talk.idle /\ ~ talk.asked /\ ~ traffic.mix.stateful /\ Len(talk.messages) > 1
        /\ traffic' = [traffic EXCEPT !.talks[c].messages =
                          <<Message("user", "text", "", Text(Name("s", c, talk.turn)))>>]

\* A request for something else than the model's answer.
OtherRequest(endpoint, method) ==
    /\ traffic.mix.others /\ traffic.made < traffic.mix.calls
    /\ traffic' = [traffic EXCEPT !.made = @ + 1,
                      !.open = @ \cup {Begun("", endpoint, method, Body(NewTalk))}]

\* What is kept of an answer, and what it said last of each count.
Kept(x, answer) ==
    LET whole == [id |-> Name("r", x.of, x.id), usage |-> answer.usage,
                  calls |-> IF answer.asks THEN {Name("t", x.of, traffic.talks[x.of].turn - 1)} ELSE {}]
    IN  CASE answer.how = "whole" -> Overlay([outcome |-> answer.outcome], WholeAnswer(x.protocol, whole))
          [] answer.how = "stream" -> StreamedAnswer(x.protocol, answer.frames)
          [] OTHER -> [outcome |-> answer.outcome, usage |-> NoReport, object |-> "",
                       response |-> "", calls |-> {}]

\* The last of the frames, or of those in S, that says a count.
Tells(frame) == Overlay(frame.usage, frame.inner)
Telling(frames, S, c) == {i \in S : c \in DOMAIN Tells(frames[i])}

Said(answer) ==
    LET telling(c) == Telling(answer.frames, DOMAIN answer.frames, c)
    IN  [c \in {c \in AllCounts : c \in DOMAIN answer.usage \/ telling(c) # {}} |->
            IF telling(c) = {} THEN answer.usage[c]
            ELSE Tells(answer.frames[Max(telling(c))])[c]]

\* The client goes on from an answer it has all of.
GoesOn(x, answer, kept) ==
    LET talk == traffic.talks[x.of]
        id == Name("t", x.of, talk.turn - 1)
        reply == IF answer.asks THEN Message("assistant", "tool_use", id, Text(id))
                 ELSE Message("assistant", "text", "", Text(Name("a", x.of, talk.turn)))
    IN  IF kept.outcome # "upstream_ok" THEN [talk EXCEPT !.idle = TRUE, !.failed = TRUE]
        ELSE [talk EXCEPT !.idle = TRUE, !.asked = answer.asks, !.messages = Append(@, reply),
                          !.last = IF traffic.mix.stateful THEN Name("r", x.of, x.id) ELSE "",
                          !.from = IF traffic.mix.stateful THEN Len(talk.messages) + 2 ELSE 1]

\* A call ends and is recorded, or the record fails and the journal has it.
End(x, answer) ==
    LET kept == Kept(x, answer)
        record == Overlay(x, Overlay(kept, [said |-> Said(answer)]))
        ended == [traffic EXCEPT
                    !.open = @ \ {x},
                    !.talks = IF x.of = "" THEN @ ELSE [@ EXCEPT ![x.of] = GoesOn(x, answer, kept)]]
    IN  /\ x \in traffic.open
        /\ \/ traffic' = [ended EXCEPT !.capture = Append(@, record)]
           \/ traffic.failures < traffic.mix.losses /\ traffic' = [ended EXCEPT !.failures = @ + 1]

NotModel == [how |-> "none", outcome |-> "upstream_ok", usage |-> <<>>, frames |-> <<>>, asks |-> FALSE]

TrafficNext ==
    \/ \E c \in traffic.mix.conversations : Ask(c) \/ Retry(c) \/ Compact(c)
    \/ OtherRequest("listed", "POST") \/ OtherRequest("model", "GET")
    \/ \E x \in traffic.open :
         \/ x.of = "" /\ End(x, NotModel)
         \/ x.of # "" /\ \E answer \in traffic.mix.answers : End(x, answer)

TrafficSpec == TrafficInit /\ [][TrafficNext]_traffic

------------------------------------------------------------------------------
(* Properties. *)

Capture == traffic.capture
ModelCalls == {i \in DOMAIN Capture : IsChainModelCall(Capture[i])}

SumWhere(S, value(_)) == SumFunction([x \in S |-> value(x)])

\* The calls of each chain, in order.
Grouped(built) ==
    {[j \in DOMAIN built.chains[i].calls |-> built.chains[i].calls[j].id] : i \in DOMAIN built.chains}

\* Calls of several conversations end in any order; some are sent again, some lose
\* their history, some their record.  No chain mixes conversations or goes back in
\* time, every call for the model is in one chain or left out, and what other
\* conversations do in between never changes how one's calls are chained: its chains
\* are those of a capture that has its calls only.
ChainsFollowConversations ==
    LET built == Build(Capture)
        alone(c) == Build(SelectSeq(Capture, LAMBDA x : x.of = c))
    IN  /\ \A n \in DOMAIN built.chains :
             LET calls == built.chains[n].calls
             IN  \A i, j \in DOMAIN calls : /\ calls[i].of = calls[j].of
                                           /\ i < j => calls[i].started < calls[j].started
        /\ Len(built.uncorrelated) + SumWhere(DOMAIN built.chains, LAMBDA n : Len(built.chains[n].calls))
             = Cardinality(ModelCalls)
        /\ Grouped(built) = UNION {Grouped(alone(c)) : c \in traffic.mix.conversations}

\* A chain's totals are of all its calls or are not given, with no kind stronger
\* than a part's; its growth is the sum of the growths between its calls, its peak
\* is reached, and the largest growth is where it is said to be.
TotalsCover(s) ==
    LET calls == s.calls
        tells(f) == \A j \in DOMAIN calls : f \in DOMAIN calls[j].provider
        later == 2..Len(calls)
        delta == Strict([j \in DOMAIN calls |-> ContextDelta(calls, j)])
    IN  /\ \A f \in ChainFields :
             /\ Available(s.totals[f]) <=> tells(f)
             /\ tells(f) => /\ s.totals[f].value = SumWhere(DOMAIN calls, LAMBDA j : calls[j].provider[f].value)
                            /\ (s.totals[f].kind = "measured" <=>
                                  \A j \in DOMAIN calls : calls[j].provider[f].kind = "measured")
        /\ Available(s.growth) =>
             /\ s.growth.value = SumWhere(later, LAMBDA j : delta[j].value)
             /\ s.peak.value = Max({calls[j].context.value : j \in DOMAIN calls})
             /\ s.largest.call # 0 =>
                  /\ s.largest.growth = delta[s.largest.call]
                  /\ \A j \in later : delta[j].value <= s.largest.growth.value
        /\ Available(s.gap) => s.gap.value = s.totals["totalInput"].value - s.sent.value

ChainTotalsCoverEveryCall ==
    \A s \in Range(AnalyzeChains(Capture)) : TotalsCover(s)

Agree(a, s) ==
    LET parts == <<a.chained.account, a.uncorrelated.account>>
    IN  /\ a.http = SumWhere(DOMAIN a.kinds, LAMBDA k : a.kinds[k])
        /\ a.http = SumWhere(RequestOutcomes, LAMBDA o : a.outcomes[o])
        /\ a.chained.requests = SumWhere(DOMAIN s, LAMBDA i : Len(s[i].calls))
        /\ a.chained.account.observed = SumWhere(DOMAIN s, LAMBDA i : s[i].observed)
        /\ \A f \in UsageFields :
             /\ a.observed.account.count[f] = parts[1].count[f] + parts[2].count[f]
             /\ a.observed.account.sum[f] = parts[1].sum[f] + parts[2].sum[f]
        /\ \A f \in ChainFields :
             (\A i \in DOMAIN s : Available(s[i].totals[f])) =>
               parts[1].sum[f] = SumWhere(DOMAIN s, LAMBDA i : s[i].totals[f].value)

\* `report` and `chains` read the same capture apart: the report's requests are of
\* one kind and of one outcome each, those in chains are the chains' calls, and what
\* the account says was used in chains is what the chains say together.
AccountAgreesWithChains ==
    Agree(AccountProfile(Capture, traffic.failures), AnalyzeChains(Capture))

\* A report that says complete has every call that was recorded with its input and
\* output, in a schema it knows; what one call reports too much never makes up for
\* what another left out (profile_accounting.go:181).
CompleteAccountsEveryCall ==
    AccountProfile(Capture, traffic.failures).completeness = "complete" =>
        /\ traffic.failures = 0
        /\ \A i \in ModelCalls :
             /\ Capture[i].outcome # "stream_truncated"
             /\ KnownSource(Capture[i].usage) /\ {"input", "output"} \subseteq DOMAIN Capture[i].said

\* Which counter of a provider is which canonical field.
Canonical(protocol) ==
    IF protocol = "anthropic_messages"
    THEN [freshInput |-> "input", cachedInput |-> "read", cacheCreation |-> "creation",
          output |-> "output"]
    ELSE [totalInput |-> "input", cachedInput |-> "read", output |-> "output",
          reasoning |-> "reasoning", total |-> "total"]

\* Nothing is said where it is not read: of an Anthropic stream the first and the
\* last events are, of an OpenAI event its own usage.  A details object that takes
\* another's place has its counts, and the cached tokens come with the input's.
SaysAll(protocol, frame) ==
    IF protocol = "anthropic_messages"
    THEN /\ frame.type # "message_start" => DOMAIN frame.inner = {}
         /\ frame.type \notin {"message_start", "message_delta"} => DOMAIN frame.usage = {}
    ELSE DOMAIN frame.inner = {} /\ frame.details \subseteq DOMAIN frame.usage

CachedOfInput(usage) == "read" \in DOMAIN usage => "input" \in DOMAIN usage

AnswersSayAll ==
    \A m \in Mixes : \A answer \in m.answers :
        /\ \A i \in DOMAIN answer.frames : SaysAll(m.protocol, answer.frames[i])
        /\ m.protocol = "openai_responses" =>
             /\ CachedOfInput(answer.usage)
             /\ \A i \in DOMAIN answer.frames : CachedOfInput(answer.frames[i].usage)

\* What a provider said last of a count, whole or frame by frame, is what `inspect`
\* observes of the call and what `report` sums up; what it did not say is not zero.
ReportedIsWhatWasSaid ==
    LET observed == [i \in ModelCalls |-> ObservationFromExchange(Capture[i])]
        of == Canonical(traffic.mix.protocol)
        reported == AccountProfile(Capture, traffic.failures).observed.account
    IN  /\ \A i \in ModelCalls :
             /\ ValidObservation(observed[i])
             /\ \A f \in DOMAIN of :
                  IF of[f] \in DOMAIN Capture[i].said
                  THEN observed[i].usage[f] = Measured(Capture[i].said[of[f]], "measured")
                  ELSE f # "total" => ~ Available(observed[i].usage[f])
        /\ \A f \in UsageFields :
             /\ reported.count[f] = Cardinality({i \in ModelCalls : Available(observed[i].usage[f])})
             /\ reported.sum[f] = SumWhere(ModelCalls, LAMBDA i : observed[i].usage[f].value)
===============================================================================
