--------------------------- MODULE ProtocolObservers ---------------------------
(***************************************************************************)
(* What the proxy keeps of a call in each of the two protocols: the        *)
(* components of the request's context and the identifiers that link calls *)
(* (observer.go, observer_anthropic.go, observer_openai.go), and the usage *)
(* of an answer, read whole or as a stream (anthropic_usage.go,            *)
(* stream_observer.go), all of internal/gateway.                           *)
(***************************************************************************)
EXTENDS ProviderUsage, ContextAccounting, Functions

\* A text is a name, which stands for its hash, and its length; the empty text
\* has neither hash nor estimate.
NoText == [hash |-> "", runes |-> 0]

ComponentFor(kind, text, path) ==
    [kind |-> kind, path |-> path, hash |-> text.hash, measure |-> EstimatedText(text.runes),
     call |-> "", tool |-> ""]

\* The first of a kind, a path and a hash stays.  Components are made in the order
\* of their positions, in which the sort leaves them.
DedupeComponents(components) ==
    LET key(c) == <<c.kind, c.path, c.hash>>
    IN  FoldLeft(LAMBDA out, c : IF \E i \in DOMAIN out : key(out[i]) = key(c) THEN out
                                 ELSE Append(out, c), <<>>, components)

Optional(kind, text) == IF text.runes = 0 THEN <<>> ELSE <<ComponentFor(kind, text, "")>>

------------------------------------------------------------------------------
(* Anthropic: a body has a system text, messages of blocks, and tools; a   *)
(* message that is one string is one block of text.  The last user         *)
(* message's text is "other": the client mixes the prompt with reminders.  *)

LatestUser(messages) ==
    Max({0} \cup {i \in DOMAIN messages : messages[i].role = "user"})

\* Every name a payload declares, the last one of an id.
DeclaredNames(blocks) ==
    FoldLeft(LAMBDA names, b : IF b.type # "tool_use" \/ b.id = "" \/ b.name = "" THEN names
                               ELSE (b.id :> b.name) @@ names, <<>>, blocks)

NameOf(names, id) == IF id \in DOMAIN names THEN names[id] ELSE ""

BlockComponent(b, textKind, names) ==
    CASE b.type = "text" ->
           ComponentFor(IF b.path # "" THEN "file" ELSE textKind, b.text, b.path)
      [] b.type = "tool_result" ->
           [ComponentFor("tool_result", b.text, "") EXCEPT !.call = b.id, !.tool = NameOf(names, b.id)]
      [] b.type = "tool_use" ->
           [ComponentFor("history", b.text, "") EXCEPT !.call = b.id, !.tool = b.name]
      [] OTHER ->
           ComponentFor(IF b.path # "" /\ b.text.runes > 0 THEN "file" ELSE "other", b.text, b.path)

ParseAnthropic(body) ==
    LET messages == body.messages
        names == DeclaredNames(FlattenSeq([i \in DOMAIN messages |-> messages[i].blocks]))
        kind(i) == IF i = LatestUser(messages) THEN "other" ELSE "history"
        ofMessage(i) ==
            IF messages[i].role \notin {"user", "assistant"} THEN <<>>
            ELSE [j \in DOMAIN messages[i].blocks |->
                    BlockComponent(messages[i].blocks[j], kind(i), names)]
    IN  DedupeComponents(Optional("instructions", body.system)
                         \o FlattenSeq([i \in DOMAIN messages |-> ofMessage(i)])
                         \o Optional("tool_definition", body.tools))

\* What is kept of the blocks is their type and the id of a tool's use or result.
Blocks(messages, role) ==
    UNION {{messages[i].blocks[j] : j \in DOMAIN messages[i].blocks} :
             i \in {i \in DOMAIN messages : messages[i].role = role}}

IdsOf(blocks, type) == {b.id : b \in {b \in blocks : b.type = type}} \ {""}

AnthropicMetadata(body) ==
    [uses |-> IdsOf(Blocks(body.messages, "assistant"), "tool_use"),
     results |-> IdsOf(Blocks(body.messages, "user"), "tool_result"),
     previous |-> "",
     starts |-> \E b \in Blocks(body.messages, "user") : b.type # "tool_result"]

------------------------------------------------------------------------------
(* OpenAI: a body has instructions, input items, tools, and may name the   *)
(* response it goes on from.                                               *)

ItemKind(role) ==
    CASE role = "user" -> "user_prompt"
      [] role = "assistant" -> "history"
      [] OTHER -> "instructions"

IsContext(item) ==
    \/ item.type = "function_call_output"
    \/ item.role \in {"user", "assistant", "system", "developer"}

ItemComponent(item, names) ==
    IF item.type = "function_call_output"
    THEN [ComponentFor("tool_result", item.text, "") EXCEPT
            !.call = item.call, !.tool = NameOf(names, item.call)]
    ELSE ComponentFor(ItemKind(item.role), item.text, "")

FunctionCallNames(items) ==
    FoldLeft(LAMBDA names, item :
                IF item.type # "function_call" \/ item.call = "" \/ item.name = "" THEN names
                ELSE (item.call :> item.name) @@ names, <<>>, items)

ParseOpenAI(body) ==
    LET names == FunctionCallNames(body.items)
        context == SelectSeq(body.items, IsContext)
    IN  DedupeComponents(Optional("instructions", body.system)
                         \o [i \in DOMAIN context |-> ItemComponent(context[i], names)]
                         \o Optional("tool_definition", body.tools))

\* openAIHasStartShape: a message that the provider named, or the first item.
OpenAIMetadata(body) ==
    LET item(i) == body.items[i]
    IN  [uses |-> {},
         results |-> {item(i).call : i \in {i \in DOMAIN body.items :
                                            item(i).type = "function_call_output"}} \ {""},
         previous |-> body.previous,
         starts |-> \E i \in DOMAIN body.items :
                      item(i).type = "message" /\ (item(i).id # "" \/ i = 1)]

------------------------------------------------------------------------------
(* An answer that is read whole. *)

\* Only an OpenAI answer is kept with what later calls may refer to.
WholeAnswer(protocol, answer) ==
    [usage |-> IF DOMAIN answer.usage = {} THEN NoReport ELSE UsageReport(protocol, answer.usage),
     object |-> answer.id,
     response |-> IF protocol = "openai_responses" THEN answer.id ELSE "",
     calls |-> IF protocol = "openai_responses" THEN answer.calls \ {""} ELSE {}]

------------------------------------------------------------------------------
(* An answer that is read frame by frame. *)

StreamStart == [snapshot |-> <<>>, usage |-> NoReport, terminal |-> FALSE, object |-> ""]

\* Mutant: the last usage takes the place of the ones before.
MergeAnthropicLast(old, frame) ==
    IF DOMAIN frame.usage # {} THEN frame.usage ELSE Overlay(frame.inner, old)

\* A field that a frame leaves out keeps the value of an earlier one; the message
\* is read where it starts.
MergeAnthropic(old, frame) ==
    LET inner == IF frame.type = "message_start" THEN frame.inner ELSE <<>>
    IN  Overlay(frame.usage, Overlay(inner, old))

\* OpenAI's details are objects of their own, and one replaces another whole.
MergeOpenAI(old, frame) ==
    Overlay(frame.usage, [c \in DOMAIN old \ frame.details |-> old[c]])

ParseAnthropicFrame(stream, frame) ==
    LET snapshot == IF frame.type \in {"message_start", "message_delta"}
                    THEN MergeAnthropic(stream.snapshot, frame) ELSE stream.snapshot
    IN  [snapshot |-> snapshot,
         usage |-> IF DOMAIN snapshot = {} THEN stream.usage
                   ELSE UsageReport("anthropic_messages", snapshot),
         terminal |-> stream.terminal \/ frame.type = "message_stop",
         object |-> IF frame.type = "message_start" /\ frame.id # "" THEN frame.id
                    ELSE stream.object]

ParseOpenAIFrame(stream, frame) ==
    LET snapshot == MergeOpenAI(stream.snapshot, frame)
    IN  [snapshot |-> snapshot,
         usage |-> IF DOMAIN snapshot = {} THEN stream.usage
                   ELSE UsageReport("openai_responses", snapshot),
         terminal |-> stream.terminal \/
                      frame.type \in {"response.completed", "response.done", "response.usage"},
         object |-> IF frame.id # "" THEN frame.id ELSE stream.object]

\* finalize: a stream keeps its last usage and the answer's id, and nothing that a
\* later call could refer to.
StreamedAnswer(protocol, frames) ==
    LET parse(stream, frame) == IF protocol = "anthropic_messages" THEN ParseAnthropicFrame(stream, frame)
                                ELSE ParseOpenAIFrame(stream, frame)
        read == FoldLeft(parse, StreamStart, frames)
    IN  [usage |-> read.usage, object |-> read.object, response |-> "", calls |-> {},
         outcome |-> IF protocol = "anthropic_messages" /\ ~ read.terminal THEN "stream_truncated"
                     ELSE "upstream_ok"]
===============================================================================
