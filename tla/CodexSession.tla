----------------------------- MODULE CodexSession -----------------------------
(***************************************************************************)
(* Reading a Codex rollout (internal/source/codex).  Each token_count      *)
(* event carries cumulative counters; a turn is the difference between one *)
(* event and the one before, and the session's usage is the event with the *)
(* largest total.                                                          *)
(***************************************************************************)
EXTENDS ContextAccounting, Observations, TLC

CONSTANTS
    CodexLines,     \* the lines a file may hold, see CodexLine
    CodexLength     \* bounds the lines of a file

VARIABLES
    codexRead,      \* the lines read so far
    codex           \* parseSession's variables

\* The cumulative counters; reasoning is absent from some versions' events.
CodexCounters == {"input", "cached", "output", "reasoning", "total"}
ZeroCounters == [c \in CodexCounters \ {"reasoning"} |-> 0]

\* `line` is "blank", "malformed", "oversized" or "entry"; an entry's `kind` is
\* its type, or its payload's type where the parser looks at that, and "bad" is a
\* payload it cannot decode.  `model` is also session_meta's identifier.
CodexLine(l) ==
    /\ DOMAIN l = {"line", "kind", "at", "model", "id", "call", "name", "role", "text",
                   "paths", "counts"}
    /\ l.line \in {"blank", "malformed", "oversized", "entry"}
    /\ l.line # "entry" => l.kind = ""
    /\ DOMAIN l.counts \subseteq CodexCounters /\ \A c \in DOMAIN l.counts : l.counts[c] \in Int
    /\ l.paths \in Seq(STRING)

ASSUME CodexAssumption == CodexLength \in Nat /\ \A l \in CodexLines : CodexLine(l)

LineRecord == <<"line", Len(codexRead) + 1>>

\* A response item is named by its own identifier or by its call's.
ItemRecord(l) ==
    CASE l.id # "" -> <<"item", l.id>>
      [] l.id = "" /\ l.call # "" -> <<"item", l.call>>
      [] OTHER -> LineRecord

MessageKind(role) ==
    CASE role \in {"developer", "system"} -> "instructions"
      [] role = "user" -> "user_prompt"
      [] role = "assistant" -> "history"
      [] OTHER -> ""

\* A shell command that reads files puts each path in the context, unmeasured;
\* `paths` is what fileReadPaths makes of the command.
FileComponents(l) ==
    IF l.name \notin {"exec_command", "functions.exec_command"} THEN <<>>
    ELSE [i \in DOMAIN l.paths |->
            [Component("file", ItemRecord(l) \o <<i>>, 0) EXCEPT !.path = l.paths[i]]]

OutputComponent(l) ==
    ToolResult(ItemRecord(l), l.text, l.call,
               IF l.call \in DOMAIN codex.calls THEN codex.calls[l.call] ELSE "", "complete")

------------------------------------------------------------------------------
CodexInit ==
    /\ codexRead = <<>>
    /\ codex = [id |-> "", model |-> "", snapshots |-> <<>>, pending |-> <<>>, calls |-> <<>>,
                usage |-> <<>>, started |-> 0, updated |-> 0]

Stamped(l) ==
    [codex EXCEPT !.started = IF @ = 0 THEN l.at ELSE @, !.updated = IF l.at = 0 THEN @ ELSE l.at]

With(l, components) == [Stamped(l) EXCEPT !.pending = @ \o components]

ReadUnreadableLine(l) ==
    /\ l.line \in {"oversized", "malformed"}
    /\ codex' = [codex EXCEPT !.pending = Append(@,
                    UnreadableRecord(Len(codexRead) + 1,
                        IF l.line = "oversized" THEN "truncated" ELSE "unavailable"))]

ReadBadPayload(l) ==
    /\ l.kind = "bad"
    /\ codex' = With(l, <<UnreadableRecord(Len(codexRead) + 1, "unavailable")>>)

ReadEmptyLine(l) == l.line = "blank" /\ UNCHANGED codex

\* A record without a payload, or of a type the parser does not know.
ReadIgnored(l) == l.kind = "other" /\ codex' = Stamped(l)

ReadSessionMeta(l) ==
    l.kind = "session_meta" /\ codex' = [Stamped(l) EXCEPT !.id = IF l.model = "" THEN @ ELSE l.model]

ReadTurnContext(l) ==
    l.kind = "turn_context" /\ codex' = [Stamped(l) EXCEPT !.model = IF l.model = "" THEN @ ELSE l.model]

ReadItemMessage(l) ==
    /\ l.kind = "message"
    /\ codex' = With(l, IF MessageKind(l.role) = "" THEN <<>>
                        ELSE <<Component(MessageKind(l.role), ItemRecord(l), l.text)>>)

\* A call that names its tool is remembered under both of its identifiers.
ReadCall(l) ==
    /\ l.kind = "call"
    /\ codex' = [With(l, FileComponents(l)) EXCEPT
                    !.calls = IF l.name = "" THEN @
                              ELSE [k \in {l.call, l.id} \ {""} |-> l.name] @@ @]

ReadOutput(l) == l.kind = "output" /\ codex' = With(l, <<OutputComponent(l)>>)

ReadUserMessage(l) ==
    l.kind = "user_message" /\ codex' = With(l, <<Component("user_prompt", LineRecord, l.text)>>)

\* snapshotFromEvent: an event without info reads as zero counters.
SnapshotFromEvent(l) ==
    [c \in DOMAIN l.counts \cup DOMAIN ZeroCounters |->
        IF c \in DOMAIN l.counts THEN l.counts[c] ELSE ZeroCounters[c]]

TotalSoFar == IF codex.usage = <<>> THEN 0 ELSE codex.usage["total"]

ReadTokenCount(l) ==
    /\ l.kind = "token_count"
    /\ LET snap == SnapshotFromEvent(l) IN
       codex' = [Stamped(l) EXCEPT
                    !.snapshots = Append(@, [snap |-> snap, at |-> l.at,
                                             context |-> DedupeContext(codex.pending)]),
                    !.pending = <<>>,
                    !.usage = IF snap["total"] >= TotalSoFar THEN snap ELSE @]

CodexNext ==
    \E l \in CodexLines :
        /\ Len(codexRead) < CodexLength
        /\ codexRead' = Append(codexRead, l)
        /\ \/ ReadUnreadableLine(l) \/ ReadBadPayload(l) \/ ReadEmptyLine(l) \/ ReadIgnored(l)
           \/ ReadSessionMeta(l) \/ ReadTurnContext(l) \/ ReadItemMessage(l) \/ ReadCall(l)
           \/ ReadOutput(l) \/ ReadUserMessage(l) \/ ReadTokenCount(l)

CodexSpec == CodexInit /\ [][CodexNext]_<<codexRead, codex>>

------------------------------------------------------------------------------
(* Turns and the session (source.go, normalize.go). *)

\* Mutant: reasoning tokens are not looked at.
FallsButReasoning(prev, curr) == \E c \in CodexCounters \ {"reasoning"} : curr[c] < prev[c]

\* A counter that fell makes the turn's usage unavailable; reasoning that appears
\* for the first time counts from zero, reasoning that is gone is absent.
Falls(prev, curr) ==
    \/ \E c \in CodexCounters \ {"reasoning"} : curr[c] < prev[c]
    \/ "reasoning" \in DOMAIN prev \cap DOMAIN curr /\ curr["reasoning"] < prev["reasoning"]

Delta(prev, curr) ==
    [c \in DOMAIN curr |-> curr[c] - (IF c \in DOMAIN prev THEN prev[c] ELSE 0)]

\* Mutant: every event is held against the first one.
PrevSnapshotFirst(i) == IF i = 1 THEN ZeroCounters ELSE codex.snapshots[1].snap

PrevSnapshot(i) == IF i = 1 THEN ZeroCounters ELSE codex.snapshots[i - 1].snap

\* No snapshot, no usage.
CodexUsage(snap, kind) ==
    LET m(c) == IF c \in DOMAIN snap THEN Measured(snap[c], kind) ELSE NoMeasurement
    IN  [input |-> m("input"), cached |-> m("cached"), output |-> m("output"),
         reasoning |-> m("reasoning"), total |-> m("total"),
         billableInput |-> m("input"), cacheRead |-> m("cached"), cacheWrite |-> NoMeasurement]

CodexTurns ==
    [i \in DOMAIN codex.snapshots |->
        LET curr == codex.snapshots[i]
            usage == CodexUsage(IF Falls(PrevSnapshot(i), curr.snap) THEN <<>>
                                ELSE Delta(PrevSnapshot(i), curr.snap), "derived")
        IN  [id |-> <<codex.id, i>>, at |-> curr.at, model |-> codex.model, usage |-> usage,
             context |-> curr.context, accounting |-> CodexInputAccounting(usage)]]

\* The snapshot the session's usage is said to come from.
FinalSnapshot ==
    LET same == {i \in DOMAIN codex.snapshots : codex.snapshots[i].snap["total"] = TotalSoFar}
    IN  IF codex.usage = <<>> THEN 0 ELSE Max(same)

CodexSessions ==
    <<[id |-> codex.id, model |-> codex.model, started |-> codex.started, updated |-> codex.updated,
       usage |-> CodexUsage(codex.usage, "measured"), turns |-> CodexTurns,
       final |-> FinalSnapshot, trailing |-> DedupeContext(codex.pending)]>>

------------------------------------------------------------------------------
(* The projection to observations (observation.go). *)

DerivedFreshInput(u) ==
    IF ~ (Available(u.input) /\ Available(u.cached)) THEN NoMeasurement
    ELSE IF u.input.value < u.cached.value THEN Unknown
    ELSE Measured(u.input.value - u.cached.value, "derived")

CodexObservationUsage(u) ==
    [NoUsage EXCEPT !["freshInput"] = DerivedFreshInput(u), !["cachedInput"] = u.cached,
                    !["totalInput"] = u.input, !["output"] = u.output,
                    !["reasoning"] = u.reasoning, !["total"] = u.total]

CodexObservation(id, at, model, usage) ==
    [id |-> id, started |-> at, finished |-> 0, model |-> model,
     usage |-> CodexObservationUsage(usage), outcome |-> "unknown",
     completeness |-> ObservationCompleteness(CodexObservationUsage(usage),
                                              {"totalInput", "output", "total"})]

CodexObservations(s) ==
    <<CodexObservation(<<"session">>, s.started, s.model, s.usage)>>
    \o [i \in DOMAIN s.turns |->
            CodexObservation(s.turns[i].id, s.turns[i].at,
                             IF s.turns[i].model = "" THEN s.model ELSE s.turns[i].model,
                             s.turns[i].usage)]

------------------------------------------------------------------------------
(* Properties. *)

KnownTurns == {i \in DOMAIN CodexTurns : Available(CodexTurns[i].usage.total)}

SumOfTurns(f, turns) == SumFunctionOnSet([i \in turns |-> CodexTurns[i].usage[f].value], turns)

\* The contexts of the turns, and then the trailing one.
SessionContexts(s) == Append([i \in DOMAIN s.turns |-> s.turns[i].context], s.trailing)

\* Cumulative counters are taken apart without loss: where no counter ever fell,
\* the turns add up, counter by counter, to the session's usage, which is the
\* last event's (deltaSnapshot, reconstructTurns and parseSession's maximum).
CodexTurnsTelescope ==
    (KnownTurns # {} /\ KnownTurns = DOMAIN CodexTurns)
        => /\ \A f \in {"input", "cached", "output", "total"} :
                SumOfTurns(f, KnownTurns) = CodexSessions[1].usage[f].value
           /\ CodexSessions[1].final = Len(codex.snapshots)

\* The events with a counter below zero, which the parser does not refuse.
NegativeEvents ==
    {k \in DOMAIN codex.snapshots :
        \E c \in DOMAIN codex.snapshots[k].snap : codex.snapshots[k].snap[c] < 0}

\* Every projected observation is valid and has a name of its own.  However the
\* counters fall, none is negative but where an event is: then the session's, and
\* a turn's reasoning alone.  The session's usage is one event's, no smaller than any
\* other, and every unreadable line is in one turn's context or in the trailing one.
CodexSessionIsSound ==
    /\ \A n \in DOMAIN CodexSessions :
        LET obs == CodexObservations(CodexSessions[n]) IN
        /\ \A i \in DOMAIN obs : ValidObservation(obs[i])
        /\ \A i, j \in DOMAIN obs : i # j => obs[i].id # obs[j].id
        /\ \A i \in DOMAIN obs : \A f \in UsageFields :
              obs[i].usage[f].value < 0 => NegativeEvents # {} /\ (i = 1 \/ f = "reasoning")
    /\ \A i \in DOMAIN codex.snapshots : codex.snapshots[i].snap["total"] <= TotalSoFar
    /\ codex.usage # <<>> => codex.usage = codex.snapshots[FinalSnapshot].snap
    /\ \A i \in DOMAIN codexRead :
         (codexRead[i].line \in {"oversized", "malformed"} \/ codexRead[i].kind = "bad")
            => Cardinality(Places(SessionContexts(CodexSessions[1]), <<"line", i>>)) = 1
===============================================================================
