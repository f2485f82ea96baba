----------------------------- MODULE ClaudeSession -----------------------------
(***************************************************************************)
(* Reading a Claude Code transcript (internal/source/claude).  The file is *)
(* read line by line; a model response may be written several times, one   *)
(* line per content block, and is counted once.  What is read between two  *)
(* responses is the context of the later one.                              *)
(***************************************************************************)
EXTENDS ContextAccounting, Observations, TLC

CONSTANTS
    ClaudeLines,    \* the lines a file may hold, see ClaudeLine
    ClaudeLength    \* bounds the lines of a file

VARIABLES
    claudeRead,     \* the lines read so far
    claude          \* parseSession's variables

Counters == {"input", "cacheRead", "cacheWrite", "output"}

\* `line` is "blank", "malformed", "oversized" or "entry".  A usage is a function
\* from the counters that are present, empty where there is none; `uses` maps
\* the tool_use blocks' identifiers to tool names, `results` lists the calls that
\* tool_result blocks answer, `text` is a number of characters.
ClaudeLine(l) ==
    /\ DOMAIN l = {"line", "uuid", "at", "type", "role", "id", "model", "usage",
                   "text", "uses", "results"}
    /\ l.line \in {"blank", "malformed", "oversized", "entry"}
    /\ l.line # "entry" => l.type = "" /\ l.role = ""
    /\ l.uuid \in BOOLEAN /\ l.results \in Seq(STRING)
    /\ DOMAIN l.usage \subseteq Counters /\ \A c \in DOMAIN l.usage : l.usage[c] \in Int

ASSUME ClaudeAssumption == ClaudeLength \in Nat /\ \A l \in ClaudeLines : ClaudeLine(l)

IsSynthetic(model) == model = "<synthetic>"

\* A record is named by its uuid, here unique to the line, or by its message,
\* or by a position in what was kept of the file.
ClaudeRecordID(l) ==
    CASE l.uuid -> <<"uuid", Len(claudeRead) + 1>>
      [] ~ l.uuid /\ l.id # "" -> <<"message", l.id>>
      [] OTHER -> <<"record", Len(claude.invocations) + Len(claude.pending) + claude.history + 1>>

AppendHistory(pending, l) ==
    IF claude.history = 0 THEN pending
    ELSE Append(pending, Component("history", ClaudeRecordID(l), l.text))

\* A result carries the name its call declared, where the call was read before.
ToolResultComponents(l) ==
    [i \in DOMAIN l.results |->
        ToolResult(ClaudeRecordID(l) \o <<i>>, l.text, l.results[i],
                   IF l.results[i] \in DOMAIN claude.uses THEN claude.uses[l.results[i]] ELSE "",
                   "complete")]

UserComponents(l) ==
    IF l.results # <<>> THEN ToolResultComponents(l)
    ELSE <<Component("user_prompt", ClaudeRecordID(l), l.text)>>

MessageContext(l) ==
    CASE l.role = "user" -> claude.pending \o UserComponents(l)
      [] l.role = "assistant" -> AppendHistory(claude.pending, l)
      [] OTHER -> claude.pending

------------------------------------------------------------------------------
ClaudeInit ==
    /\ claudeRead = <<>>
    /\ claude = [invocations |-> <<>>, pending |-> <<>>, history |-> 0, uses |-> <<>>,
                 models |-> {}, conflicts |-> 0, duplicates |-> 0, started |-> 0, updated |-> 0]

\* applyTimestamp and registerToolUses, which every entry goes through.
Noted(l) ==
    [claude EXCEPT !.started = IF @ = 0 THEN l.at ELSE @,
                   !.updated = IF l.at = 0 THEN @ ELSE l.at,
                   !.uses = IF l.role = "assistant" THEN l.uses @@ @ ELSE @]

IsResponse(l) == l.line = "entry" /\ l.type = "assistant" /\ l.role = "assistant"

\* A response names its model, and is synthetic where the client wrote it.
Answered(l) == [Noted(l) EXCEPT !.models = @ \cup ({l.model} \ {"", "<synthetic>"})]

ReadUnreadable(l) ==
    /\ l.line \in {"oversized", "malformed"}
    /\ claude' = [claude EXCEPT !.pending = Append(@,
                    UnreadableRecord(Len(claudeRead) + 1,
                        IF l.line = "oversized" THEN "truncated" ELSE "unavailable"))]

ReadBlank(l) == l.line = "blank" /\ UNCHANGED claude

ReadMessage(l) ==
    /\ l.line = "entry" /\ ~ IsResponse(l)
    /\ claude' = [Noted(l) EXCEPT !.pending = MessageContext(l),
                                  !.history = IF l.role = "" THEN @ ELSE @ + 1]

ReadSynthetic(l) == IsResponse(l) /\ IsSynthetic(l.model) /\ claude' = Answered(l)

ReadUnmeasured(l) ==
    /\ IsResponse(l) /\ ~ IsSynthetic(l.model) /\ l.usage = <<>>
    /\ claude' = [Answered(l) EXCEPT !.pending = AppendHistory(@, l), !.history = @ + 1]

IsMeasured(l) == IsResponse(l) /\ ~ IsSynthetic(l.model) /\ l.usage # <<>>

\* Mutant: only the last invocation is compared.
EarlierAdjacent(id) ==
    {i \in DOMAIN claude.invocations : i = Len(claude.invocations) /\ id # "" /\ claude.invocations[i].id = id}

\* The invocation a message identifier was first read with.
Earlier(id) == {i \in DOMAIN claude.invocations : id # "" /\ claude.invocations[i].id = id}

ReadInvocation(l) ==
    /\ IsMeasured(l) /\ Earlier(l.id) = {}
    /\ claude' = [Answered(l) EXCEPT
                    !.invocations = Append(@, [id |-> l.id, model |-> l.model, usage |-> l.usage,
                                               at |-> l.at, conflict |-> FALSE,
                                               context |-> DedupeContext(claude.pending)]),
                    !.pending = AppendHistory(<<>>, l),
                    !.history = @ + 1]

ReadConflict(l) ==
    /\ IsMeasured(l)
    /\ \E i \in Earlier(l.id) :
        /\ claude.invocations[i].usage # l.usage
        /\ claude' = [Answered(l) EXCEPT !.invocations[i].conflict = TRUE, !.conflicts = @ + 1]

\* Mutant: a response that is written again begins a new turn's context.
ReadDuplicateResetting(l) ==
    /\ IsMeasured(l)
    /\ \E i \in Earlier(l.id) : claude.invocations[i].usage = l.usage
    /\ claude' = [Answered(l) EXCEPT !.duplicates = @ + 1, !.pending = <<>>]

ReadDuplicate(l) ==
    /\ IsMeasured(l)
    /\ \E i \in Earlier(l.id) : claude.invocations[i].usage = l.usage
    /\ claude' = [Answered(l) EXCEPT !.duplicates = @ + 1]

ClaudeNext ==
    \E l \in ClaudeLines :
        /\ Len(claudeRead) < ClaudeLength
        /\ claudeRead' = Append(claudeRead, l)
        /\ \/ ReadUnreadable(l) \/ ReadBlank(l) \/ ReadMessage(l) \/ ReadSynthetic(l)
           \/ ReadUnmeasured(l) \/ ReadInvocation(l) \/ ReadConflict(l) \/ ReadDuplicate(l)

ClaudeSpec == ClaudeInit /\ [][ClaudeNext]_<<claudeRead, claude>>

------------------------------------------------------------------------------
(* What the file comes to: usage snapshots and their sums (normalize.go). *)

Present(u, c) == c \in DOMAIN u
Counted(u, c) == Present(u, c) /\ u[c] >= 0

Added(u, c) == IF Counted(u, c) THEN u[c] ELSE 0

\* A usage as the code carries it: how many were added, and for each counter the
\* sum and how many of them had it.  Negative counts are reported, never added.
Accumulated(usages) ==
    [usage |-> [c \in {c \in Counters : \E i \in DOMAIN usages : Present(usages[i], c)} |->
                    SumFunction([i \in DOMAIN usages |-> Added(usages[i], c)])],
     accepted |-> Cardinality(DOMAIN usages),
     counts |-> [c \in Counters |-> Cardinality({i \in DOMAIN usages : Counted(usages[i], c)})]]

Snapshot(u) == [Accumulated(<<u>>) EXCEPT !.usage = u]

\* Mutant: a counter is complete when any response has it.
CounterReported(s, c) == s.counts[c] > 0

CounterComplete(s, c) == s.counts[c] = s.accepted

SnapshotMeasurement(s, c, kind) ==
    CASE CounterComplete(s, c) -> Measured(s.usage[c], kind)
      [] Present(s.usage, c) /\ ~ CounterComplete(s, c) -> Unknown
      [] OTHER -> NoMeasurement

\* A sum over counters is known where each of them is complete.
DerivedFrom(s, cs) ==
    IF \A c \in cs : CounterComplete(s, c)
    THEN Measured(SumFunctionOnSet(s.usage, cs), "derived")
    ELSE NoMeasurement

ModelUsage(s, kind) ==
    IF s.accepted = 0
    THEN [f \in {"input", "cached", "output", "total", "reasoning",
                 "billableInput", "cacheRead", "cacheWrite"} |-> NoMeasurement]
    ELSE [input |-> SnapshotMeasurement(s, "input", kind),
          cached |-> DerivedFrom(s, {"cacheRead", "cacheWrite"}),
          output |-> SnapshotMeasurement(s, "output", kind),
          total |-> DerivedFrom(s, Counters),
          reasoning |-> NoMeasurement,
          billableInput |-> DerivedFrom(s, {"input", "cacheRead", "cacheWrite"}),
          cacheRead |-> SnapshotMeasurement(s, "cacheRead", kind),
          cacheWrite |-> SnapshotMeasurement(s, "cacheWrite", kind)]

\* A response reported in two ways is known in none of what it reported.
ConflictedUsage(u) ==
    LET reported(c) == IF Present(u, c) THEN Unknown ELSE NoMeasurement
    IN  [input |-> reported("input"), cached |-> NoMeasurement, output |-> reported("output"),
         total |-> NoMeasurement, reasoning |-> NoMeasurement, billableInput |-> NoMeasurement,
         cacheRead |-> reported("cacheRead"), cacheWrite |-> reported("cacheWrite")]

\* parseSession's end: Usage leaves the conflicts out.
Accepted == {i \in DOMAIN claude.invocations : ~ claude.invocations[i].conflict}
SessionSnapshot == Accumulated([i \in Accepted |-> claude.invocations[i].usage])

TrailingContext == DedupeContext(claude.pending)

HasReportedUsage(s) == \E c \in Counters : s.counts[c] > 0

SelectedModel == IF Cardinality(claude.models) = 1 THEN CHOOSE m \in claude.models : TRUE ELSE ""

ClaudeTurns ==
    [i \in DOMAIN claude.invocations |->
        LET inv == claude.invocations[i]
            usage == IF inv.conflict THEN ConflictedUsage(inv.usage)
                     ELSE ModelUsage(Snapshot(inv.usage), "measured")
        IN  [id |-> IF inv.id = "" THEN <<"turn", i>> ELSE <<"message", inv.id>>,
             at |-> inv.at, model |-> inv.model, usage |-> usage, context |-> inv.context,
             accounting |-> SeparateInputAccounting(usage)]]

\* ReadSessions keeps a file that reports any usage at all.
ClaudeSessions ==
    IF ~ HasReportedUsage(SessionSnapshot) THEN <<>>
    ELSE <<[model |-> SelectedModel, started |-> claude.started, updated |-> claude.updated,
            usage |-> ModelUsage(SessionSnapshot, "derived"), turns |-> ClaudeTurns,
            trailing |-> TrailingContext]>>

\* Source.Usage adds the files' snapshots as if each were one whole response.
ClaudeSourceUsage ==
    ModelUsage(Accumulated(IF HasReportedUsage(SessionSnapshot) THEN <<SessionSnapshot.usage>>
                           ELSE <<>>), "derived")

------------------------------------------------------------------------------
(* The projection to observations (observation.go). *)

DirectField(m, kind) ==
    CASE Available(m) -> Measured(m.value, kind)
      [] ~ Available(m) /\ m.kind # "" -> Unknown
      [] OTHER -> NoMeasurement

SumIfAll(ms) ==
    IF \A i \in DOMAIN ms : Available(ms[i]) THEN SumMeasurements(ms) ELSE NoMeasurement

ClaudeObservationUsage(u, kind) ==
    LET parts == <<DirectField(u.input, kind), DirectField(u.cacheRead, kind),
                   DirectField(u.cacheWrite, kind)>>
        output == DirectField(u.output, kind)
    IN  [NoUsage EXCEPT !["freshInput"] = parts[1], !["cachedInput"] = parts[2],
                        !["cacheCreation"] = parts[3], !["totalInput"] = SumIfAll(parts),
                        !["output"] = output, !["total"] = SumIfAll(<<SumIfAll(parts), output>>)]

ClaudeObservation(id, at, model, usage) ==
    [id |-> id, started |-> at, finished |-> 0, model |-> model, usage |-> usage,
     outcome |-> "unknown",
     completeness |-> ObservationCompleteness(usage, UsageFields \ {"reasoning"})]

\* A turn without a model of its own takes the session's.
ClaudeObservations(s) ==
    <<ClaudeObservation(<<"session">>, s.started, s.model, ClaudeObservationUsage(s.usage, "derived"))>>
    \o [i \in DOMAIN s.turns |->
            ClaudeObservation(s.turns[i].id, s.turns[i].at,
                              IF s.turns[i].model = "" THEN s.model ELSE s.turns[i].model,
                              ClaudeObservationUsage(s.turns[i].usage, "measured"))]

------------------------------------------------------------------------------
(* Properties. *)

\* The lines whose usage the session may count: the first with its message, where
\* every other line of the message reports the same.
CountedLines ==
    {i \in DOMAIN claudeRead :
        LET l == claudeRead[i] IN
        /\ IsMeasured(l)
        /\ l.id # "" => \A j \in DOMAIN claudeRead :
              (IsMeasured(claudeRead[j]) /\ claudeRead[j].id = l.id)
                  => /\ i <= j
                     /\ claudeRead[j].usage = l.usage}

\* Whatever order the lines of a file come in, a session's usage is the sum over
\* the responses whose lines agree, each counted once however often it was
\* written: parseSession's three cases and acceptedUsage.
ClaudeCountsResponsesOnce ==
    /\ SessionSnapshot.accepted = Cardinality(CountedLines)
    /\ \A c \in DOMAIN SessionSnapshot.usage :
          SessionSnapshot.usage[c] =
              SumFunction([i \in CountedLines |-> Added(claudeRead[i].usage, c)])

\* The contexts of the turns, and then the one that belongs to none.
ClaudeContexts ==
    Append([i \in DOMAIN claude.invocations |-> claude.invocations[i].context], TrailingContext)

\* Every tool result and every unreadable line of a file is in the context of
\* exactly one turn, or in the trailing context: repeated responses between them
\* neither drop nor repeat it (pending, reset only by a new invocation).
ClaudeContextKept ==
    \A i \in DOMAIN claudeRead :
        LET l == claudeRead[i]
            records == IF l.line \in {"oversized", "malformed"} THEN {<<"line", i>>}
                       ELSE IF l.role = "user" /\ l.uuid
                            THEN {<<"uuid", i, k>> : k \in DOMAIN l.results} ELSE {}
        IN  \A r \in records : Cardinality(Places(ClaudeContexts, r)) = 1

KnownTotal(o) == Available(o.usage["total"])

\* What the session is said to have used and what its turns are said to have used
\* agree: the projection succeeds, a session total is the sum of the turns' that
\* are known and what `tok usage` says, and a session is complete only where every
\* turn without a conflict is (claudeTurns, acceptedUsage, ObservationsFromSession
\* and Source.Usage together).
ClaudeSessionAgreesWithTurns ==
    \A n \in DOMAIN ClaudeSessions :
        LET obs == ClaudeObservations(ClaudeSessions[n])
            turns == 2..Len(obs)
            fine == {i \in turns : i - 1 \in Accepted}
        IN  /\ \A i \in DOMAIN obs : ValidObservation(obs[i])
            /\ \A i, j \in DOMAIN obs : i # j => obs[i].id # obs[j].id
            /\ \A i \in turns \ fine : obs[i].completeness # "complete"
            /\ (obs[1].completeness = "complete") <=>
                    (fine # {} /\ \A i \in fine : obs[i].completeness = "complete")
            /\ KnownTotal(obs[1]) =>
                    obs[1].usage["total"].value =
                        SumFunction([i \in fine |-> obs[i].usage["total"].value])
            /\ KnownTotal(obs[1]) => ClaudeSourceUsage = ClaudeSessions[n].usage
===============================================================================
