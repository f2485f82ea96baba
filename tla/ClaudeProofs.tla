----------------------------- MODULE ClaudeProofs -----------------------------
(***************************************************************************)
(* Proofs about the reading of Claude Code transcripts, for files of any   *)
(* length and lines in any order: where the records end up, that a         *)
(* response is counted once, and that a session agrees with its turns.     *)
(***************************************************************************)
EXTENDS ClaudeSession, SourceProofs

-----------------------------------------------------------------------------
(* What a reading keeps. *)

ClaudeFields ==
    {"invocations", "pending", "history", "uses", "models", "conflicts", "duplicates",
     "started", "updated"}

InvocationFields == {"id", "model", "usage", "at", "conflict", "context"}

ClaudeType ==
    /\ claudeRead \in Seq(ClaudeLines)
    /\ DOMAIN claude = ClaudeFields
    /\ IsSequence(claude.pending) /\ IsSequence(claude.invocations)
    /\ \A i \in DOMAIN claude.invocations :
         /\ DOMAIN claude.invocations[i] = InvocationFields
         /\ claude.invocations[i].conflict \in BOOLEAN

(* The records that line i may name, and those of it that must be kept.      *)
NamesOf(i) == {<<"line", i>>} \cup {<<"uuid", i, k>> : k \in Nat}

KeptOf(l, i) ==
    IF l.line \in {"oversized", "malformed"} THEN {<<"line", i>>}
    ELSE IF l.role = "user" /\ l.uuid THEN {<<"uuid", i, k>> : k \in DOMAIN l.results} ELSE {}

RecordsKept(read, pending, invocations) ==
    /\ \A i \in DOMAIN read : \A r \in KeptOf(read[i], i) : InOnePlace(pending, invocations, r)
    /\ \A i \in Nat : i > Len(read) => \A r \in NamesOf(i) : Nowhere(pending, invocations, r)

(* The lines that the invocations were first read from.                     *)
Named(r) == r.id # ""

Disagrees(l, inv) == Named(inv) /\ IsMeasured(l) /\ l.id = inv.id /\ l.usage # inv.usage

FirstLines(first, read, invocations) ==
    /\ \A i \in DOMAIN invocations :
         /\ first[i] \in DOMAIN read /\ IsMeasured(read[first[i]])
         /\ read[first[i]].id = invocations[i].id /\ read[first[i]].usage = invocations[i].usage
         /\ invocations[i].conflict <=> \E j \in DOMAIN read : Disagrees(read[j], invocations[i])
    /\ \A i, k \in DOMAIN invocations :
         /\ first[i] = first[k] => i = k
         /\ Named(invocations[i]) /\ invocations[i].id = invocations[k].id => i = k
    /\ \A j \in DOMAIN read : IsMeasured(read[j]) =>
         \E i \in DOMAIN invocations : /\ invocations[i].id = read[j].id /\ first[i] <= j
                                       /\ ~ Named(read[j]) => first[i] = j

ClaudeInv ==
    /\ ClaudeType
    /\ RecordsKept(claudeRead, claude.pending, claude.invocations)
    /\ \E first : FirstLines(first, claudeRead, claude.invocations)

-----------------------------------------------------------------------------
(* Records. *)

(* A line's records are among those that it may name, which no other may.    *)
LEMMA NamesAreOfLine ==
    /\ \A i \in Nat : \A r \in NamesOf(i) : r[1] \in {"line", "uuid"} /\ r[2] = i
    /\ \A l \in ClaudeLines : \A i \in Nat : KeptOf(l, i) \subseteq NamesOf(i)
<1>1. ASSUME NEW i \in Nat, NEW r \in NamesOf(i) PROVE r[1] \in {"line", "uuid"} /\ r[2] = i
  BY <1>1 DEF NamesOf
<1>2. ASSUME NEW l \in ClaudeLines, NEW i \in Nat PROVE KeptOf(l, i) \subseteq NamesOf(i)
  <2>1. l.results \in Seq(STRING)
    BY ClaudeAssumption DEF ClaudeLine
  <2>2. \A k \in DOMAIN l.results : k \in Nat
    BY <2>1
  <2> QED BY <2>2 DEF KeptOf, NamesOf
<1> QED
  BY <1>1, <1>2

(* Components that name no record of another line.                          *)
OnlyLine(new, n) ==
    /\ IsSequence(new)
    /\ \A q \in DOMAIN new : new[q].record[1] \in {"line", "uuid"} => new[q].record[2] = n

(* They have none of another line's records.                                *)
LEMMA OtherLines ==
    ASSUME NEW new, NEW n, OnlyLine(new, n), NEW i \in Nat, i # n, NEW r \in NamesOf(i)
    PROVE  At(new, r) = {}
<1>1. r[1] \in {"line", "uuid"} /\ r[2] = i
  BY NamesAreOfLine
<1> QED
  BY <1>1 DEF OnlyLine, At

(* What a line adds to what is pending, and what every line's records then   *)
(* come to.                                                                 *)
LEMMA LineIsKept ==
    ASSUME NEW read \in Seq(ClaudeLines), NEW l \in ClaudeLines, NEW pending, NEW invocations,
           NEW new, IsSequence(pending), OnlyLine(new, Len(read) + 1),
           \A r \in KeptOf(l, Len(read) + 1) : \E p : At(new, r) = {p},
           RecordsKept(read, pending, invocations)
    PROVE  RecordsKept(Append(read, l), pending \o new, invocations)
<1> DEFINE n == Len(read) + 1
<1> DEFINE after == Append(read, l)
<1>1. /\ n \in Nat /\ Len(after) = n /\ DOMAIN after = DOMAIN read \cup {n}
      /\ \A i \in DOMAIN read : after[i] = read[i] /\ i \in Nat /\ i # n
      /\ after[n] = l
  <2>1. Len(read) \in Nat /\ DOMAIN read = 1..Len(read)
    OBVIOUS
  <2>2. \A i \in 1..Len(read) : i \in Nat /\ i # Len(read) + 1
    BY <2>1
  <2> QED BY <2>1, <2>2, AppendFacts
<1>2. /\ \A r : At(new, r) = {} =>
           /\ InOnePlace(pending, invocations, r) => InOnePlace(pending \o new, invocations, r)
           /\ Nowhere(pending, invocations, r) => Nowhere(pending \o new, invocations, r)
      /\ \A r, p : At(new, r) = {p} /\ Nowhere(pending, invocations, r)
                     => InOnePlace(pending \o new, invocations, r)
  BY JoinKeeps DEF OnlyLine
<1>3. \A i \in Nat : i > n => i > Len(read) /\ i # n
  BY <1>1
<1>4. \A r \in KeptOf(l, n) : Nowhere(pending, invocations, r)
  <2>1. n > Len(read)
    BY <1>1
  <2> QED BY <1>1, <2>1, NamesAreOfLine DEF RecordsKept
<1> HIDE DEF after
<1>5. ASSUME NEW i \in DOMAIN after, NEW r \in KeptOf(after[i], i)
      PROVE  InOnePlace(pending \o new, invocations, r)
  <2>1. CASE i = n
    BY <1>1, <1>2, <1>4, <1>5, <2>1
  <2>2. CASE i # n
    <3>1. i \in DOMAIN read /\ i \in Nat /\ r \in KeptOf(read[i], i) /\ read[i] \in ClaudeLines
      BY <1>1, <1>5, <2>2
    <3>2. InOnePlace(pending, invocations, r)
      BY <3>1 DEF RecordsKept
    <3>3. r \in NamesOf(i)
      BY <3>1, NamesAreOfLine
    <3>4. At(new, r) = {}
      BY <2>2, <3>1, <3>3, OtherLines
    <3> QED BY <1>2, <3>2, <3>4
  <2> QED BY <2>1, <2>2
<1>6. ASSUME NEW i \in Nat, i > Len(after), NEW r \in NamesOf(i)
      PROVE  Nowhere(pending \o new, invocations, r)
  <2>1. i > Len(read) /\ i # n
    BY <1>1, <1>3, <1>6
  <2>2. Nowhere(pending, invocations, r)
    BY <1>6, <2>1 DEF RecordsKept
  <2>3. At(new, r) = {}
    BY <1>6, <2>1, OtherLines
  <2> QED BY <1>2, <2>2, <2>3
<1> QED
  BY <1>5, <1>6 DEF RecordsKept, after

(* An invocation takes what is pending.                                     *)
LEMMA TakingIsKept ==
    ASSUME NEW read, NEW pending, IsSequence(pending), NEW invocations, IsSequence(invocations),
           NEW s, s.context = DedupeContext(pending), RecordsKept(read, pending, invocations)
    PROVE  RecordsKept(read, <<>>, Append(invocations, s))
<1>1. \A r : /\ InOnePlace(pending, invocations, r) => InOnePlace(<<>>, Append(invocations, s), r)
             /\ Nowhere(pending, invocations, r) => Nowhere(<<>>, Append(invocations, s), r)
  BY TakeKeeps
<1> QED
  BY <1>1 DEF RecordsKept

(* How a record is named by its line.                                       *)
LEMMA RecordNames ==
    ASSUME NEW l \in ClaudeLines
    PROVE  /\ l.uuid => ClaudeRecordID(l) = <<"uuid", Len(claudeRead) + 1>>
           /\ \E a, b : /\ ClaudeRecordID(l) = <<a, b>> /\ a \in {"uuid", "message", "record"}
                        /\ a = "uuid" => b = Len(claudeRead) + 1
<1>1. l.uuid \in BOOLEAN
  BY ClaudeAssumption DEF ClaudeLine
<1> DEFINE n == Len(claudeRead) + 1
<1> DEFINE id == ClaudeRecordID(l)
<1>2. CASE l.uuid
  <2>1. id = <<"uuid", n>>
    BY <1>2 DEF ClaudeRecordID
  <2> HIDE DEF id, n
  <2>2. \E a, b : id = <<a, b>> /\ a \in {"uuid", "message", "record"} /\ (a = "uuid" => b = n)
    BY <2>1
  <2> QED BY <2>1, <2>2 DEF id, n
<1>3. CASE ~ l.uuid /\ l.id # ""
  <2>1. id = <<"message", l.id>>
    BY <1>3 DEF ClaudeRecordID
  <2> HIDE DEF id, n
  <2>2. \E a, b : id = <<a, b>> /\ a \in {"uuid", "message", "record"} /\ (a = "uuid" => b = n)
    BY <2>1
  <2> QED BY <1>3, <2>2 DEF id, n
<1>4. CASE ~ l.uuid /\ l.id = ""
  <2> DEFINE m == Len(claude.invocations) + Len(claude.pending) + claude.history + 1
  <2>1. id = <<"record", m>>
    BY <1>4 DEF ClaudeRecordID
  <2> HIDE DEF id, n, m
  <2>2. \E a, b : id = <<a, b>> /\ a \in {"uuid", "message", "record"} /\ (a = "uuid" => b = n)
    BY <2>1
  <2> QED BY <1>4, <2>2 DEF id, n
<1> QED
  BY <1>1, <1>2, <1>3, <1>4

(* A component that is named by its line.                                   *)
LEMMA NamedByLine ==
    ASSUME NEW l \in ClaudeLines, NEW kind, NEW text
    PROVE  OnlyLine(<<Component(kind, ClaudeRecordID(l), text)>>, Len(claudeRead) + 1)
<1> DEFINE e == Component(kind, ClaudeRecordID(l), text)
<1>1. e.record = ClaudeRecordID(l)
  BY DEF Component
<1>2. PICK a, b : /\ ClaudeRecordID(l) = <<a, b>> /\ a \in {"uuid", "message", "record"}
                  /\ a = "uuid" => b = Len(claudeRead) + 1
  BY RecordNames
<1>3. e.record[1] = a /\ e.record[2] = b
  BY <1>1, <1>2
<1> HIDE DEF e
<1>4. <<e>> \in Seq({e}) /\ DOMAIN <<e>> = {1} /\ <<e>>[1] = e
  OBVIOUS
<1> QED
  BY <1>2, <1>3, <1>4 DEF OnlyLine, IsSequence, e

(* A line may add nothing.                                                  *)
LEMMA NothingNamed == \A n : OnlyLine(<<>>, n)
<1>1. <<>> \in Seq({}) /\ DOMAIN <<>> = {}
  OBVIOUS
<1> QED
  BY <1>1 DEF OnlyLine, IsSequence

(* An answer adds its component once there is a history.                    *)
LEMMA HistoryNamed ==
    ASSUME ClaudeType, NEW l \in ClaudeLines, NEW pending, IsSequence(pending)
    PROVE  \E new : /\ OnlyLine(new, Len(claudeRead) + 1)
                    /\ AppendHistory(pending, l) = pending \o new
<1>1. CASE claude.history = 0
  <2>1. AppendHistory(pending, l) = pending \o <<>>
    BY <1>1, JoinsOfOne DEF AppendHistory
  <2> QED BY <2>1, NothingNamed
<1>2. CASE claude.history # 0
  <2> DEFINE e == Component("history", ClaudeRecordID(l), l.text)
  <2>1. AppendHistory(pending, l) = Append(pending, e)
    BY <1>2 DEF AppendHistory
  <2>2. OnlyLine(<<e>>, Len(claudeRead) + 1)
    BY NamedByLine
  <2> HIDE DEF e
  <2>3. Append(pending, e) = pending \o <<e>>
    BY JoinsOfOne
  <2> QED BY <2>1, <2>2, <2>3
<1> QED
  BY <1>1, <1>2

(* A name with a number.                                                    *)
LEMMA NumberedName == \A a, b, i : <<a, b>> \o <<i>> = <<a, b, i>>
<1> TAKE a, b, i
<1> DEFINE A == {a, b, i}
<1>1. <<a, b>> \in Seq(A) /\ <<i>> \in Seq(A) /\ <<a, b, i>> \in Seq(A)
  OBVIOUS
<1>2. Len(<<a, b>>) = 2 /\ Len(<<i>>) = 1 /\ Len(<<a, b, i>>) = 3
  OBVIOUS
<1> HIDE DEF A
<1>3. IsSequence(<<a, b>>) /\ IsSequence(<<i>>)
  BY <1>1 DEF IsSequence
<1>4. <<a, b>> \o <<i>> \in Seq(A) /\ Len(<<a, b>> \o <<i>>) = 3
  BY <1>1, <1>2
<1>5. /\ (<<a, b>> \o <<i>>)[1] = <<a, b>>[1] /\ (<<a, b>> \o <<i>>)[2] = <<a, b>>[2]
      /\ (<<a, b>> \o <<i>>)[2 + 1] = <<i>>[1]
  <2>1. 1 \in 1..2 /\ 2 \in 1..2 /\ 1 \in 1..1
    OBVIOUS
  <2> QED BY <1>2, <1>3, <2>1, JoinedSequence
<1>6. \A j \in 1..3 : (<<a, b>> \o <<i>>)[j] = <<a, b, i>>[j]
  BY <1>5
<1> QED
  BY <1>1, <1>2, <1>4, <1>6, SeqEqual

(* The results of a line are named by it and numbered.                      *)
LEMMA ResultsNamed ==
    ASSUME ClaudeType, NEW l \in ClaudeLines
    PROVE  LET new == ToolResultComponents(l)
               n == Len(claudeRead) + 1
           IN  /\ OnlyLine(new, n)
               /\ l.uuid => \A k \in DOMAIN l.results : At(new, <<"uuid", n, k>>) = {k}
<1> DEFINE new == ToolResultComponents(l)
<1> DEFINE n == Len(claudeRead) + 1
<1> DEFINE tool(i) == IF l.results[i] \in DOMAIN claude.uses THEN claude.uses[l.results[i]] ELSE ""
<1>1. l.results \in Seq(STRING) /\ Len(l.results) \in Nat /\ DOMAIN l.results = 1..Len(l.results)
  <2>1. l.results \in Seq(STRING)
    BY ClaudeAssumption DEF ClaudeLine
  <2> QED BY <2>1
<1>2. new = [i \in 1..Len(l.results) |->
               ToolResult(ClaudeRecordID(l) \o <<i>>, l.text, l.results[i], tool(i), "complete")]
  BY <1>1 DEF ToolResultComponents
<1> HIDE DEF tool
<1>3. ASSUME NEW i \in 1..Len(l.results) PROVE new[i].record = ClaudeRecordID(l) \o <<i>>
  <2> DEFINE r == ClaudeRecordID(l) \o <<i>>
  <2>1. new[i] = ToolResult(r, l.text, l.results[i], tool(i), "complete")
    BY <1>2
  <2> HIDE DEF r
  <2>2. ToolResult(r, l.text, l.results[i], tool(i), "complete").record = r
    BY DEF ToolResult, Component
  <2> QED BY <2>1, <2>2 DEF r
<1>4. DOMAIN new = 1..Len(l.results) /\ IsSequence(new)
  <2>1. DOMAIN new = 1..Len(l.results) /\ new = [i \in 1..Len(l.results) |-> new[i]]
    BY <1>2
  <2> HIDE DEF new
  <2> QED BY <1>1, <2>1, MappingIsSequence
<1> HIDE DEF new, n
<1>5. PICK a, b : /\ ClaudeRecordID(l) = <<a, b>> /\ a \in {"uuid", "message", "record"}
                  /\ a = "uuid" => b = n
                  /\ l.uuid => ClaudeRecordID(l) = <<"uuid", n>>
  BY RecordNames DEF n
<1>6. ASSUME NEW i \in 1..Len(l.results) PROVE new[i].record = <<a, b, i>>
  <2>1. <<a, b>> \o <<i>> = <<a, b, i>>
    BY NumberedName
  <2> QED BY <1>3, <1>5, <2>1
<1>7. OnlyLine(new, n)
  <2>1. \A i \in 1..Len(l.results) : new[i].record[1] = a /\ new[i].record[2] = b
    BY <1>6
  <2> QED BY <1>4, <1>5, <2>1 DEF OnlyLine
<1>8. ASSUME l.uuid, NEW k \in 1..Len(l.results) PROVE At(new, <<"uuid", n, k>>) = {k}
  <2>1. a = "uuid" /\ b = n
    <3>1. <<a, b>> = <<"uuid", n>>
      BY <1>5, <1>8
    <3> QED BY <3>1
  <2>2. new[k].record = <<"uuid", n, k>>
    BY <1>6, <1>8, <2>1
  <2>3. ASSUME NEW i \in 1..Len(l.results), new[i].record = <<"uuid", n, k>> PROVE i = k
    <3>1. <<"uuid", n, i>> = <<"uuid", n, k>>
      BY <1>6, <2>1, <2>3
    <3> QED BY <3>1
  <2> QED BY <1>4, <1>8, <2>2, <2>3 DEF At
<1> QED
  BY <1>1, <1>7, <1>8 DEF new, n

-----------------------------------------------------------------------------
(* What a line does to what was read. *)

(* What is noted of an entry leaves the records alone.                      *)
LEMMA NotedFacts ==
    ASSUME ClaudeType, NEW l
    PROVE  /\ DOMAIN Noted(l) = ClaudeFields /\ DOMAIN Answered(l) = ClaudeFields
           /\ Noted(l).pending = claude.pending /\ Noted(l).invocations = claude.invocations
           /\ Answered(l).pending = claude.pending /\ Answered(l).invocations = claude.invocations
<1>1. DOMAIN claude = ClaudeFields
  BY DEF ClaudeType
<1>2. /\ DOMAIN Noted(l) = ClaudeFields
      /\ Noted(l).pending = claude.pending /\ Noted(l).invocations = claude.invocations
  BY <1>1 DEF Noted, ClaudeFields
<1>3. /\ DOMAIN Answered(l) = ClaudeFields
      /\ Answered(l).pending = Noted(l).pending /\ Answered(l).invocations = Noted(l).invocations
  BY <1>2 DEF Answered, ClaudeFields
<1> QED
  BY <1>2, <1>3

\* A line adds `new` to what is pending, and all of its records are in it.
Keeps(l, new) ==
    /\ DOMAIN claude' = ClaudeFields
    /\ claude'.pending = claude.pending \o new /\ claude'.invocations = claude.invocations
    /\ OnlyLine(new, Len(claudeRead) + 1)
    /\ \A r \in KeptOf(l, Len(claudeRead) + 1) : \E p : At(new, r) = {p}

(* Nothing of an answer, or of a blank line, must be kept.                  *)
LEMMA NothingToKeep ==
    ASSUME NEW l \in ClaudeLines, NEW n,
           l.line = "blank" \/ (l.line = "entry" /\ (l.role # "user" \/ l.results = <<>>))
    PROVE  KeptOf(l, n) = {}
<1>1. l.line # "entry" => l.role = ""
  BY ClaudeAssumption DEF ClaudeLine
<1>2. DOMAIN <<>> = {}
  OBVIOUS
<1> QED
  BY <1>1, <1>2 DEF KeptOf

LEMMA UnreadableKeeps ==
    ASSUME ClaudeType, NEW l \in ClaudeLines, ReadUnreadable(l)
    PROVE  \E new : Keeps(l, new)
<1> DEFINE n == Len(claudeRead) + 1
<1> DEFINE e == UnreadableRecord(n, IF l.line = "oversized" THEN "truncated" ELSE "unavailable")
<1>1. e.record = <<"line", n>>
  BY DEF UnreadableRecord, Component
<1>2. l.line \in {"oversized", "malformed"} /\ DOMAIN claude = ClaudeFields
      /\ claude' = [claude EXCEPT !.pending = Append(claude.pending, e)]
      /\ IsSequence(claude.pending)
  BY DEF ReadUnreadable, ClaudeType
<1> HIDE DEF e, n
<1>3. DOMAIN claude' = ClaudeFields /\ claude'.pending = Append(claude.pending, e)
      /\ claude'.invocations = claude.invocations
  BY <1>2 DEF ClaudeFields
<1>4. claude'.pending = claude.pending \o <<e>>
  BY <1>2, <1>3, JoinsOfOne
<1>5. <<e>> \in Seq({e}) /\ DOMAIN <<e>> = {1} /\ <<e>>[1] = e
  OBVIOUS
<1>6. e.record[2] = n
  BY <1>1
<1>7. OnlyLine(<<e>>, n)
  BY <1>5, <1>6 DEF OnlyLine, IsSequence
<1>8. At(<<e>>, <<"line", n>>) = {1}
  BY <1>1, <1>5 DEF At
<1>9. KeptOf(l, n) = {<<"line", n>>}
  BY <1>2 DEF KeptOf
<1>10. \A r \in KeptOf(l, n) : \E p : At(<<e>>, r) = {p}
  BY <1>8, <1>9
<1> QED
  BY <1>3, <1>4, <1>7, <1>10 DEF Keeps, n

(* A line that adds nothing, and need not.                                  *)
LEMMA NothingKeeps ==
    ASSUME ClaudeType, NEW l, KeptOf(l, Len(claudeRead) + 1) = {}, DOMAIN claude' = ClaudeFields,
           claude'.pending = claude.pending, claude'.invocations = claude.invocations
    PROVE  Keeps(l, <<>>)
<1>1. claude.pending \o <<>> = claude.pending
  BY JoinsOfOne DEF ClaudeType
<1> QED
  BY <1>1, NothingNamed DEF Keeps

(* What a user's line adds.                                                 *)
LEMMA UserNamed ==
    ASSUME ClaudeType, NEW l \in ClaudeLines, l.line = "entry", l.role = "user"
    PROVE  LET new == UserComponents(l)
               n == Len(claudeRead) + 1
           IN  OnlyLine(new, n) /\ \A r \in KeptOf(l, n) : \E p : At(new, r) = {p}
<1> DEFINE new == UserComponents(l)
<1> DEFINE n == Len(claudeRead) + 1
<1>1. CASE l.results = <<>>
  <2>1. new = <<Component("user_prompt", ClaudeRecordID(l), l.text)>>
    BY <1>1 DEF UserComponents
  <2>2. OnlyLine(new, n)
    BY <2>1, NamedByLine
  <2>3. KeptOf(l, n) = {}
    BY <1>1, NothingToKeep
  <2> QED BY <2>2, <2>3
<1>2. CASE l.results # <<>>
  <2>1. new = ToolResultComponents(l)
    BY <1>2 DEF UserComponents
  <2>2. /\ OnlyLine(new, n)
        /\ l.uuid => \A k \in DOMAIN l.results : At(new, <<"uuid", n, k>>) = {k}
    BY <2>1, ResultsNamed
  <2>3. \A r \in KeptOf(l, n) : l.uuid /\ \E k \in DOMAIN l.results : r = <<"uuid", n, k>>
    BY DEF KeptOf
  <2> HIDE DEF new, n
  <2>4. \A r \in KeptOf(l, n) : \E p : At(new, r) = {p}
    BY <2>2, <2>3
  <2> QED BY <2>2, <2>4 DEF new, n
<1> QED
  BY <1>1, <1>2

LEMMA MessageKeeps ==
    ASSUME ClaudeType, NEW l \in ClaudeLines, ReadMessage(l)
    PROVE  \E new : Keeps(l, new)
<1> DEFINE n == Len(claudeRead) + 1
<1>1. l.line = "entry"
      /\ claude' = [Noted(l) EXCEPT !.pending = MessageContext(l),
                                    !.history = IF l.role = "" THEN @ ELSE @ + 1]
  BY DEF ReadMessage
<1>2. DOMAIN claude' = ClaudeFields /\ claude'.pending = MessageContext(l)
      /\ claude'.invocations = claude.invocations
  BY <1>1, NotedFacts DEF ClaudeFields
<1>3. IsSequence(claude.pending)
  BY DEF ClaudeType
<1>4. CASE l.role = "user"
  <2>1. MessageContext(l) = claude.pending \o UserComponents(l)
    BY <1>4 DEF MessageContext
  <2>2. OnlyLine(UserComponents(l), n)
        /\ \A r \in KeptOf(l, n) : \E p : At(UserComponents(l), r) = {p}
    BY <1>1, <1>4, UserNamed
  <2> QED BY <1>2, <2>1, <2>2 DEF Keeps
<1>5. CASE l.role = "assistant"
  <2>1. MessageContext(l) = AppendHistory(claude.pending, l)
    BY <1>5 DEF MessageContext
  <2>2. PICK new : OnlyLine(new, n) /\ AppendHistory(claude.pending, l) = claude.pending \o new
    BY <1>3, HistoryNamed
  <2>3. KeptOf(l, n) = {}
    BY <1>1, <1>5, NothingToKeep
  <2> QED BY <1>2, <2>1, <2>2, <2>3 DEF Keeps
<1>6. CASE l.role \notin {"user", "assistant"}
  <2>1. MessageContext(l) = claude.pending
    BY <1>6 DEF MessageContext
  <2>2. KeptOf(l, n) = {}
    BY <1>1, <1>6, NothingToKeep
  <2> QED BY <1>2, <2>1, <2>2, NothingKeeps
<1> QED
  BY <1>4, <1>5, <1>6

LEMMA AnswerKeeps ==
    ASSUME ClaudeType, NEW l \in ClaudeLines, ReadSynthetic(l) \/ ReadUnmeasured(l) \/ ReadBlank(l)
    PROVE  \E new : Keeps(l, new)
<1> DEFINE n == Len(claudeRead) + 1
<1>0. DOMAIN claude = ClaudeFields /\ IsSequence(claude.pending)
  BY DEF ClaudeType
<1>1. KeptOf(l, n) = {}
  BY NothingToKeep DEF ReadSynthetic, ReadUnmeasured, ReadBlank, IsResponse
<1>2. CASE ReadSynthetic(l)
  <2>1. claude' = Answered(l)
    BY <1>2 DEF ReadSynthetic
  <2> QED BY <1>1, <2>1, NotedFacts, NothingKeeps
<1>3. CASE ReadBlank(l)
  <2>1. claude' = claude
    BY <1>3 DEF ReadBlank
  <2> QED BY <1>0, <1>1, <2>1, NothingKeeps
<1>4. CASE ReadUnmeasured(l)
  <2>1. claude' = [Answered(l) EXCEPT !.pending = AppendHistory(@, l), !.history = @ + 1]
    BY <1>4 DEF ReadUnmeasured
  <2>2. DOMAIN claude' = ClaudeFields /\ claude'.pending = AppendHistory(claude.pending, l)
        /\ claude'.invocations = claude.invocations
    BY <2>1, NotedFacts DEF ClaudeFields
  <2>3. PICK new : OnlyLine(new, n) /\ AppendHistory(claude.pending, l) = claude.pending \o new
    BY <1>0, HistoryNamed
  <2> QED BY <1>1, <2>2, <2>3 DEF Keeps
<1> QED
  BY <1>2, <1>3, <1>4

-----------------------------------------------------------------------------
(* Where the invocations were first read. *)

(* A name says whether there is one.                                        *)
LEMMA SameNames == \A r, s : r.id = s.id => (Named(r) <=> Named(s))
BY DEF Named

(* The lines up to one more.                                                *)
LEMMA OneMoreLine ==
    ASSUME NEW read \in Seq(ClaudeLines), NEW l \in ClaudeLines
    PROVE  /\ DOMAIN Append(read, l) = DOMAIN read \cup {Len(read) + 1}
           /\ Append(read, l)[Len(read) + 1] = l
           /\ \A j \in DOMAIN read : /\ Append(read, l)[j] = read[j] /\ read[j] \in ClaudeLines
                                     /\ j \in Nat /\ j < Len(read) + 1
           /\ Len(read) + 1 \in Nat /\ Len(Append(read, l)) = Len(read) + 1
<1>1. DOMAIN read = 1..Len(read) /\ Len(read) \in Nat
  OBVIOUS
<1>2. \A j \in 1..Len(read) : j \in Nat /\ j < Len(read) + 1
  BY <1>1
<1> QED
  BY <1>1, <1>2, AppendFacts, ElementOfSeq

(* A line that reports no usage is the first of no response.                *)
LEMMA OtherLineRead ==
    ASSUME NEW read \in Seq(ClaudeLines), NEW l \in ClaudeLines, ~ IsMeasured(l),
           NEW first, NEW invocations, FirstLines(first, read, invocations)
    PROVE  FirstLines(first, Append(read, l), invocations)
<1> DEFINE more == Append(read, l)
<1> DEFINE n == Len(read) + 1
<1>1. /\ DOMAIN more = DOMAIN read \cup {n} /\ more[n] = l
      /\ \A j \in DOMAIN read : more[j] = read[j]
  BY OneMoreLine
<1> HIDE DEF more, n
<1>2. \A inv : (\E j \in DOMAIN more : Disagrees(more[j], inv))
                 <=> (\E j \in DOMAIN read : Disagrees(read[j], inv))
  BY <1>1 DEF Disagrees
<1> QED
  BY <1>1, <1>2 DEF FirstLines, more

(* A response that is written again as it was.                              *)
LEMMA DuplicateRead ==
    ASSUME NEW read \in Seq(ClaudeLines), NEW l \in ClaudeLines, IsMeasured(l), Named(l),
           NEW first, NEW invocations, FirstLines(first, read, invocations),
           NEW i \in DOMAIN invocations, invocations[i].id = l.id, invocations[i].usage = l.usage
    PROVE  FirstLines(first, Append(read, l), invocations)
<1> DEFINE more == Append(read, l)
<1> DEFINE n == Len(read) + 1
<1>1. /\ DOMAIN more = DOMAIN read \cup {n} /\ more[n] = l
      /\ \A j \in DOMAIN read : more[j] = read[j] /\ j \in Nat /\ j < n
      /\ n \in Nat
  BY OneMoreLine
<1> HIDE DEF more, n
<1>2. \A k \in DOMAIN invocations : ~ Disagrees(l, invocations[k])
  BY SameNames DEF Disagrees, FirstLines
<1>3. \A k \in DOMAIN invocations :
         (\E j \in DOMAIN more : Disagrees(more[j], invocations[k]))
            <=> (\E j \in DOMAIN read : Disagrees(read[j], invocations[k]))
  BY <1>1, <1>2
<1>4. first[i] \in DOMAIN read /\ first[i] <= n
  <2>1. first[i] \in DOMAIN read
    BY DEF FirstLines
  <2> QED BY <1>1, <2>1
<1>5. \A j \in DOMAIN more : IsMeasured(more[j]) =>
         \E k \in DOMAIN invocations : /\ invocations[k].id = more[j].id /\ first[k] <= j
                                       /\ ~ Named(more[j]) => first[k] = j
  <2> SUFFICES ASSUME NEW j \in DOMAIN more, IsMeasured(more[j])
               PROVE  \E k \in DOMAIN invocations :
                         /\ invocations[k].id = more[j].id /\ first[k] <= j
                         /\ ~ Named(more[j]) => first[k] = j
    OBVIOUS
  <2>1. CASE j = n
    BY <1>1, <1>4, <2>1
  <2>2. CASE j # n
    BY <1>1, <2>2 DEF FirstLines
  <2> QED BY <2>1, <2>2
<1>6. ASSUME NEW k \in DOMAIN invocations
      PROVE  /\ first[k] \in DOMAIN more /\ IsMeasured(more[first[k]])
             /\ more[first[k]].id = invocations[k].id /\ more[first[k]].usage = invocations[k].usage
  <2>1. /\ first[k] \in DOMAIN read /\ IsMeasured(read[first[k]])
        /\ read[first[k]].id = invocations[k].id /\ read[first[k]].usage = invocations[k].usage
    BY DEF FirstLines
  <2> QED BY <1>1, <2>1
<1> QED
  BY <1>3, <1>5, <1>6 DEF FirstLines, more

\* The i-th invocation is in conflict, and nothing else has changed.
Marks(marked, invocations, i) ==
    /\ DOMAIN marked = DOMAIN invocations /\ marked[i].conflict = TRUE
    /\ \A k \in DOMAIN invocations :
         /\ marked[k].id = invocations[k].id /\ marked[k].usage = invocations[k].usage
         /\ marked[k].context = invocations[k].context
         /\ k # i => marked[k].conflict = invocations[k].conflict

(* A response that is written again with another usage.                     *)
LEMMA ConflictRead ==
    ASSUME NEW read \in Seq(ClaudeLines), NEW l \in ClaudeLines, IsMeasured(l), Named(l),
           NEW first, NEW invocations, FirstLines(first, read, invocations),
           NEW i \in DOMAIN invocations, invocations[i].id = l.id, invocations[i].usage # l.usage,
           NEW marked, Marks(marked, invocations, i)
    PROVE  FirstLines(first, Append(read, l), marked)
<1> USE DEF Marks
<1> DEFINE more == Append(read, l)
<1> DEFINE n == Len(read) + 1
<1>1. /\ DOMAIN more = DOMAIN read \cup {n} /\ more[n] = l
      /\ \A j \in DOMAIN read : more[j] = read[j] /\ j \in Nat /\ j < n
      /\ n \in Nat
  BY OneMoreLine
<1> HIDE DEF more, n
<1>2. Disagrees(l, marked[i])
  BY SameNames DEF Disagrees
<1>3. \A k \in DOMAIN invocations : k # i => ~ Disagrees(l, marked[k])
  BY SameNames DEF Disagrees, FirstLines
<1>4. \A k \in DOMAIN invocations : \A o : Disagrees(o, marked[k]) <=> Disagrees(o, invocations[k])
  BY SameNames DEF Disagrees
<1>5. \A k \in DOMAIN marked : marked[k].conflict <=> \E j \in DOMAIN more : Disagrees(more[j], marked[k])
  <2> TAKE k \in DOMAIN marked
  <2>1. CASE k = i
    BY <1>1, <1>2, <2>1
  <2>2. CASE k # i
    <3>1. invocations[k].conflict <=> \E j \in DOMAIN read : Disagrees(read[j], invocations[k])
      BY DEF FirstLines
    <3>2. (\E j \in DOMAIN more : Disagrees(more[j], marked[k]))
            <=> (\E j \in DOMAIN read : Disagrees(read[j], invocations[k]))
      BY <1>1, <1>3, <1>4, <2>2
    <3>3. marked[k].conflict = invocations[k].conflict
      BY <2>2
    <3> QED BY <3>1, <3>2, <3>3
  <2> QED BY <2>1, <2>2
<1>6. first[i] \in DOMAIN read /\ first[i] <= n
  <2>1. first[i] \in DOMAIN read
    BY DEF FirstLines
  <2> QED BY <1>1, <2>1
<1>7. \A j \in DOMAIN more : IsMeasured(more[j]) =>
         \E k \in DOMAIN marked : /\ marked[k].id = more[j].id /\ first[k] <= j
                                  /\ ~ Named(more[j]) => first[k] = j
  <2> SUFFICES ASSUME NEW j \in DOMAIN more, IsMeasured(more[j])
               PROVE  \E k \in DOMAIN invocations :
                         /\ invocations[k].id = more[j].id /\ first[k] <= j
                         /\ ~ Named(more[j]) => first[k] = j
    OBVIOUS
  <2>1. CASE j = n
    BY <1>1, <1>6, <2>1
  <2>2. CASE j # n
    BY <1>1, <2>2 DEF FirstLines
  <2> QED BY <2>1, <2>2
<1>8. ASSUME NEW k \in DOMAIN marked
      PROVE  /\ first[k] \in DOMAIN more /\ IsMeasured(more[first[k]])
             /\ more[first[k]].id = marked[k].id /\ more[first[k]].usage = marked[k].usage
  <2>1. /\ first[k] \in DOMAIN read /\ IsMeasured(read[first[k]])
        /\ read[first[k]].id = invocations[k].id /\ read[first[k]].usage = invocations[k].usage
    BY DEF FirstLines
  <2> QED BY <1>1, <2>1
<1>9. ASSUME NEW k \in DOMAIN marked, NEW m \in DOMAIN marked
      PROVE  /\ first[k] = first[m] => k = m
             /\ Named(marked[k]) /\ marked[k].id = marked[m].id => k = m
  <2>1. /\ first[k] = first[m] => k = m
        /\ Named(invocations[k]) /\ invocations[k].id = invocations[m].id => k = m
    BY DEF FirstLines
  <2>2. Named(marked[k]) <=> Named(invocations[k])
    BY SameNames
  <2> QED BY <2>1, <2>2
<1> QED
  BY <1>5, <1>7, <1>8, <1>9 DEF FirstLines, more

(* A response that was not written before.                                  *)
LEMMA InvocationRead ==
    ASSUME NEW read \in Seq(ClaudeLines), NEW l \in ClaudeLines, IsMeasured(l),
           NEW invocations, IsSequence(invocations), NEW first, FirstLines(first, read, invocations),
           \A i \in DOMAIN invocations : ~ (Named(l) /\ invocations[i].id = l.id),
           NEW inv, inv.id = l.id, inv.usage = l.usage, inv.conflict = FALSE
    PROVE  \E after : FirstLines(after, Append(read, l), Append(invocations, inv))
<1> DEFINE more == Append(read, l)
<1> DEFINE n == Len(read) + 1
<1> DEFINE t == Len(invocations) + 1
<1> DEFINE longer == Append(invocations, inv)
<1> DEFINE after == [k \in DOMAIN longer |-> IF k = t THEN n ELSE first[k]]
<1>1. /\ DOMAIN more = DOMAIN read \cup {n} /\ more[n] = l
      /\ \A j \in DOMAIN read : more[j] = read[j] /\ j \in Nat /\ j < n
      /\ n \in Nat
  BY OneMoreLine
<1>2. /\ DOMAIN longer = DOMAIN invocations \cup {t} /\ longer[t] = inv
      /\ \A k \in DOMAIN invocations : longer[k] = invocations[k] /\ k # t
  <2>1. DOMAIN invocations = 1..Len(invocations) /\ Len(invocations) \in Nat
    BY SequenceFacts
  <2>2. \A k \in 1..Len(invocations) : k # Len(invocations) + 1
    BY <2>1
  <2> QED BY <2>1, <2>2, AppendSequence
<1> HIDE DEF longer, t
<1>3. after[t] = n /\ \A k \in DOMAIN invocations : after[k] = first[k]
  BY <1>2
<1> HIDE DEF after, more, n
<1>4. \A k \in DOMAIN invocations : first[k] \in DOMAIN read /\ first[k] # n
  BY <1>1 DEF FirstLines
<1>5. \A j \in DOMAIN more : ~ Disagrees(more[j], inv)
  <2> TAKE j \in DOMAIN more
  <2>1. CASE j = n
    BY <1>1, <2>1, SameNames DEF Disagrees
  <2>2. CASE j # n
    BY <1>1, <2>2, SameNames DEF Disagrees, FirstLines
  <2> QED BY <2>1, <2>2
<1>6. ASSUME NEW k \in DOMAIN invocations
      PROVE  invocations[k].conflict <=> \E j \in DOMAIN more : Disagrees(more[j], invocations[k])
  <2>1. ~ Disagrees(l, invocations[k])
    BY SameNames DEF Disagrees
  <2>2. invocations[k].conflict <=> \E j \in DOMAIN read : Disagrees(read[j], invocations[k])
    BY DEF FirstLines
  <2> QED BY <1>1, <2>1, <2>2
<1>7. ASSUME NEW k \in DOMAIN longer
      PROVE  /\ after[k] \in DOMAIN more /\ IsMeasured(more[after[k]])
             /\ more[after[k]].id = longer[k].id /\ more[after[k]].usage = longer[k].usage
             /\ longer[k].conflict <=> \E j \in DOMAIN more : Disagrees(more[j], longer[k])
  <2>1. CASE k = t
    BY <1>1, <1>2, <1>3, <1>5, <2>1
  <2>2. CASE k # t
    <3>1. k \in DOMAIN invocations /\ longer[k] = invocations[k] /\ after[k] = first[k]
      BY <1>2, <1>3, <2>2
    <3>2. /\ first[k] \in DOMAIN read /\ IsMeasured(read[first[k]])
          /\ read[first[k]].id = invocations[k].id /\ read[first[k]].usage = invocations[k].usage
      BY <3>1 DEF FirstLines
    <3> QED BY <1>1, <1>6, <3>1, <3>2
  <2> QED BY <2>1, <2>2
<1>8. ASSUME NEW k \in DOMAIN longer, NEW m \in DOMAIN longer
      PROVE  /\ after[k] = after[m] => k = m
             /\ Named(longer[k]) /\ longer[k].id = longer[m].id => k = m
  <2>0. \A i \in DOMAIN invocations : longer[i].id = inv.id => ~ Named(longer[i]) /\ ~ Named(inv)
    BY <1>2, SameNames
  <2>1. CASE k = t \/ m = t
    <3>1. after[k] = after[m] => k = m
      BY <1>2, <1>3, <1>4, <2>1
    <3>2. Named(longer[k]) /\ longer[k].id = longer[m].id => k = m
      BY <1>2, <2>0, <2>1
    <3> QED BY <3>1, <3>2
  <2>2. CASE k # t /\ m # t
    BY <1>2, <1>3, <2>2 DEF FirstLines
  <2> QED BY <2>1, <2>2
<1>9. ASSUME NEW j \in DOMAIN more, IsMeasured(more[j])
      PROVE  \E k \in DOMAIN longer : /\ longer[k].id = more[j].id /\ after[k] <= j
                                      /\ ~ Named(more[j]) => after[k] = j
  <2>1. CASE j = n
    BY <1>1, <1>2, <1>3, <2>1
  <2>2. CASE j # n
    <3>1. PICK k \in DOMAIN invocations : /\ invocations[k].id = read[j].id /\ first[k] <= j
                                          /\ ~ Named(read[j]) => first[k] = j
      BY <1>1, <1>9, <2>2 DEF FirstLines
    <3> QED BY <1>1, <1>2, <1>3, <2>2, <3>1
  <2> QED BY <2>1, <2>2
<1>10. FirstLines(after, more, longer)
  BY <1>7, <1>8, <1>9 DEF FirstLines
<1> QED
  BY <1>10 DEF more, longer

-----------------------------------------------------------------------------
(* The invariant holds. *)

(* What is taken by an invocation is marked, but stays where it is.          *)
LEMMA MarkedKeeps ==
    ASSUME NEW read, NEW pending, NEW invocations, NEW marked, NEW i, Marks(marked, invocations, i),
           RecordsKept(read, pending, invocations)
    PROVE  RecordsKept(read, pending, marked)
<1>1. \A r : /\ InOnePlace(pending, invocations, r) => InOnePlace(pending, marked, r)
             /\ Nowhere(pending, invocations, r) => Nowhere(pending, marked, r)
  BY DEF InOnePlace, Nowhere, Marks
<1> QED
  BY <1>1 DEF RecordsKept

LEMMA ClaudeInvInit == ClaudeInit => ClaudeInv
<1> SUFFICES ASSUME ClaudeInit PROVE ClaudeInv
  OBVIOUS
<1>1. /\ claudeRead = <<>> /\ DOMAIN claude = ClaudeFields
      /\ claude.pending = <<>> /\ claude.invocations = <<>>
  BY DEF ClaudeInit, ClaudeFields
<1>2. <<>> \in Seq({}) /\ <<>> \in Seq(ClaudeLines) /\ DOMAIN <<>> = {}
  OBVIOUS
<1>3. ClaudeType
  BY <1>1, <1>2 DEF ClaudeType, IsSequence
<1>4. \A r : Nowhere(<<>>, <<>>, r)
  BY <1>2, EmptyAt DEF Nowhere
<1>5. RecordsKept(<<>>, <<>>, <<>>)
  BY <1>2, <1>4 DEF RecordsKept
<1>6. FirstLines(<<>>, <<>>, <<>>)
  BY <1>2 DEF FirstLines
<1> QED
  BY <1>1, <1>3, <1>5, <1>6 DEF ClaudeInv

(* A line that leaves the invocations as they are.                          *)
LEMMA KeepingKeepsInv ==
    ASSUME ClaudeInv, NEW l \in ClaudeLines, claudeRead' = Append(claudeRead, l), ~ IsMeasured(l),
           NEW new, Keeps(l, new)
    PROVE  ClaudeInv'
<1>1. /\ claudeRead \in Seq(ClaudeLines) /\ IsSequence(claude.pending)
      /\ RecordsKept(claudeRead, claude.pending, claude.invocations)
  BY DEF ClaudeInv, ClaudeType
<1>2. /\ DOMAIN claude' = ClaudeFields
      /\ claude'.pending = claude.pending \o new /\ claude'.invocations = claude.invocations
      /\ OnlyLine(new, Len(claudeRead) + 1)
      /\ \A r \in KeptOf(l, Len(claudeRead) + 1) : \E p : At(new, r) = {p}
  BY DEF Keeps
<1>3. IsSequence(claude.pending \o new)
  BY <1>1, <1>2, JoinedSequence DEF OnlyLine
<1>4. claudeRead' \in Seq(ClaudeLines)
  BY <1>1, AppendFacts
<1>5. ClaudeType'
  BY <1>2, <1>3, <1>4 DEF ClaudeInv, ClaudeType
<1>6. RecordsKept(Append(claudeRead, l), claude.pending \o new, claude.invocations)
  BY <1>1, <1>2, LineIsKept
<1>7. PICK first : FirstLines(first, claudeRead, claude.invocations)
  BY DEF ClaudeInv
<1>8. FirstLines(first, Append(claudeRead, l), claude.invocations)
  BY <1>1, <1>7, OtherLineRead
<1>9. RecordsKept(claudeRead', claude'.pending, claude'.invocations)
      /\ FirstLines(first, claudeRead', claude'.invocations)
  BY <1>2, <1>6, <1>8
<1> QED
  BY <1>5, <1>9 DEF ClaudeInv

(* A line that is no part of a response's context, and marks or repeats one.  *)
LEMMA RepeatKeepsInv ==
    ASSUME ClaudeInv, NEW l \in ClaudeLines, claudeRead' = Append(claudeRead, l), IsMeasured(l),
           ReadConflict(l) \/ ReadDuplicate(l)
    PROVE  ClaudeInv'
<1> DEFINE invs == claude.invocations
<1> DEFINE n == Len(claudeRead) + 1
<1>1. /\ claudeRead \in Seq(ClaudeLines) /\ IsSequence(claude.pending)
      /\ RecordsKept(claudeRead, claude.pending, invs)
      /\ IsSequence(invs) /\ ClaudeType
      /\ \A k \in DOMAIN invs : DOMAIN invs[k] = InvocationFields /\ invs[k].conflict \in BOOLEAN
  BY DEF ClaudeInv, ClaudeType
<1>2. PICK first : FirstLines(first, claudeRead, invs)
  BY DEF ClaudeInv
<1>3. claudeRead' \in Seq(ClaudeLines)
  BY <1>1, AppendFacts
<1>4. KeptOf(l, n) = {}
  BY NothingToKeep DEF IsMeasured, IsResponse
<1>5. RecordsKept(Append(claudeRead, l), claude.pending, invs)
  <2>1. RecordsKept(Append(claudeRead, l), claude.pending \o <<>>, invs)
    BY <1>1, <1>4, NothingNamed, LineIsKept
  <2>2. claude.pending \o <<>> = claude.pending
    BY <1>1, JoinsOfOne
  <2> QED BY <2>1, <2>2
<1>6. \A i : i \in Earlier(l.id) <=> i \in DOMAIN invs /\ Named(l) /\ invs[i].id = l.id
  BY DEF Earlier, Named
<1>7. CASE ReadDuplicate(l)
  <2>1. PICK i \in Earlier(l.id) : invs[i].usage = l.usage
    BY <1>7 DEF ReadDuplicate
  <2>2. claude' = [Answered(l) EXCEPT !.duplicates = @ + 1]
    BY <1>7 DEF ReadDuplicate
  <2>3. /\ DOMAIN claude' = ClaudeFields /\ claude'.pending = claude.pending
        /\ claude'.invocations = invs
    BY <1>1, <2>2, NotedFacts DEF ClaudeFields
  <2>4. FirstLines(first, Append(claudeRead, l), invs)
    BY <1>1, <1>2, <1>6, <2>1, DuplicateRead
  <2>5. ClaudeType'
    BY <1>1, <1>3, <2>3 DEF ClaudeType
  <2> HIDE DEF invs
  <2> QED BY <1>5, <2>3, <2>4, <2>5 DEF ClaudeInv
<1>8. CASE ReadConflict(l)
  <2>1. PICK i \in Earlier(l.id) :
          /\ invs[i].usage # l.usage
          /\ claude' = [Answered(l) EXCEPT !.invocations[i].conflict = TRUE, !.conflicts = @ + 1]
    BY <1>8 DEF ReadConflict
  <2> DEFINE marked == [invs EXCEPT ![i].conflict = TRUE]
  <2>2. /\ DOMAIN claude' = ClaudeFields /\ claude'.pending = claude.pending
        /\ claude'.invocations = marked
    BY <1>1, <2>1, NotedFacts DEF ClaudeFields
  <2>3. DOMAIN marked = DOMAIN invs
        /\ \A k \in DOMAIN invs :
             marked[k] = IF k = i THEN [invs[k] EXCEPT !.conflict = TRUE] ELSE invs[k]
    OBVIOUS
  <2>4. ASSUME NEW k \in DOMAIN invs
        PROVE  /\ DOMAIN marked[k] = InvocationFields
               /\ marked[k].id = invs[k].id /\ marked[k].usage = invs[k].usage
               /\ marked[k].context = invs[k].context
               /\ marked[k].conflict = IF k = i THEN TRUE ELSE invs[k].conflict
    BY <1>1, <2>3 DEF InvocationFields
  <2>5. IsSequence(marked)
    <3>1. Len(invs) \in Nat /\ DOMAIN invs = 1..Len(invs)
      BY <1>1, SequenceFacts
    <3>2. marked = [k \in 1..Len(invs) |-> marked[k]]
      BY <3>1
    <3> HIDE DEF marked, invs
    <3> QED BY <3>1, <3>2, MappingIsSequence
  <2> HIDE DEF marked
  <2>6. i \in DOMAIN invs /\ Named(l) /\ invs[i].id = l.id
    BY <1>6
  <2>7. Marks(marked, invs, i)
    BY <2>3, <2>4, <2>6 DEF Marks
  <2>8. RecordsKept(Append(claudeRead, l), claude.pending, marked)
    <3> HIDE DEF invs
    <3> QED BY <1>5, <2>7, MarkedKeeps
  <2>9. FirstLines(first, Append(claudeRead, l), marked)
    <3>1. invs[i].usage # l.usage
      BY <2>1
    <3> HIDE DEF invs
    <3> QED BY <1>1, <1>2, <2>6, <2>7, <3>1, ConflictRead
  <2>10. ClaudeType'
    BY <1>1, <1>3, <2>2, <2>3, <2>4, <2>5 DEF ClaudeType
  <2>11. RecordsKept(claudeRead', claude'.pending, claude'.invocations)
         /\ FirstLines(first, claudeRead', claude'.invocations)
    BY <2>2, <2>8, <2>9
  <2> QED BY <2>10, <2>11 DEF ClaudeInv
<1> QED
  BY <1>7, <1>8

(* A new invocation.                                                        *)
LEMMA InvocationKeepsInv ==
    ASSUME ClaudeInv, NEW l \in ClaudeLines, claudeRead' = Append(claudeRead, l), ReadInvocation(l)
    PROVE  ClaudeInv'
<1> DEFINE invs == claude.invocations
<1> DEFINE n == Len(claudeRead) + 1
<1> DEFINE inv == [id |-> l.id, model |-> l.model, usage |-> l.usage, at |-> l.at,
                   conflict |-> FALSE, context |-> DedupeContext(claude.pending)]
<1> DEFINE longer == Append(invs, inv)
<1>1. /\ claudeRead \in Seq(ClaudeLines) /\ IsSequence(claude.pending)
      /\ RecordsKept(claudeRead, claude.pending, invs)
      /\ IsSequence(invs) /\ ClaudeType
      /\ \A k \in DOMAIN invs : DOMAIN invs[k] = InvocationFields /\ invs[k].conflict \in BOOLEAN
  BY DEF ClaudeInv, ClaudeType
<1>2. PICK first : FirstLines(first, claudeRead, invs)
  BY DEF ClaudeInv
<1>3. claudeRead' \in Seq(ClaudeLines)
  BY <1>1, AppendFacts
<1>4. KeptOf(l, n) = {}
  BY NothingToKeep DEF ReadInvocation, IsMeasured, IsResponse
<1>5. IsMeasured(l) /\ Earlier(l.id) = {}
      /\ claude' = [Answered(l) EXCEPT !.invocations = Append(@, inv),
                      !.pending = AppendHistory(<<>>, l), !.history = @ + 1]
  BY DEF ReadInvocation
<1>6. /\ inv.id = l.id /\ inv.usage = l.usage /\ inv.conflict = FALSE
      /\ inv.context = DedupeContext(claude.pending) /\ DOMAIN inv = InvocationFields
  BY DEF InvocationFields
<1> HIDE DEF inv
<1>7. /\ DOMAIN claude' = ClaudeFields /\ claude'.pending = AppendHistory(<<>>, l)
      /\ claude'.invocations = longer
  BY <1>1, <1>5, NotedFacts DEF ClaudeFields
<1>8. \A i \in DOMAIN invs : ~ (Named(l) /\ invs[i].id = l.id)
  BY <1>5 DEF Earlier, Named
<1>9. /\ IsSequence(longer) /\ DOMAIN longer = DOMAIN invs \cup {Len(invs) + 1}
      /\ \A i \in DOMAIN invs : longer[i] = invs[i]
      /\ longer[Len(invs) + 1] = inv
  BY <1>1, AppendSequence
<1>10. IsSequence(<<>>)
  BY NothingNamed DEF OnlyLine
<1>11. PICK new : OnlyLine(new, n) /\ AppendHistory(<<>>, l) = <<>> \o new
  BY <1>1, <1>10, HistoryNamed
<1>12. IsSequence(<<>> \o new)
  BY <1>10, <1>11, JoinedSequence DEF OnlyLine
<1> HIDE DEF longer, invs
<1>13. PICK after : FirstLines(after, Append(claudeRead, l), longer)
  BY <1>1, <1>2, <1>5, <1>6, <1>8, InvocationRead DEF longer
<1>14. RecordsKept(claudeRead, <<>>, longer)
  BY <1>1, <1>6, TakingIsKept DEF longer
<1>15. RecordsKept(Append(claudeRead, l), <<>> \o new, longer)
  BY <1>1, <1>4, <1>10, <1>11, <1>14, LineIsKept
<1>16. ClaudeType'
  <2>1. \A k \in DOMAIN longer : DOMAIN longer[k] = InvocationFields /\ longer[k].conflict \in BOOLEAN
    BY <1>1, <1>6, <1>9
  <2> QED BY <1>3, <1>7, <1>9, <1>11, <1>12, <2>1 DEF ClaudeType
<1>17. RecordsKept(claudeRead', claude'.pending, claude'.invocations)
       /\ FirstLines(after, claudeRead', claude'.invocations)
  BY <1>7, <1>11, <1>13, <1>15
<1> QED
  BY <1>16, <1>17 DEF ClaudeInv

LEMMA ClaudeInvNext == ClaudeInv /\ [ClaudeNext]_<<claudeRead, claude>> => ClaudeInv'
<1> SUFFICES ASSUME ClaudeInv, [ClaudeNext]_<<claudeRead, claude>> PROVE ClaudeInv'
  OBVIOUS
<1>1. ASSUME UNCHANGED <<claudeRead, claude>> PROVE ClaudeInv'
  <2>1. claudeRead' = claudeRead /\ claude' = claude
    BY <1>1
  <2> QED BY <2>1 DEF ClaudeInv, ClaudeType
<1>2. ASSUME NEW l \in ClaudeLines, claudeRead' = Append(claudeRead, l),
             ReadUnreadable(l) \/ ReadBlank(l) \/ ReadMessage(l) \/ ReadSynthetic(l) \/ ReadUnmeasured(l)
      PROVE  ClaudeInv'
  <2>1. ClaudeType
    BY DEF ClaudeInv
  <2>2. ~ IsMeasured(l)
    BY <1>2 DEF ReadUnreadable, ReadBlank, ReadMessage, ReadSynthetic, ReadUnmeasured,
                IsMeasured, IsResponse
  <2>3. PICK new : Keeps(l, new)
    BY <1>2, <2>1, UnreadableKeeps, MessageKeeps, AnswerKeeps
  <2> QED BY <1>2, <2>2, <2>3, KeepingKeepsInv
<1>3. ASSUME NEW l \in ClaudeLines, claudeRead' = Append(claudeRead, l),
             ReadConflict(l) \/ ReadDuplicate(l)
      PROVE  ClaudeInv'
  <2>1. IsMeasured(l)
    BY <1>3 DEF ReadConflict, ReadDuplicate
  <2> QED BY <1>3, <2>1, RepeatKeepsInv
<1>4. ASSUME NEW l \in ClaudeLines, claudeRead' = Append(claudeRead, l), ReadInvocation(l)
      PROVE  ClaudeInv'
  BY <1>4, InvocationKeepsInv
<1> QED
  BY <1>1, <1>2, <1>3, <1>4 DEF ClaudeNext

LEMMA ClaudeInvHolds == ClaudeSpec => []ClaudeInv
BY ClaudeInvInit, ClaudeInvNext, PTL DEF ClaudeSpec

-----------------------------------------------------------------------------
(* A response is counted once. *)

(* The usage of a line, and of an invocation, is added as a number.          *)
LEMMA AddedIsNumber ==
    ASSUME NEW l \in ClaudeLines, NEW c PROVE Added(l.usage, c) \in Int
<1>1. \A d \in DOMAIN l.usage : l.usage[d] \in Int
  BY ClaudeAssumption DEF ClaudeLine
<1> QED
  BY <1>1 DEF Added, Counted, Present

(* The lines that may be counted are the first lines of the accepted         *)
(* invocations.                                                             *)
LEMMA CountedAreFirst ==
    ASSUME ClaudeType, NEW first, FirstLines(first, claudeRead, claude.invocations)
    PROVE  CountedLines = {first[i] : i \in Accepted}
<1> DEFINE read == claudeRead
<1> DEFINE invs == claude.invocations
<1>1. read \in Seq(ClaudeLines) /\ \A j \in DOMAIN read : j \in Nat
  <2>1. read \in Seq(ClaudeLines)
    BY DEF ClaudeType
  <2>2. \A j \in DOMAIN read : j \in Nat
    <3> HIDE DEF read
    <3> QED BY <2>1
  <2> QED BY <2>1, <2>2
<1>2. \A j : j \in CountedLines <=>
        /\ j \in DOMAIN read /\ IsMeasured(read[j])
        /\ Named(read[j]) => \A k \in DOMAIN read : IsMeasured(read[k]) /\ read[k].id = read[j].id
                                => j <= k /\ read[k].usage = read[j].usage
  BY DEF CountedLines, Named
<1>3. \A i : i \in Accepted <=> i \in DOMAIN invs /\ ~ invs[i].conflict
  BY DEF Accepted
<1> HIDE DEF read, invs
<1>4. FirstLines(first, read, invs)
  BY DEF read, invs
<1>5. ASSUME NEW j \in CountedLines PROVE \E i \in Accepted : j = first[i]
  <2>1. j \in DOMAIN read /\ IsMeasured(read[j])
    BY <1>2
  <2>2. PICK i \in DOMAIN invs : /\ invs[i].id = read[j].id /\ first[i] <= j
                                 /\ ~ Named(read[j]) => first[i] = j
    BY <1>4, <2>1 DEF FirstLines
  <2>3. /\ first[i] \in DOMAIN read /\ IsMeasured(read[first[i]])
        /\ read[first[i]].id = invs[i].id /\ read[first[i]].usage = invs[i].usage
        /\ invs[i].conflict <=> \E k \in DOMAIN read : Disagrees(read[k], invs[i])
    BY <1>4 DEF FirstLines
  <2>4. Named(read[j]) <=> Named(invs[i])
    BY <2>2, SameNames
  <2>5. first[i] = j
    <3>1. CASE Named(read[j])
      <4>1. j <= first[i]
        BY <1>2, <2>2, <2>3, <3>1
      <4> QED BY <1>1, <2>1, <2>2, <2>3, <4>1
    <3> QED BY <2>2, <3>1
  <2>6. ASSUME NEW k \in DOMAIN read PROVE ~ Disagrees(read[k], invs[i])
    BY <1>2, <2>2, <2>3, <2>4, <2>5 DEF Disagrees
  <2> QED BY <1>3, <2>3, <2>5, <2>6
<1>6. ASSUME NEW i \in Accepted PROVE first[i] \in CountedLines
  <2>1. i \in DOMAIN invs /\ ~ invs[i].conflict
    BY <1>3
  <2>2. /\ first[i] \in DOMAIN read /\ IsMeasured(read[first[i]])
        /\ read[first[i]].id = invs[i].id /\ read[first[i]].usage = invs[i].usage
        /\ invs[i].conflict <=> \E k \in DOMAIN read : Disagrees(read[k], invs[i])
    BY <1>4, <2>1 DEF FirstLines
  <2>3. Named(read[first[i]]) <=> Named(invs[i])
    BY <2>2, SameNames
  <2>4. ASSUME Named(invs[i]), NEW k \in DOMAIN read, IsMeasured(read[k]),
               read[k].id = read[first[i]].id
        PROVE  first[i] <= k /\ read[k].usage = read[first[i]].usage
    <3>1. ~ Disagrees(read[k], invs[i])
      BY <2>1, <2>2
    <3>2. read[k].usage = read[first[i]].usage
      BY <2>2, <2>4, <3>1 DEF Disagrees
    <3>3. PICK m \in DOMAIN invs : invs[m].id = read[k].id /\ first[m] <= k
      BY <1>4, <2>4 DEF FirstLines
    <3>4. m = i
      BY <1>4, <2>1, <2>2, <2>4, <3>3 DEF FirstLines
    <3> QED BY <3>2, <3>3, <3>4
  <2> QED BY <1>2, <2>2, <2>3, <2>4
<1> QED
  BY <1>5, <1>6

(* What is accumulated over the accepted invocations.                       *)
LEMMA SessionAdds ==
    /\ SessionSnapshot.accepted = Cardinality(Accepted)
    /\ \A c \in DOMAIN SessionSnapshot.usage :
         SessionSnapshot.usage[c] =
           SumFunctionOnSet([i \in Accepted |-> Added(claude.invocations[i].usage, c)], Accepted)
<1> DEFINE us == [i \in Accepted |-> claude.invocations[i].usage]
<1> DEFINE present == {c \in Counters : \E i \in DOMAIN us : Present(us[i], c)}
<1>1. DOMAIN us = Accepted /\ \A i \in Accepted : us[i] = claude.invocations[i].usage
  OBVIOUS
<1>2. SessionSnapshot = Accumulated(us)
  BY DEF SessionSnapshot
<1> HIDE DEF us
<1>3. /\ SessionSnapshot.accepted = Cardinality(Accepted)
      /\ SessionSnapshot.usage =
           [c \in present |-> SumFunction([i \in DOMAIN us |-> Added(us[i], c)])]
  BY <1>1, <1>2 DEF Accumulated
<1> HIDE DEF present
<1>4. ASSUME NEW c
      PROVE  SumFunction([i \in DOMAIN us |-> Added(us[i], c)])
               = SumFunctionOnSet([i \in Accepted |-> Added(claude.invocations[i].usage, c)], Accepted)
  <2> DEFINE f == [i \in DOMAIN us |-> Added(us[i], c)]
  <2>1. f = [i \in Accepted |-> Added(claude.invocations[i].usage, c)] /\ DOMAIN f = Accepted
    BY <1>1
  <2> HIDE DEF f
  <2>2. SumFunction(f) = SumFunctionOnSet(f, Accepted)
    BY <2>1 DEF SumFunction
  <2> QED BY <2>1, <2>2 DEF f
<1> QED
  BY <1>3, <1>4

(* Whatever order the lines come in, and however often a response is written,  *)
(* a session's usage is the sum over the responses whose lines agree.        *)
THEOREM ClaudeResponsesAreCountedOnce == ClaudeSpec => []ClaudeCountsResponsesOnce
<1>1. ClaudeInv => ClaudeCountsResponsesOnce
  <2> SUFFICES ASSUME ClaudeInv PROVE ClaudeCountsResponsesOnce
    OBVIOUS
  <2>1. PICK first : FirstLines(first, claudeRead, claude.invocations)
    BY DEF ClaudeInv
  <2>2. CountedLines = {first[i] : i \in Accepted}
    BY <2>1, CountedAreFirst DEF ClaudeInv
  <2>3. IsFiniteSet(Accepted)
    <3>1. Len(claude.invocations) \in Nat /\ DOMAIN claude.invocations = 1..Len(claude.invocations)
      BY SequenceFacts DEF ClaudeInv, ClaudeType
    <3>2. Accepted \subseteq 1..Len(claude.invocations)
      BY <3>1 DEF Accepted
    <3> QED BY <3>1, <3>2, FiniteNumbers
  <2>4. \A i, k \in Accepted : first[i] = first[k] => i = k
    BY <2>1 DEF FirstLines, Accepted
  <2>5. Cardinality(CountedLines) = Cardinality(Accepted)
    BY <2>2, <2>3, <2>4, ImageSize
  <2>6. ASSUME NEW c
        PROVE  SumFunctionOnSet([i \in Accepted |-> Added(claude.invocations[i].usage, c)], Accepted)
                 = SumFunction([j \in CountedLines |-> Added(claudeRead[j].usage, c)])
    <3> DEFINE v == [i \in Accepted |-> Added(claude.invocations[i].usage, c)]
    <3> DEFINE w == [j \in CountedLines |-> Added(claudeRead[j].usage, c)]
    <3>1. \A j \in CountedLines : claudeRead[j] \in ClaudeLines
      <4>1. claudeRead \in Seq(ClaudeLines)
        BY DEF ClaudeInv, ClaudeType
      <4>2. CountedLines \subseteq DOMAIN claudeRead
        BY DEF CountedLines
      <4> HIDE DEF w, v
      <4> QED BY <4>1, <4>2, ElementOfSeq
    <3>2. Numbers(w, CountedLines)
      BY <3>1, AddedIsNumber DEF Numbers
    <3>3. ASSUME NEW i \in Accepted PROVE v[i] = w[first[i]]
      <4>1. first[i] \in CountedLines
        BY <2>2
      <4>2. claudeRead[first[i]].usage = claude.invocations[i].usage
        BY <2>1 DEF FirstLines, Accepted
      <4> QED BY <4>1, <4>2
    <3>4. DOMAIN w = CountedLines
      OBVIOUS
    <3> HIDE DEF v, w
    <3>5. SumFunctionOnSet(v, Accepted) = SumFunctionOnSet(w, CountedLines)
      <4>1. Carries(first, v, Accepted, w, CountedLines)
        BY <2>2, <2>4, <3>3 DEF Carries
      <4> QED BY <2>3, <3>2, <4>1, SumOfImage
    <3>6. SumFunction(w) = SumFunctionOnSet(w, CountedLines)
      BY <3>4 DEF SumFunction
    <3> QED BY <3>5, <3>6 DEF v, w
  <2> QED BY <2>5, <2>6, SessionAdds DEF ClaudeCountsResponsesOnce
<1> QED
  BY <1>1, ClaudeInvHolds, PTL

(* Every tool result and every unreadable line is in the context of exactly  *)
(* one turn, or in the one that belongs to none.                            *)
THEOREM ClaudeRecordsAreKept == ClaudeSpec => []ClaudeContextKept
<1>1. ClaudeInv => ClaudeContextKept
  <2> SUFFICES ASSUME ClaudeInv, NEW i \in DOMAIN claudeRead, NEW r \in KeptOf(claudeRead[i], i)
               PROVE  Cardinality(Places(ClaudeContexts, r)) = 1
    BY DEF ClaudeContextKept, KeptOf
  <2>1. /\ IsSequence(claude.pending) /\ IsSequence(claude.invocations)
        /\ RecordsKept(claudeRead, claude.pending, claude.invocations)
    BY DEF ClaudeInv, ClaudeType
  <2>2. InOnePlace(claude.pending, claude.invocations, r)
    BY <2>1 DEF RecordsKept
  <2> QED BY <2>1, <2>2, OnePlaceIsShown DEF ClaudeContexts, TrailingContext
<1> QED
  BY <1>1, ClaudeInvHolds, PTL

-----------------------------------------------------------------------------
(* What a session and its turns are projected to. *)

Observed == {"measured", "derived"}

(* What is taken over of a measurement.                                     *)
LEMMA DirectFacts ==
    ASSUME NEW m, NEW kind \in Observed
    PROVE  /\ ValidMeasurement(DirectField(m, kind))
           /\ Available(DirectField(m, kind)) <=> Available(m)
           /\ Available(m) => DirectField(m, kind).value = m.value
<1>1. CASE Available(m)
  <2>1. DirectField(m, kind) = [kind |-> kind, has |-> TRUE, value |-> m.value]
    BY <1>1 DEF DirectField, Measured
  <2> DEFINE d == DirectField(m, kind)
  <2>2. d.kind = kind /\ d.has = TRUE /\ d.value = m.value
    BY <2>1
  <2> HIDE DEF d
  <2>3. ValidMeasurement(d) /\ Available(d)
    BY <2>2 DEF Observed, ValidMeasurement, Available, Kinds
  <2> QED BY <1>1, <2>2, <2>3 DEF d
<1>2. CASE ~ Available(m)
  <2>1. DirectField(m, kind) = Unknown \/ DirectField(m, kind) = NoMeasurement
    BY <1>2 DEF DirectField
  <2>2. /\ ValidMeasurement(Unknown) /\ ~ Available(Unknown)
        /\ ValidMeasurement(NoMeasurement) /\ ~ Available(NoMeasurement)
    BY DEF Unknown, NoMeasurement, ValidMeasurement, Available, Kinds
  <2> QED BY <1>2, <2>1, <2>2
<1> QED
  BY <1>1, <1>2

(* A sum of available measurements is one, of two or of three.              *)
LEMMA SumIfAllFacts ==
    ASSUME NEW n \in {2, 3}, NEW ms, DOMAIN ms = 1..n,
           \A i \in 1..n : Available(ms[i]) => ms[i].value \in Int
    PROVE  LET sum == SumIfAll(ms)
               all == \A i \in 1..n : Available(ms[i])
           IN  /\ ValidMeasurement(sum)
               /\ Available(sum) <=> all
               /\ all => /\ n = 2 => sum.value = ms[1].value + ms[2].value
                         /\ n = 3 => sum.value = ms[1].value + ms[2].value + ms[3].value
<1> DEFINE sum == SumIfAll(ms)
<1>1. CASE \A i \in 1..n : Available(ms[i])
  <2> DEFINE known == {i \in DOMAIN ms : Available(ms[i])}
  <2> DEFINE values == [i \in known |-> ms[i].value]
  <2>1. known = 1..n /\ known # {} /\ 1 \in 1..n
    BY <1>1
  <2>2. values = [i \in 1..n |-> ms[i].value]
    BY <2>1
  <2>3. sum = Measured(SumFunctionOnSet(values, known), "derived")
    BY <1>1, <2>1 DEF SumIfAll, SumMeasurements
  <2>4. \A i \in 1..n : values[i] = ms[i].value /\ values[i] \in Int
    BY <1>1, <2>2
  <2> HIDE DEF values, known, sum
  <2> DEFINE total == SumFunctionOnSet(values, known)
  <2>5. /\ n = 2 => total = ms[1].value + ms[2].value
        /\ n = 3 => total = ms[1].value + ms[2].value + ms[3].value
    <3>1. CASE n = 2
      <4>1. known = {1, 2} /\ 1 \in 1..n /\ 2 \in 1..n
        BY <2>1, <3>1
      <4>2. SumFunctionOnSet(values, {1, 2}) = values[1] + values[2]
        BY <2>4, <4>1, SmallSums
      <4> QED BY <2>4, <3>1, <4>1, <4>2
    <3>2. CASE n = 3
      <4>1. known = {1, 2, 3} /\ 1 \in 1..n /\ 2 \in 1..n /\ 3 \in 1..n
        BY <2>1, <3>2
      <4>2. SumFunctionOnSet(values, {1, 2, 3}) = values[1] + values[2] + values[3]
        BY <2>4, <4>1, SmallSums
      <4> QED BY <2>4, <3>2, <4>1, <4>2
    <3> QED BY <3>1, <3>2
  <2> HIDE DEF total
  <2>6. sum.kind = "derived" /\ sum.has = TRUE /\ sum.value = total
    BY <2>3 DEF Measured, total
  <2>7. ValidMeasurement(sum) /\ Available(sum)
    BY <2>6 DEF ValidMeasurement, Available, Kinds
  <2> QED BY <1>1, <2>5, <2>6, <2>7 DEF sum
<1>2. CASE ~ \A i \in 1..n : Available(ms[i])
  <2>1. sum = NoMeasurement
    BY <1>2 DEF SumIfAll
  <2>2. ValidMeasurement(NoMeasurement) /\ ~ Available(NoMeasurement)
    BY DEF NoMeasurement, ValidMeasurement, Available, Kinds
  <2> QED BY <1>2, <2>1, <2>2 DEF sum
<1> QED
  BY <1>1, <1>2

\* The measurements that an observation's total is the sum of.
Parts(u) == {u.input, u.cacheRead, u.cacheWrite, u.output}

AllKnown(u) == \A m \in Parts(u) : Available(m)

(* A usage is projected to valid fields; all are known where its parts are,  *)
(* and then the total is their sum.                                         *)
LEMMA ProjectionFacts ==
    ASSUME NEW u, NEW kind \in Observed, \A m \in Parts(u) : Available(m) => m.value \in Int
    PROVE  LET o == ClaudeObservationUsage(u, kind)
           IN  /\ \A f \in UsageFields : ValidMeasurement(o[f])
               /\ (\A f \in UsageFields \ {"reasoning"} : Available(o[f])) <=> AllKnown(u)
               /\ Available(o["total"]) <=> AllKnown(u)
               /\ AllKnown(u) => o["total"].value = u.input.value + u.cacheRead.value
                                                      + u.cacheWrite.value + u.output.value
<1> DEFINE a == DirectField(u.input, kind)
<1> DEFINE b == DirectField(u.cacheRead, kind)
<1> DEFINE c == DirectField(u.cacheWrite, kind)
<1> DEFINE d == DirectField(u.output, kind)
<1> DEFINE s == SumIfAll(<<a, b, c>>)
<1> DEFINE t == SumIfAll(<<s, d>>)
<1> DEFINE o == ClaudeObservationUsage(u, kind)
<1>1. /\ o["freshInput"] = a /\ o["cachedInput"] = b /\ o["cacheCreation"] = c
      /\ o["totalInput"] = s /\ o["output"] = d /\ o["total"] = t /\ o["reasoning"] = NoMeasurement
  <2> HIDE DEF s, t, a, b, c, d
  <2>1. o = [NoUsage EXCEPT !["freshInput"] = a, !["cachedInput"] = b, !["cacheCreation"] = c,
                            !["totalInput"] = s, !["output"] = d, !["total"] = t]
    <3> QED BY DEF ClaudeObservationUsage, s, t, a, b, c, d
  <2> HIDE DEF o
  <2> QED BY <2>1 DEF NoUsage, UsageFields
<1>2. /\ ValidMeasurement(a)
      /\ Available(a) <=> Available(u.input)
      /\ Available(u.input) => a.value = u.input.value /\ a.value \in Int
  BY DirectFacts DEF Parts
<1>3. /\ ValidMeasurement(b)
      /\ Available(b) <=> Available(u.cacheRead)
      /\ Available(u.cacheRead) => b.value = u.cacheRead.value /\ b.value \in Int
  BY DirectFacts DEF Parts
<1>4. /\ ValidMeasurement(c)
      /\ Available(c) <=> Available(u.cacheWrite)
      /\ Available(u.cacheWrite) => c.value = u.cacheWrite.value /\ c.value \in Int
  BY DirectFacts DEF Parts
<1>5. /\ ValidMeasurement(d)
      /\ Available(d) <=> Available(u.output)
      /\ Available(u.output) => d.value = u.output.value /\ d.value \in Int
  BY DirectFacts DEF Parts
<1> HIDE DEF a, b, c, d, o
<1>6. /\ ValidMeasurement(s)
      /\ Available(s) <=> Available(a) /\ Available(b) /\ Available(c)
      /\ Available(s) => s.value = a.value + b.value + c.value /\ s.value \in Int
  <2> DEFINE ms == <<a, b, c>>
  <2>1. DOMAIN ms = 1..3 /\ ms[1] = a /\ ms[2] = b /\ ms[3] = c
    OBVIOUS
  <2> HIDE DEF ms
  <2>2. \A i \in 1..3 : i = 1 \/ i = 2 \/ i = 3
    OBVIOUS
  <2>3. \A i \in 1..3 : Available(ms[i]) => ms[i].value \in Int
    BY <1>2, <1>3, <1>4, <2>1, <2>2
  <2>4. (\A i \in 1..3 : Available(ms[i])) <=> Available(a) /\ Available(b) /\ Available(c)
    BY <2>1, <2>2
  <2>5. /\ ValidMeasurement(SumIfAll(ms))
        /\ Available(SumIfAll(ms)) <=> \A i \in 1..3 : Available(ms[i])
        /\ (\A i \in 1..3 : Available(ms[i]))
             => SumIfAll(ms).value = ms[1].value + ms[2].value + ms[3].value
    BY <2>1, <2>3, SumIfAllFacts
  <2>6. Available(s) => s.value = a.value + b.value + c.value
    BY <2>1, <2>4, <2>5 DEF ms
  <2>7. Available(s) => s.value \in Int
    BY <1>2, <1>3, <1>4, <2>4, <2>5, <2>6 DEF ms
  <2> QED BY <2>4, <2>5, <2>6, <2>7 DEF ms
<1> HIDE DEF s
<1>7. /\ ValidMeasurement(t)
      /\ Available(t) <=> Available(s) /\ Available(d)
      /\ Available(t) => t.value = s.value + d.value
  <2> DEFINE ms == <<s, d>>
  <2>1. DOMAIN ms = 1..2 /\ ms[1] = s /\ ms[2] = d
    OBVIOUS
  <2> HIDE DEF ms
  <2>2. \A i \in 1..2 : i = 1 \/ i = 2
    OBVIOUS
  <2>3. \A i \in 1..2 : Available(ms[i]) => ms[i].value \in Int
    BY <1>5, <1>6, <2>1, <2>2
  <2>4. (\A i \in 1..2 : Available(ms[i])) <=> Available(s) /\ Available(d)
    BY <2>1, <2>2
  <2>5. /\ ValidMeasurement(SumIfAll(ms))
        /\ Available(SumIfAll(ms)) <=> \A i \in 1..2 : Available(ms[i])
        /\ (\A i \in 1..2 : Available(ms[i])) => SumIfAll(ms).value = ms[1].value + ms[2].value
    BY <2>1, <2>3, SumIfAllFacts
  <2> QED BY <2>1, <2>4, <2>5 DEF ms
<1> HIDE DEF t
<1>8. AllKnown(u) <=> Available(a) /\ Available(b) /\ Available(c) /\ Available(d)
  BY <1>2, <1>3, <1>4, <1>5 DEF AllKnown, Parts
<1>9. ValidMeasurement(NoMeasurement)
  BY DEF NoMeasurement, ValidMeasurement, Kinds
<1>10. \A f \in UsageFields : ValidMeasurement(o[f])
  BY <1>1, <1>2, <1>3, <1>4, <1>5, <1>6, <1>7, <1>9 DEF UsageFields
<1>11. (\A f \in UsageFields \ {"reasoning"} : Available(o[f])) <=> AllKnown(u)
  BY <1>1, <1>6, <1>7, <1>8 DEF UsageFields
<1>12. Available(o["total"]) <=> AllKnown(u)
  BY <1>1, <1>6, <1>7, <1>8
<1>13. AllKnown(u) => o["total"].value = u.input.value + u.cacheRead.value
                                            + u.cacheWrite.value + u.output.value
  <2> SUFFICES ASSUME AllKnown(u)
               PROVE  o["total"].value = u.input.value + u.cacheRead.value
                                            + u.cacheWrite.value + u.output.value
    OBVIOUS
  <2>1. o["total"].value = a.value + b.value + c.value + d.value
    BY <1>1, <1>6, <1>7, <1>8
  <2> QED BY <1>2, <1>3, <1>4, <1>5, <1>8, <2>1
<1> QED
  BY <1>10, <1>11, <1>12, <1>13 DEF o

(* The observation of a usage.                                              *)
LEMMA ClaudeObservationFacts ==
    ASSUME NEW id, NEW at, NEW model, NEW u, NEW kind \in Observed,
           \A m \in Parts(u) : Available(m) => m.value \in Int
    PROVE  LET o == ClaudeObservation(id, at, model, ClaudeObservationUsage(u, kind))
           IN  /\ ValidObservation(o) /\ o.id = id
               /\ o.completeness = "complete" <=> AllKnown(u)
               /\ KnownTotal(o) <=> AllKnown(u)
               /\ AllKnown(u) => o.usage["total"].value = u.input.value + u.cacheRead.value
                                                            + u.cacheWrite.value + u.output.value
<1> DEFINE usage == ClaudeObservationUsage(u, kind)
<1> DEFINE needed == UsageFields \ {"reasoning"}
<1> DEFINE o == ClaudeObservation(id, at, model, usage)
<1>1. /\ \A f \in UsageFields : ValidMeasurement(usage[f])
      /\ (\A f \in needed : Available(usage[f])) <=> AllKnown(u)
      /\ Available(usage["total"]) <=> AllKnown(u)
      /\ AllKnown(u) => usage["total"].value = u.input.value + u.cacheRead.value
                                                  + u.cacheWrite.value + u.output.value
  BY ProjectionFacts
<1> HIDE DEF usage, needed
<1>2. /\ o.id = id /\ o.finished = 0 /\ o.usage = usage /\ o.outcome = "unknown"
      /\ o.completeness = ObservationCompleteness(usage, needed)
  BY DEF ClaudeObservation, needed
<1>3. "total" \in needed /\ "total" \in UsageFields
  BY DEF needed, UsageFields
<1>4. \A m : m.kind = "" => ~ Available(m)
  BY DEF Available
<1>5. /\ ObservationCompleteness(usage, needed) \in Completeness
      /\ ObservationCompleteness(usage, needed) = "complete"
           <=> \A f \in needed : Available(usage[f])
  BY <1>3, <1>4 DEF ObservationCompleteness, Completeness
<1> HIDE DEF o
<1>6. ~ (0 < o.finished) /\ o.outcome \in Outcomes
  BY <1>2 DEF Outcomes
<1>7. ValidObservation(o)
  BY <1>1, <1>2, <1>5, <1>6 DEF ValidObservation
<1> QED
  BY <1>1, <1>2, <1>5, <1>7 DEF o, usage, KnownTotal

\* What a snapshot may be: the counters that are complete have a number.
IsSnapshot(s) ==
    /\ s.accepted # 0
    /\ \A c \in Counters : CounterComplete(s, c) => s.usage[c] \in Int

(* A counter is known where every usage that was added has it.              *)
LEMMA CounterFacts ==
    ASSUME NEW s, IsSnapshot(s), NEW c \in Counters, NEW kind \in Observed
    PROVE  LET m == SnapshotMeasurement(s, c, kind)
           IN  /\ Available(m) <=> CounterComplete(s, c)
               /\ Available(m) => m.value = s.usage[c] /\ m.value \in Int
<1> DEFINE m == SnapshotMeasurement(s, c, kind)
<1>1. CASE CounterComplete(s, c)
  <2>1. m = [kind |-> kind, has |-> TRUE, value |-> s.usage[c]]
    BY <1>1 DEF SnapshotMeasurement, Measured
  <2>2. m.kind = kind /\ m.has = TRUE /\ m.value = s.usage[c]
    BY <2>1
  <2>3. s.usage[c] \in Int
    BY <1>1 DEF IsSnapshot
  <2> HIDE DEF m
  <2>4. Available(m)
    BY <2>2 DEF Observed, Available
  <2> QED BY <1>1, <2>2, <2>3, <2>4 DEF m
<1>2. CASE ~ CounterComplete(s, c)
  <2>1. m = Unknown \/ m = NoMeasurement
    BY <1>2 DEF SnapshotMeasurement
  <2>2. ~ Available(Unknown) /\ ~ Available(NoMeasurement)
    BY DEF Unknown, NoMeasurement, Available
  <2> HIDE DEF m
  <2> QED BY <1>2, <2>1, <2>2 DEF m
<1> QED
  BY <1>1, <1>2

(* A snapshot's usage is known where every counter is complete.             *)
LEMMA ModelUsageFacts ==
    ASSUME NEW s, IsSnapshot(s), NEW kind \in Observed
    PROVE  LET u == ModelUsage(s, kind)
           IN  /\ \A m \in Parts(u) : Available(m) => m.value \in Int
               /\ AllKnown(u) <=> \A c \in Counters : CounterComplete(s, c)
               /\ AllKnown(u) => /\ u.input.value = s.usage["input"]
                                 /\ u.cacheRead.value = s.usage["cacheRead"]
                                 /\ u.cacheWrite.value = s.usage["cacheWrite"]
                                 /\ u.output.value = s.usage["output"]
<1> DEFINE m(c) == SnapshotMeasurement(s, c, kind)
<1> DEFINE u == ModelUsage(s, kind)
<1>1. /\ u.input = m("input") /\ u.cacheRead = m("cacheRead")
      /\ u.cacheWrite = m("cacheWrite") /\ u.output = m("output")
  <2>1. s.accepted # 0
    BY DEF IsSnapshot
  <2> HIDE DEF m
  <2> QED BY <2>1 DEF ModelUsage, m
<1>2. \A c \in Counters : /\ Available(m(c)) <=> CounterComplete(s, c)
                          /\ Available(m(c)) => m(c).value = s.usage[c] /\ m(c).value \in Int
  BY CounterFacts
<1>3. Counters = {"input", "cacheRead", "cacheWrite", "output"}
  BY DEF Counters
<1> HIDE DEF m, u
<1>4. Parts(u) = {m(c) : c \in Counters}
  BY <1>1, <1>3 DEF Parts
<1>5. AllKnown(u) <=> \A c \in Counters : CounterComplete(s, c)
  BY <1>2, <1>4 DEF AllKnown
<1>6. \A k \in Parts(u) : Available(k) => k.value \in Int
  BY <1>2, <1>4
<1>7. AllKnown(u) => \A c \in Counters : m(c).value = s.usage[c]
  BY <1>2, <1>4 DEF AllKnown
<1> QED
  BY <1>1, <1>3, <1>5, <1>6, <1>7 DEF u

(* Nothing is known of a conflict, and of nothing.                          *)
LEMMA NothingKnown ==
    ASSUME NEW u, (\E v : u = ConflictedUsage(v)) \/ (\E s, kind : s.accepted = 0 /\ u = ModelUsage(s, kind))
    PROVE  (\A m \in Parts(u) : ~ Available(m)) /\ ~ AllKnown(u)
<1>1. ~ Available(Unknown) /\ ~ Available(NoMeasurement)
  BY DEF Unknown, NoMeasurement, Available
<1>2. \A m \in Parts(u) : m \in {Unknown, NoMeasurement}
  <2>1. ASSUME NEW v, u = ConflictedUsage(v) PROVE \A m \in Parts(u) : m \in {Unknown, NoMeasurement}
    BY <2>1 DEF ConflictedUsage, Parts
  <2>2. ASSUME NEW s, NEW kind, s.accepted = 0, u = ModelUsage(s, kind)
        PROVE  \A m \in Parts(u) : m \in {Unknown, NoMeasurement}
    BY <2>2 DEF ModelUsage, Parts
  <2> QED BY <2>1, <2>2
<1> QED
  BY <1>1, <1>2 DEF AllKnown, Parts

\* A response's usage, and the sum over its counters.
IsUsage(u) == DOMAIN u \subseteq Counters /\ \A c \in DOMAIN u : u[c] \in Int

AllCounted(u) == \A c \in Counters : Counted(u, c)

(* The snapshot of one usage.                                               *)
LEMMA SnapshotOfOne ==
    ASSUME NEW u, IsUsage(u)
    PROVE  /\ IsSnapshot(Snapshot(u)) /\ Snapshot(u).usage = u
           /\ \A c \in Counters : CounterComplete(Snapshot(u), c) <=> Counted(u, c)
           /\ IsSnapshot(Accumulated(<<u>>))
           /\ Accumulated(<<u>>).usage = [c \in DOMAIN u |-> Added(u, c)]
           /\ \A c \in Counters : CounterComplete(Accumulated(<<u>>), c) <=> Counted(u, c)
<1> DEFINE us == <<u>>
<1> DEFINE a == Accumulated(us)
<1>1. DOMAIN us = {1} /\ us[1] = u
  OBVIOUS
<1> HIDE DEF us
<1>2. a = [usage |-> [c \in {c \in Counters : \E i \in DOMAIN us : Present(us[i], c)} |->
                        SumFunction([i \in DOMAIN us |-> Added(us[i], c)])],
           accepted |-> Cardinality(DOMAIN us),
           counts |-> [c \in Counters |-> Cardinality({i \in DOMAIN us : Counted(us[i], c)})]]
  BY DEF Accumulated
<1>3. a.accepted = 1
  <2>1. a.accepted = Cardinality({1})
    BY <1>1, <1>2
  <2> QED BY <2>1, FS_Singleton
<1>4. ASSUME NEW c \in Counters PROVE a.counts[c] = IF Counted(u, c) THEN 1 ELSE 0
  <2>1. a.counts[c] = Cardinality({i \in DOMAIN us : Counted(us[i], c)})
    BY <1>2
  <2>2. CASE Counted(u, c)
    <3>1. {i \in DOMAIN us : Counted(us[i], c)} = {1}
      BY <1>1, <2>2
    <3> QED BY <2>1, <2>2, <3>1, FS_Singleton
  <2>3. CASE ~ Counted(u, c)
    <3>1. {i \in DOMAIN us : Counted(us[i], c)} = {}
      BY <1>1, <2>3
    <3> QED BY <2>1, <2>3, <3>1, FS_EmptySet
  <2> QED BY <2>2, <2>3
<1>5. \A c : Added(u, c) \in Int
  BY DEF IsUsage, Added, Counted, Present
<1>6. ASSUME NEW c PROVE SumFunction([i \in DOMAIN us |-> Added(us[i], c)]) = Added(u, c)
  <2> DEFINE f == [i \in DOMAIN us |-> Added(us[i], c)]
  <2>1. DOMAIN f = {1} /\ f[1] = Added(u, c)
    BY <1>1
  <2> HIDE DEF f
  <2>2. SumFunction(f) = SumFunctionOnSet(f, {1})
    BY <2>1 DEF SumFunction
  <2>3. SumFunctionOnSet(f, {1}) = f[1]
    BY <1>5, <2>1, SmallSums
  <2> QED BY <2>1, <2>2, <2>3 DEF f
<1>7. {c \in Counters : \E i \in DOMAIN us : Present(us[i], c)} = DOMAIN u
  BY <1>1 DEF Present, IsUsage
<1>8. a.usage = [c \in DOMAIN u |-> Added(u, c)]
  <2>1. a.usage = [c \in DOMAIN u |-> SumFunction([i \in DOMAIN us |-> Added(us[i], c)])]
    BY <1>2, <1>7
  <2> HIDE DEF a
  <2> QED BY <1>6, <2>1
<1>9. /\ Snapshot(u).usage = u /\ Snapshot(u).accepted = a.accepted /\ Snapshot(u).counts = a.counts
  <2>1. DOMAIN a = {"usage", "accepted", "counts"}
    BY <1>2
  <2>2. Snapshot(u) = [a EXCEPT !.usage = u]
    BY DEF Snapshot, us
  <2> HIDE DEF a
  <2> QED BY <2>1, <2>2
<1> HIDE DEF a
<1>10. \A c \in Counters : /\ CounterComplete(a, c) <=> Counted(u, c)
                           /\ CounterComplete(Snapshot(u), c) <=> Counted(u, c)
  BY <1>3, <1>4, <1>9 DEF CounterComplete
<1>11. \A c : Counted(u, c) => c \in DOMAIN u /\ u[c] \in Int
  BY DEF Counted, Present, IsUsage
<1>12. IsSnapshot(a) /\ IsSnapshot(Snapshot(u))
  BY <1>3, <1>5, <1>8, <1>9, <1>10, <1>11 DEF IsSnapshot
<1> QED
  BY <1>8, <1>9, <1>10, <1>12 DEF a, us

(* The usages of the invocations are their lines'.                          *)
LEMMA InvocationUsages ==
    ASSUME ClaudeInv
    PROVE  /\ \A i \in DOMAIN claude.invocations : IsUsage(claude.invocations[i].usage)
           /\ IsFiniteSet(Accepted) /\ Accepted \subseteq DOMAIN claude.invocations
<1>1. Accepted \subseteq DOMAIN claude.invocations
  BY DEF Accepted
<1>2. IsFiniteSet(Accepted)
  <2>1. Len(claude.invocations) \in Nat /\ DOMAIN claude.invocations = 1..Len(claude.invocations)
    BY SequenceFacts DEF ClaudeInv, ClaudeType
  <2> QED BY <1>1, <2>1, FiniteNumbers
<1>3. ASSUME NEW i \in DOMAIN claude.invocations PROVE IsUsage(claude.invocations[i].usage)
  <2>1. PICK first : FirstLines(first, claudeRead, claude.invocations)
    BY DEF ClaudeInv
  <2>2. first[i] \in DOMAIN claudeRead
        /\ claudeRead[first[i]].usage = claude.invocations[i].usage
    BY <2>1 DEF FirstLines
  <2>3. claudeRead \in Seq(ClaudeLines)
    BY DEF ClaudeInv, ClaudeType
  <2>4. claudeRead[first[i]] \in ClaudeLines
    BY <2>2, <2>3, ElementOfSeq
  <2>5. IsUsage(claudeRead[first[i]].usage)
    BY <2>4, ClaudeAssumption DEF ClaudeLine, IsUsage
  <2> QED BY <2>2, <2>5
<1> QED
  BY <1>1, <1>2, <1>3

\* A counter of the accepted invocations.
Column(c) == [i \in Accepted |-> Added(claude.invocations[i].usage, c)]

(* What the session's snapshot counts and adds up.                          *)
LEMMA SessionFacts ==
    ASSUME ClaudeInv
    PROVE  /\ SessionSnapshot.accepted = Cardinality(Accepted)
           /\ IsUsage(SessionSnapshot.usage)
           /\ SessionSnapshot.usage = [c \in DOMAIN SessionSnapshot.usage |-> SessionSnapshot.usage[c]]
           /\ \A c : Numbers(Column(c), Accepted)
           /\ \A c \in DOMAIN SessionSnapshot.usage :
                SessionSnapshot.usage[c] = SumFunctionOnSet(Column(c), Accepted)
           /\ \A c \in Counters : CounterComplete(SessionSnapshot, c)
                <=> \A i \in Accepted : Counted(claude.invocations[i].usage, c)
           /\ Accepted # {} => \A c \in Counters : CounterComplete(SessionSnapshot, c)
                                  => Counted(SessionSnapshot.usage, c)
<1> DEFINE s == SessionSnapshot
<1> DEFINE us == [i \in Accepted |-> claude.invocations[i].usage]
<1>1. DOMAIN us = Accepted /\ \A i \in Accepted : us[i] = claude.invocations[i].usage
  OBVIOUS
<1>2. s = Accumulated(us)
  BY DEF SessionSnapshot
<1> HIDE DEF us
<1>3. s = [usage |-> [c \in {c \in Counters : \E i \in DOMAIN us : Present(us[i], c)} |->
                        SumFunction([i \in DOMAIN us |-> Added(us[i], c)])],
           accepted |-> Cardinality(DOMAIN us),
           counts |-> [c \in Counters |-> Cardinality({i \in DOMAIN us : Counted(us[i], c)})]]
  BY <1>2 DEF Accumulated
<1>4. DOMAIN s.usage = {c \in Counters : \E i \in DOMAIN us : Present(us[i], c)}
      /\ s.usage = [c \in DOMAIN s.usage |-> s.usage[c]]
  BY <1>3
<1>5. \A c \in Counters : s.counts[c] = Cardinality({i \in Accepted : Counted(us[i], c)})
  BY <1>1, <1>3
<1> HIDE DEF s
<1>6. IsFiniteSet(Accepted) /\ \A i \in Accepted : IsUsage(us[i])
  BY <1>1, InvocationUsages
<1>7. s.accepted = Cardinality(Accepted) /\ \A c \in DOMAIN s.usage :
         s.usage[c] = SumFunctionOnSet(Column(c), Accepted)
  BY SessionAdds DEF Column, s
<1>8. ASSUME NEW c
      PROVE  \A i \in Accepted : /\ Column(c)[i] \in Int /\ Column(c)[i] >= 0
                                 /\ Column(c)[i] = Added(us[i], c)
  <2> TAKE i \in Accepted
  <2>1. Column(c)[i] = Added(us[i], c)
    BY <1>1 DEF Column
  <2>2. Added(us[i], c) \in Int /\ Added(us[i], c) >= 0
    BY <1>6 DEF Added, Counted, Present, IsUsage
  <2> QED BY <2>1, <2>2
<1>9. \A c : Numbers(Column(c), Accepted)
  BY <1>8 DEF Numbers
<1>10. \A c : SumFunctionOnSet(Column(c), Accepted) \in Int
              /\ SumFunctionOnSet(Column(c), Accepted) >= 0
  BY <1>6, <1>8, <1>9, SumFacts, SumNotNegative
<1>11. IsUsage(s.usage)
  BY <1>4, <1>7, <1>10 DEF IsUsage
<1>12. ASSUME NEW c \in Counters
       PROVE  CounterComplete(s, c) <=> \A i \in Accepted : Counted(us[i], c)
  <2> DEFINE T == {i \in Accepted : Counted(us[i], c)}
  <2>1. T \in SUBSET Accepted /\ s.counts[c] = Cardinality(T)
    BY <1>5
  <2>2. T = Accepted <=> \A i \in Accepted : Counted(us[i], c)
    OBVIOUS
  <2> HIDE DEF T
  <2>3. Cardinality(T) = Cardinality(Accepted) <=> T = Accepted
    BY <1>6, <2>1, FS_Subset
  <2> QED BY <1>7, <2>1, <2>2, <2>3 DEF CounterComplete
<1>13. ASSUME NEW i \in Accepted, NEW c \in Counters, CounterComplete(s, c)
       PROVE  Counted(s.usage, c)
  <2>1. Counted(us[i], c)
    BY <1>12, <1>13
  <2>2. c \in DOMAIN s.usage
    BY <1>1, <1>4, <2>1 DEF Counted
  <2> QED BY <1>7, <1>10, <2>2 DEF Counted, Present
<1> QED
  BY <1>1, <1>4, <1>7, <1>9, <1>11, <1>12, <1>13 DEF s

(* Snapshots that agree where everything is complete make the same usage.    *)
LEMMA CompleteUsage ==
    ASSUME NEW s, NEW t, IsSnapshot(s), IsSnapshot(t), s.usage = t.usage, NEW kind,
           \A c \in Counters : CounterComplete(s, c) /\ CounterComplete(t, c)
    PROVE  ModelUsage(s, kind) = ModelUsage(t, kind)
<1>1. \A c \in Counters : SnapshotMeasurement(s, c, kind) = SnapshotMeasurement(t, c, kind)
  BY DEF SnapshotMeasurement
<1>2. \A cs \in SUBSET Counters : DerivedFrom(s, cs) = DerivedFrom(t, cs)
  BY DEF DerivedFrom
<1>3. /\ {"input", "cacheRead", "cacheWrite"} \in SUBSET Counters
      /\ {"cacheRead", "cacheWrite"} \in SUBSET Counters /\ Counters \in SUBSET Counters
      /\ "input" \in Counters /\ "output" \in Counters
      /\ "cacheRead" \in Counters /\ "cacheWrite" \in Counters
  BY DEF Counters
<1>4. s.accepted # 0 /\ t.accepted # 0
  BY DEF IsSnapshot
<1> QED
  BY <1>1, <1>2, <1>3, <1>4 DEF ModelUsage

(* A session of which all is known is what the source says was used.        *)
LEMMA SourceAgrees ==
    ASSUME ClaudeInv, Accepted # {}, HasReportedUsage(SessionSnapshot),
           \A c \in Counters : CounterComplete(SessionSnapshot, c)
    PROVE  ClaudeSourceUsage = ModelUsage(SessionSnapshot, "derived")
<1> DEFINE w == SessionSnapshot.usage
<1> DEFINE a == Accumulated(<<w>>)
<1>1. IsUsage(w) /\ w = [c \in DOMAIN w |-> w[c]] /\ \A c \in Counters : Counted(w, c)
  BY SessionFacts
<1>2. ClaudeSourceUsage = ModelUsage(a, "derived")
  BY DEF ClaudeSourceUsage
<1> HIDE DEF w
<1>3. /\ IsSnapshot(a) /\ a.usage = [c \in DOMAIN w |-> Added(w, c)]
      /\ \A c \in Counters : CounterComplete(a, c)
  BY <1>1, SnapshotOfOne
<1> HIDE DEF a
<1>4. \A c \in DOMAIN w : Added(w, c) = w[c]
  BY <1>1 DEF IsUsage, Added
<1>5. a.usage = w
  <2>1. [c \in DOMAIN w |-> Added(w, c)] = [c \in DOMAIN w |-> w[c]]
    BY <1>4
  <2> QED BY <1>1, <1>3, <2>1
<1>6. IsSnapshot(SessionSnapshot)
  <2>1. \A c \in Counters : w[c] \in Int
    BY <1>1 DEF IsUsage, Counted, Present
  <2>2. SessionSnapshot.accepted # 0
    BY SessionFacts, InvocationUsages, FS_EmptySet
  <2> QED BY <2>1, <2>2 DEF IsSnapshot, w
<1>7. ModelUsage(SessionSnapshot, "derived") = ModelUsage(a, "derived")
  BY <1>3, <1>5, <1>6, CompleteUsage DEF w
<1> QED
  BY <1>2, <1>7

-----------------------------------------------------------------------------
(* A session agrees with its turns. *)

\* The turn of the i-th invocation, as it is observed.
TurnObserved(i) ==
    LET t == ClaudeTurns[i]
    IN  ClaudeObservation(t.id, t.at, IF t.model = "" THEN SelectedModel ELSE t.model,
                          ClaudeObservationUsage(t.usage, "measured"))

SessionObserved ==
    ClaudeObservation(<<"session">>, claude.started, SelectedModel,
                      ClaudeObservationUsage(ModelUsage(SessionSnapshot, "derived"), "derived"))

(* The observations are the session's and then the turns'.                  *)
LEMMA ClaudeObserved ==
    ASSUME ClaudeInv, NEW m \in DOMAIN ClaudeSessions
    PROVE  LET obs == ClaudeObservations(ClaudeSessions[m])
               n == Len(claude.invocations)
           IN  /\ n \in Nat /\ DOMAIN claude.invocations = 1..n /\ Len(obs) = 1 + n
               /\ DOMAIN obs = 1..(1 + n)
               /\ obs[1] = SessionObserved
               /\ \A i \in 1..n : obs[1 + i] = TurnObserved(i)
               /\ HasReportedUsage(SessionSnapshot)
               /\ ClaudeSessions[m].usage = ModelUsage(SessionSnapshot, "derived")
<1> DEFINE n == Len(claude.invocations)
<1> DEFINE s == ClaudeSessions[m]
<1>1. n \in Nat /\ DOMAIN claude.invocations = 1..n
  BY SequenceFacts DEF ClaudeInv, ClaudeType
<1> HIDE DEF n
<1>2. HasReportedUsage(SessionSnapshot) /\ m = 1
  <2>1. DOMAIN <<>> = {}
    OBVIOUS
  <2>2. HasReportedUsage(SessionSnapshot)
    BY <2>1 DEF ClaudeSessions
  <2> QED BY <2>2 DEF ClaudeSessions
<1>3. /\ s.turns = ClaudeTurns /\ s.model = SelectedModel /\ s.started = claude.started
      /\ s.usage = ModelUsage(SessionSnapshot, "derived")
  BY <1>2 DEF ClaudeSessions
<1> HIDE DEF s
<1>4. DOMAIN ClaudeTurns = 1..n
  BY <1>1 DEF ClaudeTurns
<1> DEFINE turn == [i \in 1..n |-> TurnObserved(i)]
<1>5. ClaudeObservations(s) = <<SessionObserved>> \o turn
  <2>1. ClaudeObservations(s) =
          <<ClaudeObservation(<<"session">>, s.started, s.model, ClaudeObservationUsage(s.usage, "derived"))>>
          \o [i \in DOMAIN s.turns |->
                ClaudeObservation(s.turns[i].id, s.turns[i].at,
                                  IF s.turns[i].model = "" THEN s.model ELSE s.turns[i].model,
                                  ClaudeObservationUsage(s.turns[i].usage, "measured"))]
    BY DEF ClaudeObservations
  <2> QED BY <1>3, <1>4, <2>1 DEF TurnObserved, SessionObserved
<1> DEFINE whole == <<SessionObserved>>
<1> DEFINE o == SessionObserved
<1>6. DOMAIN turn = 1..n /\ turn = [i \in 1..n |-> turn[i]] /\ \A i \in 1..n : turn[i] = TurnObserved(i)
  OBVIOUS
<1>7. IsSequence(turn) /\ Len(turn) = n
  <2> HIDE DEF turn
  <2> QED BY <1>1, <1>6, MappingIsSequence
<1>8. IsSequence(whole) /\ Len(whole) = 1 /\ whole[1] = o
  <2> HIDE DEF o
  <2>1. <<o>> \in Seq({o}) /\ Len(<<o>>) = 1 /\ <<o>>[1] = o
    OBVIOUS
  <2> QED BY <2>1 DEF IsSequence, o
<1> HIDE DEF turn, whole, o
<1> DEFINE obs == whole \o turn
<1>9. /\ IsSequence(obs) /\ Len(obs) = 1 + n /\ obs[1] = whole[1]
      /\ \A i \in 1..n : obs[1 + i] = turn[i]
  <2>1. /\ IsSequence(obs) /\ Len(obs) = Len(whole) + Len(turn)
        /\ \A i \in 1..Len(whole) : obs[i] = whole[i]
        /\ \A i \in 1..Len(turn) : obs[Len(whole) + i] = turn[i]
    <3>1. IsSequence(whole) /\ IsSequence(turn)
      BY <1>7, <1>8
    <3> QED BY <3>1, JoinedSequence
  <2>2. 1 \in 1..Len(whole)
    BY <1>8
  <2> HIDE DEF obs
  <2> QED BY <1>7, <1>8, <2>1, <2>2
<1>10. DOMAIN obs = 1..(1 + n)
  BY <1>9, SequenceFacts
<1>11. obs[1] = o
  BY <1>8, <1>9
<1> HIDE DEF obs
<1>12. ClaudeObservations(s) = obs
  BY <1>5 DEF obs, whole
<1> QED
  BY <1>1, <1>2, <1>3, <1>6, <1>9, <1>10, <1>11, <1>12 DEF o, n, s

\* The sum over the counters of a usage, for the i-th invocation.
Whole(i) ==
    LET u == claude.invocations[i].usage
    IN  u["input"] + u["cacheRead"] + u["cacheWrite"] + u["output"]

Complete(i) == i \in Accepted /\ AllCounted(claude.invocations[i].usage)

(* What is observed of a turn.                                              *)
LEMMA TurnFacts ==
    ASSUME ClaudeInv, NEW i \in DOMAIN claude.invocations
    PROVE  LET o == TurnObserved(i)
               inv == claude.invocations[i]
           IN  /\ ValidObservation(o)
               /\ o.id = IF inv.id = "" THEN <<"turn", i>> ELSE <<"message", inv.id>>
               /\ o.completeness = "complete" <=> Complete(i)
               /\ Complete(i) => o.usage["total"].value = Whole(i)
<1> DEFINE inv == claude.invocations[i]
<1> DEFINE u == inv.usage
<1> DEFINE t == ClaudeTurns[i]
<1>1. /\ t.id = IF inv.id = "" THEN <<"turn", i>> ELSE <<"message", inv.id>>
      /\ t.usage = IF inv.conflict THEN ConflictedUsage(u) ELSE ModelUsage(Snapshot(u), "measured")
  BY DEF ClaudeTurns
<1>2. inv.conflict \in BOOLEAN /\ (i \in Accepted <=> ~ inv.conflict)
  BY DEF ClaudeInv, ClaudeType, Accepted
<1>3. IsUsage(u)
  BY InvocationUsages
<1> HIDE DEF t, inv
<1>4. "measured" \in Observed
  BY DEF Observed
<1>5. /\ \A m \in Parts(t.usage) : Available(m) => m.value \in Int
      /\ AllKnown(t.usage) <=> (~ inv.conflict /\ AllCounted(u))
      /\ AllKnown(t.usage) => /\ t.usage.input.value = u["input"]
                              /\ t.usage.cacheRead.value = u["cacheRead"]
                              /\ t.usage.cacheWrite.value = u["cacheWrite"]
                              /\ t.usage.output.value = u["output"]
  <2>1. CASE inv.conflict
    <3>1. t.usage = ConflictedUsage(u)
      BY <1>1, <2>1
    <3>2. (\A m \in Parts(t.usage) : ~ Available(m)) /\ ~ AllKnown(t.usage)
      BY <3>1, NothingKnown
    <3> QED BY <2>1, <3>2
  <2>2. CASE ~ inv.conflict
    <3>1. t.usage = ModelUsage(Snapshot(u), "measured")
      BY <1>1, <2>2
    <3>2. /\ IsSnapshot(Snapshot(u)) /\ Snapshot(u).usage = u
          /\ \A c \in Counters : CounterComplete(Snapshot(u), c) <=> Counted(u, c)
      BY <1>3, SnapshotOfOne
    <3> DEFINE s == Snapshot(u)
    <3> HIDE DEF u
    <3>3. /\ \A m \in Parts(ModelUsage(s, "measured")) : Available(m) => m.value \in Int
          /\ AllKnown(ModelUsage(s, "measured")) <=> \A c \in Counters : CounterComplete(s, c)
          /\ AllKnown(ModelUsage(s, "measured")) =>
               /\ ModelUsage(s, "measured").input.value = s.usage["input"]
               /\ ModelUsage(s, "measured").cacheRead.value = s.usage["cacheRead"]
               /\ ModelUsage(s, "measured").cacheWrite.value = s.usage["cacheWrite"]
               /\ ModelUsage(s, "measured").output.value = s.usage["output"]
      BY <1>4, <3>2, ModelUsageFacts
    <3> QED BY <2>2, <3>1, <3>2, <3>3 DEF AllCounted
  <2> QED BY <1>2, <2>1, <2>2
<1>6. Complete(i) <=> (~ inv.conflict /\ AllCounted(u))
  BY <1>2 DEF Complete, inv
<1> DEFINE model == IF t.model = "" THEN SelectedModel ELSE t.model
<1> DEFINE o == ClaudeObservation(t.id, t.at, model, ClaudeObservationUsage(t.usage, "measured"))
<1>7. TurnObserved(i) = o
  BY DEF TurnObserved, t
<1> HIDE DEF model
<1>8. /\ ValidObservation(o) /\ o.id = t.id
      /\ o.completeness = "complete" <=> AllKnown(t.usage)
      /\ AllKnown(t.usage) =>
           o.usage["total"].value = t.usage.input.value + t.usage.cacheRead.value
                                      + t.usage.cacheWrite.value + t.usage.output.value
  BY <1>4, <1>5, ClaudeObservationFacts
<1>9. Whole(i) = u["input"] + u["cacheRead"] + u["cacheWrite"] + u["output"]
  BY DEF Whole, inv
<1> HIDE DEF o, u
<1>10. Complete(i) => o.usage["total"].value = Whole(i)
  BY <1>5, <1>6, <1>8, <1>9
<1> QED
  BY <1>1, <1>5, <1>6, <1>7, <1>8, <1>10 DEF inv

(* The sum over the turns is the sum over the counters.                     *)
LEMMA WholesAddUp ==
    ASSUME ClaudeInv, \A i \in Accepted : Complete(i)
    PROVE  LET sum(c) == SumFunctionOnSet(Column(c), Accepted)
               wholes == [i \in Accepted |-> Whole(i)]
           IN  /\ Numbers(wholes, Accepted)
               /\ SumFunctionOnSet(wholes, Accepted)
                    = sum("input") + sum("cacheRead") + sum("cacheWrite") + sum("output")
<1> DEFINE sum(c) == SumFunctionOnSet(Column(c), Accepted)
<1> DEFINE two == [i \in Accepted |-> Column("input")[i] + Column("cacheRead")[i]]
<1> DEFINE three == [i \in Accepted |-> two[i] + Column("cacheWrite")[i]]
<1> DEFINE wholes == [i \in Accepted |-> Whole(i)]
<1>1. IsFiniteSet(Accepted) /\ \A c : Numbers(Column(c), Accepted)
  BY InvocationUsages, SessionFacts
<1>2. \A i \in Accepted : two[i] = Column("input")[i] + Column("cacheRead")[i]
  OBVIOUS
<1>3. \A i \in Accepted : three[i] = two[i] + Column("cacheWrite")[i]
  OBVIOUS
<1>4. \A i \in Accepted : wholes[i] = three[i] + Column("output")[i]
  <2> TAKE i \in Accepted
  <2> DEFINE u == claude.invocations[i].usage
  <2>1. \A c \in Counters : Counted(u, c)
    BY DEF Complete, AllCounted
  <2>2. \A c \in Counters : Column(c)[i] = u[c]
    <3>1. \A c : Column(c)[i] = Added(u, c)
      BY DEF Column
    <3> HIDE DEF u
    <3> QED BY <2>1, <3>1 DEF Added
  <2>3. /\ "input" \in Counters /\ "cacheRead" \in Counters
        /\ "cacheWrite" \in Counters /\ "output" \in Counters
    BY DEF Counters
  <2>4. wholes[i] = u["input"] + u["cacheRead"] + u["cacheWrite"] + u["output"]
    BY DEF Whole
  <2> HIDE DEF u, wholes, two, three
  <2> QED BY <1>2, <1>3, <2>2, <2>3, <2>4
<1> HIDE DEF two, three, wholes
<1>5. Numbers(two, Accepted)
  BY <1>1, <1>2 DEF Numbers
<1>6. Numbers(three, Accepted)
  BY <1>1, <1>3, <1>5 DEF Numbers
<1>7. Numbers(wholes, Accepted)
  BY <1>1, <1>4, <1>6 DEF Numbers
<1>8. SumFunctionOnSet(two, Accepted) = sum("input") + sum("cacheRead")
  BY <1>1, <1>2, SumOfSums
<1>9. SumFunctionOnSet(three, Accepted) = SumFunctionOnSet(two, Accepted) + sum("cacheWrite")
  BY <1>1, <1>3, <1>5, SumOfSums
<1>10. SumFunctionOnSet(wholes, Accepted) = SumFunctionOnSet(three, Accepted) + sum("output")
  BY <1>1, <1>4, <1>6, SumOfSums
<1> QED
  BY <1>7, <1>8, <1>9, <1>10 DEF wholes

(* What is observed of the session.                                         *)
LEMMA SessionObservedFacts ==
    ASSUME ClaudeInv
    PROVE  LET o == SessionObserved
               all == Accepted # {} /\ \A i \in Accepted : Complete(i)
               wholes == [i \in Accepted |-> Whole(i)]
           IN  /\ ValidObservation(o) /\ o.id = <<"session">>
               /\ o.completeness = "complete" <=> all
               /\ KnownTotal(o) <=> all
               /\ all => /\ \A c \in Counters : CounterComplete(SessionSnapshot, c)
                         /\ o.usage["total"].value = SumFunctionOnSet(wholes, Accepted)
<1> DEFINE s == SessionSnapshot
<1> DEFINE u == ModelUsage(s, "derived")
<1> DEFINE all == Accepted # {} /\ \A i \in Accepted : Complete(i)
<1> DEFINE wholes == [i \in Accepted |-> Whole(i)]
<1> DEFINE o == SessionObserved
<1>1. "derived" \in Observed
  BY DEF Observed
<1>2. all <=> Accepted # {} /\ \A c \in Counters : CounterComplete(s, c)
  <2>1. \A c \in Counters : CounterComplete(s, c)
                              <=> \A i \in Accepted : Counted(claude.invocations[i].usage, c)
    BY SessionFacts
  <2> HIDE DEF s
  <2> QED BY <2>1 DEF Complete, AllCounted
<1>3. /\ \A m \in Parts(u) : Available(m) => m.value \in Int
      /\ AllKnown(u) <=> all
      /\ AllKnown(u) => /\ u.input.value = s.usage["input"]
                        /\ u.cacheRead.value = s.usage["cacheRead"]
                        /\ u.cacheWrite.value = s.usage["cacheWrite"]
                        /\ u.output.value = s.usage["output"]
  <2>1. CASE Accepted = {}
    <3>1. s.accepted = 0
      BY <2>1, SessionFacts, FS_EmptySet
    <3> HIDE DEF s
    <3>2. (\A m \in Parts(u) : ~ Available(m)) /\ ~ AllKnown(u)
      BY <3>1, NothingKnown
    <3> QED BY <2>1, <3>2
  <2>2. CASE Accepted # {}
    <3>1. IsSnapshot(s)
      <4>1. s.accepted # 0
        BY <2>2, SessionFacts, InvocationUsages, FS_EmptySet
      <4>2. IsUsage(s.usage) /\ \A c \in Counters : CounterComplete(s, c) => Counted(s.usage, c)
        BY <2>2, SessionFacts
      <4>3. \A c : Counted(s.usage, c) => s.usage[c] \in Int
        BY <4>2 DEF Counted, Present, IsUsage
      <4> HIDE DEF s
      <4> QED BY <4>1, <4>2, <4>3 DEF IsSnapshot
    <3> HIDE DEF s
    <3>2. /\ \A m \in Parts(u) : Available(m) => m.value \in Int
          /\ AllKnown(u) <=> \A c \in Counters : CounterComplete(s, c)
          /\ AllKnown(u) => /\ u.input.value = s.usage["input"]
                            /\ u.cacheRead.value = s.usage["cacheRead"]
                            /\ u.cacheWrite.value = s.usage["cacheWrite"]
                            /\ u.output.value = s.usage["output"]
      BY <1>1, <3>1, ModelUsageFacts
    <3> HIDE DEF u, all
    <3>3. all <=> \A c \in Counters : CounterComplete(s, c)
      BY <1>2, <2>2
    <3> QED BY <3>2, <3>3
  <2> QED BY <2>1, <2>2
<1>4. o = ClaudeObservation(<<"session">>, claude.started, SelectedModel,
                            ClaudeObservationUsage(u, "derived"))
  BY DEF SessionObserved
<1> HIDE DEF u, o, all, wholes
<1>5. /\ ValidObservation(o) /\ o.id = <<"session">>
      /\ o.completeness = "complete" <=> AllKnown(u)
      /\ KnownTotal(o) <=> AllKnown(u)
      /\ AllKnown(u) => o.usage["total"].value = u.input.value + u.cacheRead.value
                                                   + u.cacheWrite.value + u.output.value
  BY <1>1, <1>3, <1>4, ClaudeObservationFacts
<1>6. ASSUME all PROVE o.usage["total"].value = SumFunctionOnSet(wholes, Accepted)
  <2>1. \A c \in Counters : s.usage[c] = SumFunctionOnSet(Column(c), Accepted)
    <3>1. Accepted # {} /\ \A c \in Counters : CounterComplete(s, c)
      BY <1>2, <1>6
    <3>2. \A c \in Counters : Counted(s.usage, c)
      BY <3>1, SessionFacts
    <3>3. \A c \in DOMAIN s.usage : s.usage[c] = SumFunctionOnSet(Column(c), Accepted)
      BY SessionFacts
    <3> HIDE DEF s
    <3> QED BY <3>2, <3>3 DEF Counted, Present
  <2>2. SumFunctionOnSet(wholes, Accepted)
          = SumFunctionOnSet(Column("input"), Accepted) + SumFunctionOnSet(Column("cacheRead"), Accepted)
            + SumFunctionOnSet(Column("cacheWrite"), Accepted) + SumFunctionOnSet(Column("output"), Accepted)
    BY <1>6, WholesAddUp DEF all, wholes
  <2>3. /\ "input" \in Counters /\ "cacheRead" \in Counters
        /\ "cacheWrite" \in Counters /\ "output" \in Counters
    BY DEF Counters
  <2> HIDE DEF s
  <2> QED BY <1>3, <1>5, <1>6, <2>1, <2>2, <2>3
<1> QED
  BY <1>2, <1>3, <1>5, <1>6 DEF o, all, wholes, s

(* The names of the turns are their own.                                    *)
LEMMA TurnNames ==
    ASSUME ClaudeInv, NEW i \in DOMAIN claude.invocations, NEW k \in DOMAIN claude.invocations,
           TurnObserved(i).id = TurnObserved(k).id
    PROVE  i = k
<1> DEFINE a == claude.invocations[i].id
<1> DEFINE b == claude.invocations[k].id
<1>1. /\ TurnObserved(i).id = IF a = "" THEN <<"turn", i>> ELSE <<"message", a>>
      /\ TurnObserved(k).id = IF b = "" THEN <<"turn", k>> ELSE <<"message", b>>
  BY TurnFacts
<1>2. a # "" /\ a = b => i = k
  BY DEF ClaudeInv, FirstLines, Named
<1> HIDE DEF a, b
<1>3. <<"turn", i>> = <<"turn", k>> => i = k
  OBVIOUS
<1>4. <<"message", a>> = <<"message", b>> => a = b
  OBVIOUS
<1>5. <<"turn", i>> # <<"message", b>> /\ <<"turn", k>> # <<"message", a>>
  OBVIOUS
<1> QED
  BY <1>1, <1>2, <1>3, <1>4, <1>5

(* A session agrees with its turns and with what the source says was used.   *)
THEOREM ClaudeSessionsAgree == ClaudeSpec => []ClaudeSessionAgreesWithTurns
<1>1. ClaudeInv => ClaudeSessionAgreesWithTurns
  <2> SUFFICES ASSUME ClaudeInv, NEW m \in DOMAIN ClaudeSessions
               PROVE  LET obs == ClaudeObservations(ClaudeSessions[m])
                          turns == 2..Len(obs)
                          fine == {i \in turns : i - 1 \in Accepted}
                      IN  /\ \A i \in DOMAIN obs : ValidObservation(obs[i])
                          /\ \A i, j \in DOMAIN obs : i # j => obs[i].id # obs[j].id
                          /\ \A i \in turns \ fine : obs[i].completeness # "complete"
                          /\ (obs[1].completeness = "complete") <=>
                                  (fine # {} /\ \A i \in fine : obs[i].completeness = "complete")
                          /\ KnownTotal(obs[1]) =>
                                  obs[1].usage["total"].value =
                                      SumFunction([i \in fine |-> obs[i].usage["total"].value])
                          /\ KnownTotal(obs[1]) => ClaudeSourceUsage = ClaudeSessions[m].usage
    BY DEF ClaudeSessionAgreesWithTurns
  <2> DEFINE obs == ClaudeObservations(ClaudeSessions[m])
  <2> DEFINE n == Len(claude.invocations)
  <2> DEFINE turns == 2..Len(obs)
  <2> DEFINE fine == {i \in turns : i - 1 \in Accepted}
  <2> DEFINE all == Accepted # {} /\ \A i \in Accepted : Complete(i)
  <2> DEFINE wholes == [i \in Accepted |-> Whole(i)]
  <2>1. /\ n \in Nat /\ DOMAIN claude.invocations = 1..n /\ Len(obs) = 1 + n
        /\ DOMAIN obs = 1..(1 + n) /\ obs[1] = SessionObserved
        /\ \A i \in 1..n : obs[1 + i] = TurnObserved(i)
        /\ HasReportedUsage(SessionSnapshot)
        /\ ClaudeSessions[m].usage = ModelUsage(SessionSnapshot, "derived")
    BY ClaudeObserved
  <2> HIDE DEF obs, n
  <2>2. Accepted \subseteq 1..n /\ IsFiniteSet(Accepted)
    BY <2>1, InvocationUsages
  <2>3. \A i \in 1..(1 + n) : i = 1 \/ \E k \in 1..n : i = 1 + k
    <3> TAKE i \in 1..(1 + n)
    <3>1. i # 1 => i - 1 \in 1..n /\ i = 1 + (i - 1)
      BY <2>1
    <3> QED BY <3>1
  <2>4. \A k \in 1..n : 1 + k \in turns /\ (1 + k) - 1 = k /\ (1 + k \in fine <=> k \in Accepted)
    BY <2>1
  <2>5. \A i \in turns : \E k \in 1..n : i = 1 + k
    <3> TAKE i \in turns
    <3>1. i - 1 \in 1..n /\ i = 1 + (i - 1)
      BY <2>1
    <3> QED BY <3>1
  <2>6. fine \subseteq turns
    OBVIOUS
  <2> HIDE DEF turns, fine
  <2>7. fine = {1 + k : k \in Accepted}
    BY <2>2, <2>4, <2>5, <2>6
  <2>8. \A k \in 1..n : /\ ValidObservation(obs[1 + k])
                        /\ obs[1 + k].completeness = "complete" <=> Complete(k)
                        /\ Complete(k) => obs[1 + k].usage["total"].value = Whole(k)
                        /\ obs[1 + k].id # <<"session">>
    <3> TAKE k \in 1..n
    <3> DEFINE o == TurnObserved(k)
    <3>1. /\ ValidObservation(o)
          /\ o.id = IF claude.invocations[k].id = "" THEN <<"turn", k>>
                    ELSE <<"message", claude.invocations[k].id>>
          /\ o.completeness = "complete" <=> Complete(k)
          /\ Complete(k) => o.usage["total"].value = Whole(k)
      BY <2>1, TurnFacts
    <3> HIDE DEF o
    <3>2. o.id # <<"session">>
      <4>1. \A a, b : <<a, b>> # <<"session">>
        OBVIOUS
      <4> QED BY <3>1, <4>1
    <3>3. obs[1 + k] = o
      BY <2>1 DEF o
    <3> QED BY <3>1, <3>2, <3>3
  <2>9. /\ ValidObservation(obs[1]) /\ obs[1].id = <<"session">>
        /\ obs[1].completeness = "complete" <=> all
        /\ KnownTotal(obs[1]) <=> all
        /\ all => /\ \A c \in Counters : CounterComplete(SessionSnapshot, c)
                  /\ obs[1].usage["total"].value = SumFunctionOnSet(wholes, Accepted)
    BY <2>1, SessionObservedFacts
  <2> HIDE DEF wholes
  <2>10. \A i \in DOMAIN obs : ValidObservation(obs[i])
    BY <2>1, <2>3, <2>8, <2>9
  <2>11. ASSUME NEW i \in DOMAIN obs, NEW j \in DOMAIN obs, obs[i].id = obs[j].id PROVE i = j
    <3>1. CASE i = 1 \/ j = 1
      <4>1. \A x \in DOMAIN obs : x = 1 \/ obs[x].id # <<"session">>
        BY <2>1, <2>3, <2>8
      <4>2. obs[i].id = <<"session">> /\ obs[j].id = <<"session">>
        BY <2>9, <2>11, <3>1
      <4> QED BY <4>1, <4>2
    <3>2. CASE i # 1 /\ j # 1
      <4>1. PICK k \in 1..n : i = 1 + k
        BY <2>1, <2>3, <3>2
      <4>2. PICK q \in 1..n : j = 1 + q
        BY <2>1, <2>3, <3>2
      <4>3. TurnObserved(k).id = TurnObserved(q).id
        BY <2>1, <2>11, <4>1, <4>2
      <4>4. k = q
        BY <2>1, <4>3, TurnNames
      <4> QED BY <4>1, <4>2, <4>4
    <3> QED BY <3>1, <3>2
  <2>12. ASSUME NEW i \in turns \ fine PROVE obs[i].completeness # "complete"
    <3>1. PICK k \in 1..n : i = 1 + k
      BY <2>5
    <3>2. k \notin Accepted
      BY <2>4, <2>12, <3>1
    <3> QED BY <2>8, <3>1, <3>2 DEF Complete
  <2>13. all <=> (fine # {} /\ \A i \in fine : obs[i].completeness = "complete")
    <3>1. \A k \in Accepted : 1 + k \in fine /\ (obs[1 + k].completeness = "complete" <=> Complete(k))
      BY <2>2, <2>4, <2>8
    <3>2. \A i \in fine : \E k \in Accepted : i = 1 + k
      BY <2>7
    <3> QED BY <3>1, <3>2
  <2>14. ASSUME all
         PROVE  SumFunctionOnSet(wholes, Accepted) = SumFunction([i \in fine |-> obs[i].usage["total"].value])
    <3> DEFINE w == [i \in fine |-> obs[i].usage["total"].value]
    <3> DEFINE f == [k \in Accepted |-> 1 + k]
    <3>1. fine = {f[k] : k \in Accepted} /\ \A k, q \in Accepted : f[k] = f[q] => k = q
      <4>1. \A k \in Accepted : f[k] = 1 + k /\ k \in Int
        BY <2>2
      <4> HIDE DEF f
      <4>2. \A k, q \in Accepted : f[k] = f[q] => k = q
        BY <4>1
      <4>3. fine = {f[k] : k \in Accepted}
        BY <2>7, <4>1
      <4> QED BY <4>2, <4>3
    <3>2. \A k \in Accepted : wholes[k] = w[f[k]] /\ w[f[k]] \in Int
      <4> TAKE k \in Accepted
      <4>1. f[k] = 1 + k /\ 1 + k \in fine /\ k \in 1..n /\ Complete(k)
        BY <2>2, <2>4, <2>14
      <4>2. w[1 + k] = Whole(k)
        BY <2>8, <4>1
      <4>3. wholes[k] = Whole(k)
        BY DEF wholes
      <4>4. Numbers(wholes, Accepted)
        BY <2>14, WholesAddUp DEF wholes
      <4> HIDE DEF w, f
      <4> QED BY <4>1, <4>2, <4>3, <4>4 DEF Numbers
    <3>3. DOMAIN w = fine
      OBVIOUS
    <3> HIDE DEF w, f
    <3>4. Numbers(w, fine)
      BY <3>1, <3>2 DEF Numbers
    <3>5. SumFunctionOnSet(wholes, Accepted) = SumFunctionOnSet(w, fine)
      <4>1. Carries(f, wholes, Accepted, w, fine)
        BY <3>1, <3>2 DEF Carries
      <4> QED BY <2>2, <3>4, <4>1, SumOfImage
    <3>6. SumFunction(w) = SumFunctionOnSet(w, fine)
      BY <3>3 DEF SumFunction
    <3> QED BY <3>5, <3>6 DEF w
  <2>15. all => ClaudeSourceUsage = ClaudeSessions[m].usage
    BY <2>1, <2>9, SourceAgrees
  <2> HIDE DEF all
  <2>16. /\ KnownTotal(obs[1]) => obs[1].usage["total"].value =
                                    SumFunction([i \in fine |-> obs[i].usage["total"].value])
         /\ KnownTotal(obs[1]) => ClaudeSourceUsage = ClaudeSessions[m].usage
         /\ (obs[1].completeness = "complete") <=>
                (fine # {} /\ \A i \in fine : obs[i].completeness = "complete")
    BY <2>9, <2>13, <2>14, <2>15
  <2> QED BY <2>10, <2>11, <2>12, <2>16 DEF obs, turns, fine
<1> QED
  BY <1>1, ClaudeInvHolds, PTL
===============================================================================
