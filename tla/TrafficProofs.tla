----------------------------- MODULE TrafficProofs -----------------------------
(***************************************************************************)
(* Proofs about RecordedTraffic, for all mixes of conversations and what   *)
(* answers they get: what a report makes of the usage of the calls that    *)
(* were recorded, and that the chains of these calls agree with it.         *)
(***************************************************************************)
EXTENDS RecordedTraffic, InductionLemmas

LEMMA OverlayFacts ==
    ASSUME NEW new, NEW old
    PROVE  /\ DOMAIN Overlay(new, old) = DOMAIN new \cup DOMAIN old
           /\ \A c \in DOMAIN new : Overlay(new, old)[c] = new[c]
           /\ \A c \in DOMAIN old : c \notin DOMAIN new => Overlay(new, old)[c] = old[c]
BY DEF Overlay

-----------------------------------------------------------------------------
(* Streams. *)

(* Some counts, with their numbers.                                         *)
Numbered == UNION {[A -> Int] : A \in SUBSET AllCounts}

LEMMA NumberedFacts ==
    \A u : u \in Numbered <=> /\ u = [c \in DOMAIN u |-> u[c]] /\ DOMAIN u \subseteq AllCounts
                              /\ \A c \in DOMAIN u : u[c] \in Int
<1> TAKE u
<1>1. ASSUME u \in Numbered
      PROVE  /\ u = [c \in DOMAIN u |-> u[c]] /\ DOMAIN u \subseteq AllCounts
             /\ \A c \in DOMAIN u : u[c] \in Int
  BY <1>1 DEF Numbered
<1>2. ASSUME u = [c \in DOMAIN u |-> u[c]], DOMAIN u \subseteq AllCounts, \A c \in DOMAIN u : u[c] \in Int
      PROVE  u \in Numbered
  <2>1. u \in [DOMAIN u -> Int]
    BY <1>2
  <2> QED BY <1>2, <2>1 DEF Numbered
<1> QED BY <1>1, <1>2

Reads(protocol, stream, frame) ==
    IF protocol = "anthropic_messages" THEN ParseAnthropicFrame(stream, frame)
    ELSE ParseOpenAIFrame(stream, frame)

(* The states of a stream that is read from these frames.                   *)
Streams(frames) ==
    [snapshot : Numbered, usage : [source : Protocols \cup {""}, counts : Numbered],
     terminal : BOOLEAN, object : {""} \cup {frames[i].id : i \in DOMAIN frames}]

LEMMA UsageIsNumbered ==
    ASSUME NEW p, NEW old \in Numbered, NEW u, UsageOf(p, u)
    PROVE  Overlay(u, old) \in Numbered
<1>1. CountsOf(p) \subseteq AllCounts
  BY DEF CountsOf, AllCounts
<1> DEFINE new == Overlay(u, old)
<1>2. /\ DOMAIN new \subseteq AllCounts /\ \A c \in DOMAIN new : new[c] \in Int
  <2>1. DOMAIN old \subseteq AllCounts /\ \A c \in DOMAIN old : old[c] \in Int
    BY NumberedFacts
  <2>2. DOMAIN u \subseteq AllCounts /\ \A c \in DOMAIN u : u[c] \in Int
    BY <1>1 DEF UsageOf
  <2>3. /\ DOMAIN new = DOMAIN u \cup DOMAIN old
        /\ \A c \in DOMAIN u : new[c] = u[c]
        /\ \A c \in DOMAIN old : c \notin DOMAIN u => new[c] = old[c]
    BY OverlayFacts
  <2> HIDE DEF new
  <2> QED BY <2>1, <2>2, <2>3
<1>3. new = [c \in DOMAIN new |-> new[c]]
  BY DEF Overlay
<1> HIDE DEF new
<1> QED BY <1>2, <1>3, NumberedFacts DEF new

LEMMA ReadsKeepsType ==
    ASSUME NEW p \in Protocols, NEW frames, NEW i \in DOMAIN frames, IsFrame(p, frames[i]),
           NEW s \in Streams(frames)
    PROVE  Reads(p, s, frames[i]) \in Streams(frames)
<1> DEFINE f == frames[i]
<1> DEFINE O == {""} \cup {frames[k].id : k \in DOMAIN frames}
<1>1. /\ s.snapshot \in Numbered /\ s.usage \in [source : Protocols \cup {""}, counts : Numbered]
      /\ s.terminal \in BOOLEAN /\ s.object \in O /\ f.id \in O
  BY DEF Streams
<1>2. UsageOf(p, f.usage) /\ UsageOf(p, f.inner)
  BY DEF IsFrame
<1>3. MergeAnthropic(s.snapshot, f) \in Numbered
  <2> DEFINE inner == IF f.type = "message_start" THEN f.inner ELSE <<>>
  <2>1. DOMAIN <<>> = {}
    OBVIOUS
  <2>2. UsageOf(p, <<>>)
    BY <2>1 DEF UsageOf
  <2>3. UsageOf(p, inner)
    BY <1>2, <2>2
  <2> HIDE DEF inner
  <2> QED BY <1>1, <1>2, <2>3, UsageIsNumbered DEF MergeAnthropic, inner
<1>4. MergeOpenAI(s.snapshot, f) \in Numbered
  <2> DEFINE rest == [c \in DOMAIN s.snapshot \ f.details |-> s.snapshot[c]]
  <2>1. DOMAIN s.snapshot \subseteq AllCounts /\ \A c \in DOMAIN s.snapshot : s.snapshot[c] \in Int
    BY <1>1, NumberedFacts
  <2>2. /\ rest = [c \in DOMAIN rest |-> rest[c]] /\ DOMAIN rest \subseteq AllCounts
        /\ \A c \in DOMAIN rest : rest[c] \in Int
    BY <2>1
  <2> HIDE DEF rest
  <2>3. rest \in Numbered
    BY <2>2, NumberedFacts
  <2> QED BY <1>2, <2>3, UsageIsNumbered DEF MergeOpenAI, rest
<1> HIDE DEF f, O
<1>5. ParseAnthropicFrame(s, f) \in [snapshot : Numbered, usage : [source : Protocols \cup {""}, counts : Numbered],
                                     terminal : BOOLEAN, object : O]
  BY <1>1, <1>3 DEF ParseAnthropicFrame, UsageReport, Protocols
<1>6. ParseOpenAIFrame(s, f) \in [snapshot : Numbered, usage : [source : Protocols \cup {""}, counts : Numbered],
                                  terminal : BOOLEAN, object : O]
  BY <1>1, <1>4 DEF ParseOpenAIFrame, UsageReport, Protocols
<1> QED BY <1>5, <1>6 DEF Reads, Streams, f, O

(* What a frame does to a stream: it adds what it tells, in the place of what  *)
(* was told before.                                                         *)
LEMMA FrameRead ==
    ASSUME NEW p \in Protocols, NEW s, NEW f
    PROVE  LET r == Reads(p, s, f)
           IN  /\ DOMAIN r.snapshot \subseteq DOMAIN s.snapshot \cup DOMAIN Tells(f)
               /\ r.usage = IF DOMAIN r.snapshot = {} THEN s.usage ELSE UsageReport(p, r.snapshot)
               /\ SaysAll(p, f) =>
                    /\ DOMAIN r.snapshot = DOMAIN s.snapshot \cup DOMAIN Tells(f)
                    /\ \A c \in DOMAIN r.snapshot :
                         r.snapshot[c] = IF c \in DOMAIN Tells(f) THEN Tells(f)[c] ELSE s.snapshot[c]
<1> DEFINE r == Reads(p, s, f)
<1>0. p = "anthropic_messages" \/ p = "openai_responses"
  BY DEF Protocols
<1>1. /\ DOMAIN Tells(f) = DOMAIN f.usage \cup DOMAIN f.inner
      /\ \A c \in DOMAIN f.usage : Tells(f)[c] = f.usage[c]
      /\ \A c \in DOMAIN f.inner : c \notin DOMAIN f.usage => Tells(f)[c] = f.inner[c]
  BY OverlayFacts DEF Tells
<1>2. CASE p = "anthropic_messages"
  <2> DEFINE m == MergeAnthropic(s.snapshot, f)
  <2> DEFINE inner == IF f.type = "message_start" THEN f.inner ELSE <<>>
  <2> HIDE DEF inner
  <2>1. /\ DOMAIN m = DOMAIN f.usage \cup (DOMAIN inner \cup DOMAIN s.snapshot)
        /\ \A c \in DOMAIN f.usage : m[c] = f.usage[c]
        /\ \A c \in DOMAIN inner : c \notin DOMAIN f.usage => m[c] = inner[c]
        /\ \A c \in DOMAIN s.snapshot : c \notin DOMAIN f.usage /\ c \notin DOMAIN inner => m[c] = s.snapshot[c]
    <3> DEFINE old == Overlay(inner, s.snapshot)
    <3>1. /\ DOMAIN old = DOMAIN inner \cup DOMAIN s.snapshot
          /\ \A c \in DOMAIN inner : old[c] = inner[c]
          /\ \A c \in DOMAIN s.snapshot : c \notin DOMAIN inner => old[c] = s.snapshot[c]
      BY OverlayFacts
    <3> HIDE DEF old
    <3>2. m = Overlay(f.usage, old)
      BY DEF MergeAnthropic, old, inner
    <3> HIDE DEF m
    <3> DEFINE u == f.usage
    <3> HIDE DEF u
    <3>3. /\ DOMAIN m = DOMAIN u \cup DOMAIN old
          /\ \A c \in DOMAIN u : m[c] = u[c]
          /\ \A c \in DOMAIN old : c \notin DOMAIN u => m[c] = old[c]
      <4>1. m = Overlay(u, old)
        BY <3>2 DEF u
      <4>2. /\ DOMAIN Overlay(u, old) = DOMAIN u \cup DOMAIN old
            /\ \A c \in DOMAIN u : Overlay(u, old)[c] = u[c]
            /\ \A c \in DOMAIN old : c \notin DOMAIN u => Overlay(u, old)[c] = old[c]
        BY OverlayFacts
      <4> QED BY <4>1, <4>2
    <3> QED BY <3>1, <3>3 DEF u
  <2> HIDE DEF m
  <2>2. /\ DOMAIN m \subseteq DOMAIN s.snapshot \cup DOMAIN Tells(f)
        /\ SaysAll(p, f) =>
             /\ DOMAIN m = DOMAIN s.snapshot \cup DOMAIN Tells(f)
             /\ \A c \in DOMAIN m : m[c] = IF c \in DOMAIN Tells(f) THEN Tells(f)[c] ELSE s.snapshot[c]
    <3>1. CASE f.type = "message_start"
      <4>1. inner = f.inner
        BY <3>1 DEF inner
      <4> QED BY <1>1, <2>1, <4>1
    <3>2. CASE f.type # "message_start"
      <4>1. DOMAIN <<>> = {}
        OBVIOUS
      <4>2. DOMAIN inner = {}
        BY <3>2, <4>1 DEF inner
      <4>3. SaysAll(p, f) => DOMAIN f.inner = {}
        BY <1>2, <3>2 DEF SaysAll
      <4> QED BY <1>1, <2>1, <4>2, <4>3
    <3> QED BY <3>1, <3>2
  <2>3. /\ r.snapshot = IF f.type \in {"message_start", "message_delta"} THEN m ELSE s.snapshot
        /\ r.usage = IF DOMAIN r.snapshot = {} THEN s.usage ELSE UsageReport(p, r.snapshot)
    BY <1>2 DEF Reads, ParseAnthropicFrame, m
  <2> HIDE DEF r
  <2>4. CASE f.type \in {"message_start", "message_delta"}
    BY <2>2, <2>3, <2>4 DEF r
  <2>5. CASE f.type \notin {"message_start", "message_delta"}
    <3>1. r.snapshot = s.snapshot
      BY <2>3, <2>5
    <3>2. SaysAll(p, f) => DOMAIN Tells(f) = {}
      BY <1>1, <1>2, <2>5 DEF SaysAll
    <3> QED BY <2>3, <3>1, <3>2 DEF r
  <2> QED BY <2>4, <2>5
<1>3. CASE p = "openai_responses"
  <2> DEFINE m == MergeOpenAI(s.snapshot, f)
  <2>1. /\ DOMAIN m = DOMAIN f.usage \cup (DOMAIN s.snapshot \ f.details)
        /\ \A c \in DOMAIN f.usage : m[c] = f.usage[c]
        /\ \A c \in DOMAIN s.snapshot \ f.details : c \notin DOMAIN f.usage => m[c] = s.snapshot[c]
    <3> DEFINE old == [c \in DOMAIN s.snapshot \ f.details |-> s.snapshot[c]]
    <3>1. /\ DOMAIN old = DOMAIN s.snapshot \ f.details
          /\ \A c \in DOMAIN s.snapshot \ f.details : old[c] = s.snapshot[c]
      OBVIOUS
    <3>2. m = Overlay(f.usage, old)
      BY DEF MergeOpenAI
    <3> HIDE DEF old, m
    <3> DEFINE u == f.usage
    <3> HIDE DEF u
    <3>3. /\ DOMAIN m = DOMAIN u \cup DOMAIN old
          /\ \A c \in DOMAIN u : m[c] = u[c]
          /\ \A c \in DOMAIN old : c \notin DOMAIN u => m[c] = old[c]
      <4>1. m = Overlay(u, old)
        BY <3>2 DEF u
      <4>2. /\ DOMAIN Overlay(u, old) = DOMAIN u \cup DOMAIN old
            /\ \A c \in DOMAIN u : Overlay(u, old)[c] = u[c]
            /\ \A c \in DOMAIN old : c \notin DOMAIN u => Overlay(u, old)[c] = old[c]
        BY OverlayFacts
      <4> QED BY <4>1, <4>2
    <3> QED BY <3>1, <3>3 DEF u
  <2> HIDE DEF m
  <2>2. /\ r.snapshot = m
        /\ r.usage = IF DOMAIN r.snapshot = {} THEN s.usage ELSE UsageReport(p, r.snapshot)
    BY <1>3 DEF Reads, ParseOpenAIFrame, m
  <2>3. SaysAll(p, f) => DOMAIN f.inner = {} /\ f.details \subseteq DOMAIN f.usage
    BY <1>3 DEF SaysAll
  <2> HIDE DEF r
  <2>4. DOMAIN m \subseteq DOMAIN s.snapshot \cup DOMAIN Tells(f)
    BY <1>1, <2>1
  <2>5. ASSUME SaysAll(p, f)
        PROVE  /\ DOMAIN m = DOMAIN s.snapshot \cup DOMAIN Tells(f)
               /\ \A c \in DOMAIN m : m[c] = IF c \in DOMAIN Tells(f) THEN Tells(f)[c] ELSE s.snapshot[c]
    <3>1. DOMAIN Tells(f) = DOMAIN f.usage /\ f.details \subseteq DOMAIN f.usage
      BY <1>1, <2>3, <2>5
    <3> QED BY <1>1, <2>1, <3>1
  <2> QED BY <2>2, <2>4, <2>5 DEF r
<1> QED BY <1>0, <1>2, <1>3

(* Reading the frames up to one after the other is what StreamedAnswer does. *)
StreamFold(g, p, frames) ==
    /\ g[{}] = StreamStart
    /\ \A T \in SUBSET DOMAIN frames : T # {} =>
          g[T] = Reads(p, g[T \ {Max(T)}], frames[Max(T)])

LEMMA StreamsAreFolded ==
    ASSUME NEW p \in Protocols, NEW frames, IsSequence(frames), \A i \in DOMAIN frames : IsFrame(p, frames[i])
    PROVE  \E g : /\ StreamFold(g, p, frames)
                  /\ StreamedAnswer(p, frames) =
                       LET read == g[DOMAIN frames]
                       IN  [usage |-> read.usage, object |-> read.object, response |-> "", calls |-> {},
                            outcome |-> IF p = "anthropic_messages" /\ ~ read.terminal THEN "stream_truncated"
                                        ELSE "upstream_ok"]
<1> DEFINE D == DOMAIN frames
<1> DEFINE Op(s, f) == IF p = "anthropic_messages" THEN ParseAnthropicFrame(s, f) ELSE ParseOpenAIFrame(s, f)
<1> DEFINE H(h) == [T \in SUBSET D |-> IF T = {} THEN StreamStart ELSE Op(h[T \ {Max(T)}], frames[Max(T)])]
<1>1. D \subseteq Nat /\ IsFiniteSet(D)
  BY SequenceFacts, FiniteNumbers
<1>2. \A T \in SUBSET D : T # {} => Max(T) \in T
  BY <1>1, FS_Subset, GreatestNumber
<1>3. \E h : h = H(h)
  <2> DEFINE V == Streams(frames)
  <2> DEFINE step == [q \in D \X V |-> Op(q[2], frames[q[1]])]
  <2>1. step \in [D \X V -> V]
    <3>1. ASSUME NEW i \in D, NEW s \in V PROVE Op(s, frames[i]) \in V
      <4>1. Reads(p, s, frames[i]) \in V
        BY ReadsKeepsType
      <4> QED BY <4>1 DEF Reads
    <3> HIDE DEF Op, V, D
    <3> QED BY <3>1
  <2>2. StreamStart \in V
    <3>1. <<>> \in Numbered
      <4>1. DOMAIN <<>> = {} /\ <<>> = [c \in DOMAIN <<>> |-> <<>>[c]]
        OBVIOUS
      <4> QED BY <4>1, NumberedFacts
    <3> QED BY <3>1 DEF Streams, StreamStart, NoReport, UsageReport
  <2>3. PICK h \in [SUBSET D -> V] : Folds(h, D, StreamStart, step)
    <3> HIDE DEF step, V, D
    <3> QED BY <1>1, <2>1, <2>2, FoldExists
  <2>4. ASSUME NEW T \in SUBSET D, T # {}
        PROVE  step[<<Max(T), h[T \ {Max(T)}]>>] = Op(h[T \ {Max(T)}], frames[Max(T)])
    <3>1. Max(T) \in D /\ h[T \ {Max(T)}] \in V
      BY <1>2, <2>4
    <3> HIDE DEF Op, V, D
    <3> QED BY <3>1
  <2>5. \A T \in SUBSET D : h[T] = IF T = {} THEN StreamStart ELSE Op(h[T \ {Max(T)}], frames[Max(T)])
    <3> HIDE DEF step, Op, V, D
    <3> QED BY <2>3, <2>4 DEF Folds
  <2>6. h = H(h)
    <3> HIDE DEF step, Op, V, D
    <3> QED BY <2>5
  <2> HIDE DEF H
  <2> QED BY <2>6
<1> DEFINE g == CHOOSE h : h = H(h)
<1>4. g = H(g)
  <2> HIDE DEF H
  <2> QED BY <1>3
<1>5. StreamedAnswer(p, frames) =
        [usage |-> g[D].usage, object |-> g[D].object, response |-> "", calls |-> {},
         outcome |-> IF p = "anthropic_messages" /\ ~ g[D].terminal THEN "stream_truncated" ELSE "upstream_ok"]
  BY DEF StreamedAnswer, FoldLeft, MapThenFoldSet
<1> HIDE DEF g
<1>6. StreamFold(g, p, frames)
  <2>1. g[{}] = StreamStart
    BY <1>4
  <2>2. ASSUME NEW T \in SUBSET D, T # {} PROVE g[T] = Op(g[T \ {Max(T)}], frames[Max(T)])
    <3> HIDE DEF Op
    <3> QED BY <1>4, <2>2
  <2> QED BY <2>1, <2>2 DEF StreamFold, Reads
<1> QED BY <1>5, <1>6

(* What a frame that comes last changes in who tells of a count.             *)
LEMMA LastTells ==
    ASSUME NEW frames, NEW T, T \subseteq Nat, IsFiniteSet(T), T # {}, NEW c
    PROVE  LET x == Max(T)
               before == Telling(frames, T \ {x}, c)
               now == Telling(frames, T, c)
           IN  /\ c \in DOMAIN Tells(frames[x]) => now # {} /\ Max(now) = x
               /\ c \notin DOMAIN Tells(frames[x]) => now = before
               /\ before # {} => now # {}
<1> DEFINE x == Max(T)
<1> DEFINE now == Telling(frames, T, c)
<1>1. x \in T /\ \A n \in T : n <= x
  BY GreatestNumber
<1>2. ASSUME c \in DOMAIN Tells(frames[x]) PROVE now # {} /\ Max(now) = x
  <2>1. x \in now /\ now \subseteq T /\ IsFiniteSet(now) /\ now \subseteq Nat
    BY <1>1, <1>2, FS_Subset DEF Telling
  <2> HIDE DEF now, x
  <2>2. Max(now) \in now /\ \A n \in now : n <= Max(now)
    BY <2>1, GreatestNumber
  <2>3. Max(now) \in Nat /\ x \in Nat /\ Max(now) <= x /\ x <= Max(now)
    BY <1>1, <2>1, <2>2
  <2> QED BY <2>1, <2>3
<1>3. c \notin DOMAIN Tells(frames[x]) => now = Telling(frames, T \ {x}, c)
  BY DEF Telling
<1>4. Telling(frames, T \ {x}, c) \subseteq now
  BY DEF Telling
<1> QED BY <1>2, <1>3, <1>4

(* What a stream has come to is what its frames told last.                  *)
StreamSays(s, p, frames, T) ==
    /\ s.usage = NoReport \/ s.usage.source = p
    /\ \A c \in DOMAIN s.snapshot : Telling(frames, T, c) # {}
    /\ \A c \in DOMAIN s.usage.counts : Telling(frames, T, c) # {}
    /\ (\A i \in DOMAIN frames : SaysAll(p, frames[i])) =>
         /\ \A c : Telling(frames, T, c) # {} => c \in DOMAIN s.snapshot
         /\ \A c \in DOMAIN s.snapshot : s.snapshot[c] = Tells(frames[Max(Telling(frames, T, c))])[c]
         /\ s.usage = IF DOMAIN s.snapshot = {} THEN NoReport ELSE UsageReport(p, s.snapshot)

LEMMA StreamsSay ==
    ASSUME NEW p \in Protocols, NEW frames, IsSequence(frames), NEW g, StreamFold(g, p, frames)
    PROVE  StreamSays(g[DOMAIN frames], p, frames, DOMAIN frames)
<1> DEFINE D == DOMAIN frames
<1> DEFINE W == {T \in SUBSET D : StreamSays(g[T], p, frames, T)}
<1>1. D \subseteq Nat /\ IsFiniteSet(D)
  BY SequenceFacts, FiniteNumbers
<1>2. ASSUME NEW T \in SUBSET D, \A x \in T : T \ {x} \in W PROVE T \in W
  <2>1. CASE T = {}
    <3>1. g[T] = StreamStart
      BY <2>1 DEF StreamFold
    <3>2. /\ StreamStart.usage = NoReport /\ DOMAIN StreamStart.snapshot = {}
          /\ DOMAIN StreamStart.usage.counts = {}
      <4>1. DOMAIN <<>> = {}
        OBVIOUS
      <4> QED BY <4>1 DEF StreamStart, NoReport, UsageReport
    <3>3. \A c : Telling(frames, {}, c) = {}
      BY DEF Telling
    <3>4. StreamSays(StreamStart, p, frames, {})
      <4> DEFINE s == StreamStart
      <4>1. s.usage = NoReport /\ DOMAIN s.snapshot = {} /\ DOMAIN s.usage.counts = {}
        BY <3>2
      <4> HIDE DEF s
      <4>2. StreamSays(s, p, frames, {})
        BY <3>3, <4>1 DEF StreamSays
      <4> QED BY <4>2 DEF s
    <3> QED BY <2>1, <3>1, <3>4
  <2>2. CASE T # {}
    <3> DEFINE x == Max(T)
    <3> DEFINE U == T \ {x}
    <3> DEFINE s == g[U]
    <3> DEFINE r == g[T]
    <3> DEFINE f == frames[x]
    <3> DEFINE now(c) == Telling(frames, T, c)
    <3>1. T \subseteq Nat /\ IsFiniteSet(T) /\ x \in T /\ x \in D
      BY <1>1, <2>2, FS_Subset, GreatestNumber
    <3>2. StreamSays(s, p, frames, U)
      BY <1>2, <3>1
    <3>3. r = Reads(p, s, f)
      BY <2>2 DEF StreamFold
    <3>4. \A c : /\ c \in DOMAIN Tells(f) => now(c) # {} /\ Max(now(c)) = x
                 /\ c \notin DOMAIN Tells(f) => now(c) = Telling(frames, U, c)
                 /\ Telling(frames, U, c) # {} => now(c) # {}
      BY <2>2, <3>1, LastTells
    <3>5. (\A i \in D : SaysAll(p, frames[i])) => SaysAll(p, f)
      BY <3>1
    <3> HIDE DEF x, U, s, r
    <3>6. /\ DOMAIN r.snapshot \subseteq DOMAIN s.snapshot \cup DOMAIN Tells(f)
          /\ r.usage = IF DOMAIN r.snapshot = {} THEN s.usage ELSE UsageReport(p, r.snapshot)
          /\ SaysAll(p, f) =>
               /\ DOMAIN r.snapshot = DOMAIN s.snapshot \cup DOMAIN Tells(f)
               /\ \A c \in DOMAIN r.snapshot :
                    r.snapshot[c] = IF c \in DOMAIN Tells(f) THEN Tells(f)[c] ELSE s.snapshot[c]
      BY <3>3, FrameRead
    <3> DEFINE q == UsageReport(p, r.snapshot)
    <3>7. q.source = p /\ q.counts = r.snapshot
      BY DEF UsageReport
    <3> HIDE DEF q
    <3>8. \A c \in DOMAIN r.snapshot : now(c) # {}
      <4> HIDE DEF now
      <4> QED BY <3>2, <3>4, <3>6 DEF StreamSays
    <3>9. (r.usage = NoReport \/ r.usage.source = p) /\ \A c \in DOMAIN r.usage.counts : now(c) # {}
      <4>1. CASE DOMAIN r.snapshot = {}
        <5>1. r.usage = s.usage
          BY <3>6, <4>1
        <5> HIDE DEF now
        <5> QED BY <3>2, <3>4, <5>1 DEF StreamSays
      <4>2. CASE DOMAIN r.snapshot # {}
        <5>1. r.usage = q
          BY <3>6, <4>2 DEF q
        <5> HIDE DEF now
        <5> QED BY <3>7, <3>8, <5>1
      <4> QED BY <4>1, <4>2
    <3>10. ASSUME \A i \in D : SaysAll(p, frames[i])
           PROVE  /\ \A c : now(c) # {} => c \in DOMAIN r.snapshot
                  /\ \A c \in DOMAIN r.snapshot : r.snapshot[c] = Tells(frames[Max(now(c))])[c]
                  /\ r.usage = IF DOMAIN r.snapshot = {} THEN NoReport ELSE q
      <4>1. /\ DOMAIN r.snapshot = DOMAIN s.snapshot \cup DOMAIN Tells(f)
            /\ \A c \in DOMAIN r.snapshot :
                 r.snapshot[c] = IF c \in DOMAIN Tells(f) THEN Tells(f)[c] ELSE s.snapshot[c]
        BY <3>5, <3>6, <3>10
      <4>2. /\ \A c : Telling(frames, U, c) # {} => c \in DOMAIN s.snapshot
            /\ \A c \in DOMAIN s.snapshot : s.snapshot[c] = Tells(frames[Max(Telling(frames, U, c))])[c]
            /\ s.usage = IF DOMAIN s.snapshot = {} THEN NoReport ELSE UsageReport(p, s.snapshot)
        BY <3>2, <3>10 DEF StreamSays
      <4>3. \A c : now(c) # {} => c \in DOMAIN r.snapshot
        <5> HIDE DEF now
        <5> QED BY <3>4, <4>1, <4>2
      <4>4. ASSUME NEW c \in DOMAIN r.snapshot PROVE r.snapshot[c] = Tells(frames[Max(now(c))])[c]
        <5>1. CASE c \in DOMAIN Tells(f)
          <6>1. Max(now(c)) = x
            BY <3>4, <5>1
          <6> HIDE DEF now
          <6> QED BY <4>1, <5>1, <6>1
        <5>2. CASE c \notin DOMAIN Tells(f)
          <6>1. now(c) = Telling(frames, U, c) /\ c \in DOMAIN s.snapshot /\ r.snapshot[c] = s.snapshot[c]
            BY <3>4, <4>1, <5>2
          <6> QED BY <4>2, <6>1
        <5> QED BY <5>1, <5>2
      <4>5. r.usage = IF DOMAIN r.snapshot = {} THEN NoReport ELSE q
        <5>1. CASE DOMAIN r.snapshot = {}
          <6>1. DOMAIN s.snapshot = {}
            BY <4>1, <5>1
          <6> QED BY <3>6, <4>2, <5>1, <6>1
        <5>2. CASE DOMAIN r.snapshot # {}
          BY <3>6, <5>2 DEF q
        <5> QED BY <5>1, <5>2
      <4> QED BY <4>3, <4>4, <4>5
    <3>11. StreamSays(r, p, frames, T)
      BY <3>8, <3>9, <3>10 DEF StreamSays, q
    <3> QED BY <3>11 DEF r
  <2> QED BY <2>1, <2>2
<1>3. D \in W
  <2>1. \A T \in SUBSET D : (\A x \in T : T \ {x} \in W) => T \in W
    BY <1>2
  <2> HIDE DEF W, D
  <2> QED BY <1>1, <2>1, SubsetsByInduction
<1> QED BY <1>3

-----------------------------------------------------------------------------
(* Answers. *)

(* What is kept of a usage was said, and where everything is read, all of it. *)
Reported(p, u, said) ==
    /\ u.source \in {"", p} /\ (u.source = "" => DOMAIN u.counts = {})
    /\ DOMAIN u.counts \subseteq DOMAIN said
    /\ DOMAIN said \subseteq CountsOf(p) /\ \A c \in DOMAIN said : said[c] \in Int

Exactly(u, said) ==
    DOMAIN said \subseteq DOMAIN u.counts /\ \A c \in DOMAIN u.counts : u.counts[c] = said[c]

(* Answers to a protocol's calls; and those that say only what is read.      *)
AnswerSaysAll(p, answer) ==
    /\ \A i \in DOMAIN answer.frames : SaysAll(p, answer.frames[i])
    /\ p = "openai_responses" =>
         /\ CachedOfInput(answer.usage)
         /\ \A i \in DOMAIN answer.frames : CachedOfInput(answer.frames[i].usage)

LEMMA NothingReported == NoReport.source = "" /\ NoReport.counts = <<>> /\ DOMAIN NoReport.counts = {}
<1>1. DOMAIN <<>> = {}
  OBVIOUS
<1> QED BY <1>1 DEF NoReport, UsageReport

LEMMA SaidFacts ==
    ASSUME NEW p, NEW answer, IsAnswer(p, answer)
    PROVE  LET frames == answer.frames
               telling(c) == Telling(frames, DOMAIN frames, c)
               said == Said(answer)
           IN  /\ IsSequence(frames) /\ \A i \in DOMAIN frames : IsFrame(p, frames[i])
               /\ \A c : c \in DOMAIN said <=> c \in DOMAIN answer.usage \/ telling(c) # {}
               /\ \A c \in DOMAIN said : said[c] = IF telling(c) = {} THEN answer.usage[c]
                                                   ELSE Tells(frames[Max(telling(c))])[c]
               /\ DOMAIN said \subseteq CountsOf(p) /\ \A c \in DOMAIN said : said[c] \in Int
<1> DEFINE frames == answer.frames
<1> DEFINE D == DOMAIN frames
<1> DEFINE telling(c) == Telling(frames, D, c)
<1> DEFINE said == Said(answer)
<1>1. IsSequence(frames) /\ (\A i \in D : IsFrame(p, frames[i])) /\ UsageOf(p, answer.usage)
  BY DEF IsAnswer, IsSequence
<1>2. D \subseteq Nat /\ IsFiniteSet(D)
  <2> HIDE DEF frames
  <2> QED BY <1>1, SequenceFacts, FiniteNumbers
<1>3. CountsOf(p) \subseteq AllCounts
  BY DEF CountsOf, AllCounts
<1>4. ASSUME NEW i \in D
      PROVE  /\ DOMAIN Tells(frames[i]) \subseteq CountsOf(p)
             /\ \A c \in DOMAIN Tells(frames[i]) : Tells(frames[i])[c] \in Int
  <2> DEFINE f == frames[i]
  <2> DEFINE u == f.usage
  <2> DEFINE v == f.inner
  <2>1. /\ DOMAIN u \subseteq CountsOf(p) /\ \A c \in DOMAIN u : u[c] \in Int
        /\ DOMAIN v \subseteq CountsOf(p) /\ \A c \in DOMAIN v : v[c] \in Int
    BY <1>1 DEF IsFrame, UsageOf
  <2>2. Tells(f) = Overlay(u, v)
    BY DEF Tells
  <2> HIDE DEF f, u, v
  <2>3. /\ DOMAIN Overlay(u, v) = DOMAIN u \cup DOMAIN v
        /\ \A c \in DOMAIN u : Overlay(u, v)[c] = u[c]
        /\ \A c \in DOMAIN v : c \notin DOMAIN u => Overlay(u, v)[c] = v[c]
    BY OverlayFacts
  <2>4. DOMAIN Tells(f) \subseteq CountsOf(p) /\ \A c \in DOMAIN Tells(f) : Tells(f)[c] \in Int
    BY <2>1, <2>2, <2>3
  <2> QED BY <2>4 DEF f
<1>5. ASSUME NEW c, telling(c) # {}
      PROVE  /\ Max(telling(c)) \in D /\ c \in DOMAIN Tells(frames[Max(telling(c))])
             /\ c \in CountsOf(p)
  <2>1. telling(c) \subseteq D /\ telling(c) \subseteq Nat /\ IsFiniteSet(telling(c))
    <3>1. telling(c) \subseteq D
      BY DEF Telling
    <3> HIDE DEF telling
    <3> QED BY <1>2, <3>1, FS_Subset
  <2>2. Max(telling(c)) \in telling(c)
    <3> HIDE DEF telling
    <3> QED BY <1>5, <2>1, GreatestNumber
  <2>3. Max(telling(c)) \in D /\ c \in DOMAIN Tells(frames[Max(telling(c))])
    BY <2>2 DEF Telling
  <2> HIDE DEF telling, D, frames
  <2> QED BY <1>4, <2>3
<1>6. /\ DOMAIN said = {c \in AllCounts : c \in DOMAIN answer.usage \/ telling(c) # {}}
      /\ \A c \in DOMAIN said : said[c] = IF telling(c) = {} THEN answer.usage[c]
                                          ELSE Tells(frames[Max(telling(c))])[c]
  BY DEF Said
<1>7. DOMAIN answer.usage \subseteq CountsOf(p) /\ \A c \in DOMAIN answer.usage : answer.usage[c] \in Int
  BY <1>1 DEF UsageOf
<1> HIDE DEF telling, said, frames, D
<1>8. \A c : c \in DOMAIN said <=> c \in DOMAIN answer.usage \/ telling(c) # {}
  BY <1>3, <1>5, <1>6, <1>7
<1>9. DOMAIN said \subseteq CountsOf(p)
  BY <1>5, <1>7, <1>8
<1>10. ASSUME NEW c \in DOMAIN said PROVE said[c] \in Int
  <2>1. CASE telling(c) = {}
    BY <1>6, <1>7, <1>8, <2>1
  <2>2. CASE telling(c) # {}
    BY <1>4, <1>5, <1>6, <2>2
  <2> QED BY <2>1, <2>2
<1> QED BY <1>1, <1>6, <1>8, <1>9, <1>10 DEF telling, said, frames, D

LEMMA KeptFacts ==
    ASSUME NEW p \in Protocols, NEW answer, IsAnswer(p, answer), NEW x, x.protocol = p
    PROVE  LET kept == Kept(x, answer)
           IN  /\ DOMAIN kept = {"outcome", "usage", "object", "response", "calls"}
               /\ kept.outcome \in RequestOutcomes
               /\ Reported(p, kept.usage, Said(answer))
               /\ AnswerSaysAll(p, answer) =>
                    /\ Exactly(kept.usage, Said(answer))
                    /\ p = "openai_responses" => CachedOfInput(Said(answer))
<1> DEFINE frames == answer.frames
<1> DEFINE D == DOMAIN frames
<1> DEFINE telling(c) == Telling(frames, D, c)
<1> DEFINE said == Said(answer)
<1> DEFINE kept == Kept(x, answer)
<1>1. /\ IsSequence(frames) /\ \A i \in D : IsFrame(p, frames[i])
      /\ \A c : c \in DOMAIN said <=> c \in DOMAIN answer.usage \/ telling(c) # {}
      /\ \A c \in DOMAIN said : said[c] = IF telling(c) = {} THEN answer.usage[c]
                                          ELSE Tells(frames[Max(telling(c))])[c]
      /\ DOMAIN said \subseteq CountsOf(p) /\ \A c \in DOMAIN said : said[c] \in Int
  BY SaidFacts
<1>2. /\ answer.how \in {"whole", "stream", "none"}
      /\ answer.how # "whole" => answer.usage = <<>>
      /\ answer.how # "stream" => answer.frames = <<>>
      /\ answer.outcome \in RequestOutcomes
  BY DEF IsAnswer
<1>3. DOMAIN <<>> = {}
  OBVIOUS
<1>4. answer.how # "whole" => DOMAIN answer.usage = {}
  BY <1>2, <1>3
<1>5. answer.how # "stream" => \A c : telling(c) = {}
  BY <1>2, <1>3 DEF Telling
<1>6. CASE answer.how = "whole"
  <2> DEFINE u == answer.usage
  <2>1. DOMAIN said = DOMAIN u /\ \A c \in DOMAIN said : said[c] = u[c]
    <3> HIDE DEF said, telling, D, frames
    <3> QED BY <1>1, <1>5, <1>6
  <2>2. /\ DOMAIN kept = {"outcome", "usage", "object", "response", "calls"}
        /\ kept.outcome = answer.outcome
        /\ kept.usage = IF DOMAIN u = {} THEN NoReport ELSE UsageReport(p, u)
    BY <1>6 DEF Kept, WholeAnswer, Overlay
  <2> DEFINE q == UsageReport(p, u)
  <2>3. q.source = p /\ q.counts = u
    BY DEF UsageReport
  <2>4. Reported(p, kept.usage, said) /\ Exactly(kept.usage, said)
    <3> HIDE DEF kept, said, q
    <3>1. CASE DOMAIN u = {}
      BY <1>1, <2>1, <2>2, <3>1, NothingReported DEF Reported, Exactly
    <3>2. CASE DOMAIN u # {}
      <4>1. kept.usage = q
        BY <2>2, <3>2 DEF q
      <4>2. p # ""
        BY DEF Protocols
      <4> QED BY <1>1, <2>1, <2>3, <4>1, <4>2 DEF Reported, Exactly
    <3> QED BY <3>1, <3>2
  <2>5. AnswerSaysAll(p, answer) /\ p = "openai_responses" => CachedOfInput(said)
    <3> HIDE DEF said
    <3> QED BY <2>1 DEF AnswerSaysAll, CachedOfInput
  <2> QED BY <1>2, <2>2, <2>4, <2>5
<1>7. CASE answer.how = "stream"
  <2>1. PICK g : /\ StreamFold(g, p, frames)
                 /\ StreamedAnswer(p, frames) =
                       LET read == g[D]
                       IN  [usage |-> read.usage, object |-> read.object, response |-> "", calls |-> {},
                            outcome |-> IF p = "anthropic_messages" /\ ~ read.terminal THEN "stream_truncated"
                                        ELSE "upstream_ok"]
    <3> HIDE DEF frames
    <3> QED BY <1>1, StreamsAreFolded DEF D
  <2> DEFINE s == g[D]
  <2>2. StreamSays(s, p, frames, D)
    <3> HIDE DEF frames
    <3> QED BY <1>1, <2>1, StreamsSay DEF D
  <2>3. kept = StreamedAnswer(p, frames)
    BY <1>7 DEF Kept
  <2>4. /\ DOMAIN kept = {"outcome", "usage", "object", "response", "calls"} /\ kept.usage = s.usage
        /\ kept.outcome \in RequestOutcomes
    <3> DEFINE e == IF p = "anthropic_messages" /\ ~ s.terminal THEN "stream_truncated" ELSE "upstream_ok"
    <3>1. kept = [usage |-> s.usage, object |-> s.object, response |-> "", calls |-> {}, outcome |-> e]
      BY <2>1, <2>3
    <3>2. e \in RequestOutcomes
      BY DEF RequestOutcomes
    <3> HIDE DEF kept, s, e
    <3> QED BY <3>1, <3>2
  <2>5. \A c : c \in DOMAIN said <=> telling(c) # {}
    <3> HIDE DEF said, telling, D, frames
    <3> QED BY <1>1, <1>4, <1>7
  <2>6. \A c \in DOMAIN said : said[c] = Tells(frames[Max(telling(c))])[c]
    <3> HIDE DEF said, telling, D, frames
    <3> QED BY <1>1, <2>5
  <2>7. p # ""
    BY DEF Protocols
  <2> HIDE DEF s, kept, said
  <2>8. Reported(p, kept.usage, said)
    <3>1. /\ s.usage = NoReport \/ s.usage.source = p
          /\ \A c \in DOMAIN s.usage.counts : telling(c) # {}
      BY <2>2 DEF StreamSays
    <3> HIDE DEF telling
    <3> QED BY <1>1, <2>4, <2>5, <2>7, <3>1, NothingReported DEF Reported
  <2>9. ASSUME AnswerSaysAll(p, answer)
        PROVE  Exactly(kept.usage, said) /\ (p = "openai_responses" => CachedOfInput(said))
    <3> DEFINE q == UsageReport(p, s.snapshot)
    <3>1. /\ \A c \in DOMAIN s.snapshot : telling(c) # {}
          /\ \A c : telling(c) # {} => c \in DOMAIN s.snapshot
          /\ \A c \in DOMAIN s.snapshot : s.snapshot[c] = Tells(frames[Max(telling(c))])[c]
          /\ s.usage = IF DOMAIN s.snapshot = {} THEN NoReport ELSE q
      BY <2>2, <2>9 DEF StreamSays, AnswerSaysAll
    <3>2. q.source = p /\ q.counts = s.snapshot
      BY DEF UsageReport
    <3>3. Exactly(s.usage, said)
      <4> HIDE DEF telling, q, frames
      <4>1. DOMAIN said = DOMAIN s.snapshot /\ \A c \in DOMAIN said : s.snapshot[c] = said[c]
        BY <2>5, <2>6, <3>1
      <4>2. CASE DOMAIN s.snapshot = {}
        BY <3>1, <4>1, <4>2, NothingReported DEF Exactly
      <4>3. CASE DOMAIN s.snapshot # {}
        BY <3>1, <3>2, <4>1, <4>3 DEF Exactly
      <4> QED BY <4>2, <4>3
    <3>4. ASSUME p = "openai_responses", "read" \in DOMAIN said PROVE "input" \in DOMAIN said
      <4>1. PICK i \in D : "read" \in DOMAIN Tells(frames[i])
        BY <2>5, <3>4 DEF Telling
      <4>2. /\ DOMAIN frames[i].inner = {}
            /\ "read" \in DOMAIN frames[i].usage => "input" \in DOMAIN frames[i].usage
        BY <2>9, <3>4, <4>1 DEF AnswerSaysAll, SaysAll, CachedOfInput
      <4>3. DOMAIN Tells(frames[i]) = DOMAIN frames[i].usage \cup DOMAIN frames[i].inner
        BY OverlayFacts DEF Tells
      <4>4. i \in telling("input")
        BY <4>1, <4>2, <4>3 DEF Telling
      <4> QED BY <2>5, <4>4
    <3> QED BY <2>4, <3>3, <3>4 DEF CachedOfInput
  <2> QED BY <2>4, <2>8, <2>9 DEF kept, said
<1>8. CASE answer.how = "none"
  <2>1. DOMAIN said = {}
    <3> HIDE DEF said, telling, D, frames
    <3> QED BY <1>1, <1>4, <1>5, <1>8
  <2>2. /\ DOMAIN kept = {"outcome", "usage", "object", "response", "calls"} /\ kept.usage = NoReport
        /\ kept.outcome \in RequestOutcomes
    BY <1>2, <1>8 DEF Kept
  <2> HIDE DEF kept, said
  <2>3. Reported(p, kept.usage, said) /\ Exactly(kept.usage, said) /\ CachedOfInput(said)
    BY <1>1, <2>1, <2>2, NothingReported DEF Reported, Exactly, CachedOfInput
  <2> QED BY <2>2, <2>3 DEF kept, said
<1> QED BY <1>2, <1>6, <1>7, <1>8

-----------------------------------------------------------------------------
(* Captures. *)

(* A call that has begun, and one that was recorded.                         *)
OpenCall(p, x) ==
    /\ DOMAIN x = {"id", "of", "started", "model", "protocol", "endpoint", "method", "kind",
                   "components", "metadata"}
    /\ x.protocol = p /\ x.kind = RequestKind(x.endpoint, x.method) /\ x.started = x.id

RecordedCall(p, x) ==
    /\ x.started = x.id /\ x.outcome \in RequestOutcomes
    /\ x.kind = RequestKind(x.endpoint, x.method)
    /\ Reported(p, x.usage, x.said)
    /\ AnswersSayAll => /\ Exactly(x.usage, x.said)
                        /\ p = "openai_responses" => CachedOfInput(x.said)

(* Every call of a capture has a usage that was said, all of it where the    *)
(* answers say what is read only; no step changes what agents may do.        *)
TrafficInv ==
    /\ DOMAIN traffic = {"mix", "talks", "open", "capture", "made", "failures"}
    /\ traffic.mix \in Mixes /\ IsSequence(traffic.capture)
    /\ \A x \in traffic.open : OpenCall(traffic.mix.protocol, x)
    /\ \A i \in DOMAIN traffic.capture : RecordedCall(traffic.mix.protocol, traffic.capture[i])

LEMMA BegunIsOpen ==
    ASSUME NEW c, NEW endpoint, NEW method, NEW body
    PROVE  OpenCall(traffic.mix.protocol, Begun(c, endpoint, method, body))
BY DEF OpenCall, Begun

LEMMA EndIsRecorded ==
    ASSUME NEW m \in Mixes, NEW answer, answer \in m.answers \/ answer = NotModel,
           NEW x, OpenCall(m.protocol, x)
    PROVE  LET record == Overlay(x, Overlay(Kept(x, answer), [said |-> Said(answer)]))
           IN  RecordedCall(m.protocol, record) /\ record.id = x.id
<1> DEFINE p == m.protocol
<1> DEFINE kept == Kept(x, answer)
<1> DEFINE said == Said(answer)
<1> DEFINE end == Overlay(kept, [said |-> said])
<1> DEFINE record == Overlay(x, end)
<1>1. p \in Protocols /\ \A a \in m.answers : IsAnswer(p, a)
  BY TrafficAssumption DEF Mix
<1>2. IsAnswer(p, NotModel) /\ AnswerSaysAll(p, NotModel)
  <2>1. DOMAIN <<>> = {} /\ <<>> \in Seq(Range(<<>>))
    OBVIOUS
  <2>2. UsageOf(p, <<>>)
    BY <2>1 DEF UsageOf
  <2>3. /\ DOMAIN NotModel = {"how", "outcome", "usage", "frames", "asks"}
        /\ NotModel.how = "none" /\ NotModel.outcome = "upstream_ok"
        /\ NotModel.usage = <<>> /\ NotModel.frames = <<>>
    BY DEF NotModel
  <2>4. IsAnswer(p, NotModel)
    BY <2>1, <2>2, <2>3 DEF IsAnswer, RequestOutcomes
  <2>5. AnswerSaysAll(p, NotModel)
    BY <2>1, <2>3 DEF AnswerSaysAll, CachedOfInput
  <2> QED BY <2>4, <2>5
<1>3. IsAnswer(p, answer) /\ (AnswersSayAll => AnswerSaysAll(p, answer))
  <2>1. CASE answer \in m.answers
    BY <1>1, <2>1 DEF AnswersSayAll, AnswerSaysAll
  <2>2. CASE answer = NotModel
    BY <1>2, <2>2
  <2> QED BY <2>1, <2>2
<1>4. /\ DOMAIN kept = {"outcome", "usage", "object", "response", "calls"}
      /\ Reported(p, kept.usage, said) /\ kept.outcome \in RequestOutcomes
      /\ AnswerSaysAll(p, answer) =>
           Exactly(kept.usage, said) /\ (p = "openai_responses" => CachedOfInput(said))
  <2>1. x.protocol = p
    BY DEF OpenCall
  <2> HIDE DEF p
  <2> QED BY <1>1, <1>3, <2>1, KeptFacts
<1>5. /\ end.usage = kept.usage /\ end.said = said /\ end.outcome = kept.outcome
      /\ DOMAIN end = DOMAIN kept \cup {"said"}
  <2> DEFINE q == [said |-> said]
  <2>1. DOMAIN q = {"said"} /\ q.said = said
    OBVIOUS
  <2> HIDE DEF q, kept, said
  <2>2. /\ DOMAIN Overlay(kept, q) = DOMAIN kept \cup DOMAIN q
        /\ \A c \in DOMAIN kept : Overlay(kept, q)[c] = kept[c]
        /\ \A c \in DOMAIN q : c \notin DOMAIN kept => Overlay(kept, q)[c] = q[c]
    BY OverlayFacts
  <2>3. end = Overlay(kept, q)
    BY DEF q
  <2> HIDE DEF end
  <2> QED BY <1>4, <2>1, <2>2, <2>3
<1>6. /\ record.usage = kept.usage /\ record.said = said /\ record.outcome = kept.outcome
      /\ record.id = x.id /\ record.started = x.started
      /\ record.kind = x.kind /\ record.endpoint = x.endpoint /\ record.method = x.method
  <2> HIDE DEF end, kept, said
  <2>1. /\ DOMAIN record = DOMAIN x \cup DOMAIN end
        /\ \A c \in DOMAIN x : record[c] = x[c]
        /\ \A c \in DOMAIN end : c \notin DOMAIN x => record[c] = end[c]
    BY OverlayFacts
  <2> HIDE DEF record
  <2> QED BY <1>4, <1>5, <2>1 DEF OpenCall
<1> HIDE DEF record, kept, said
<1>7. RecordedCall(p, record)
  BY <1>3, <1>4, <1>6 DEF RecordedCall, OpenCall
<1> QED BY <1>6, <1>7 DEF record, kept, said

(* The calls that agents make are recorded so, one after the other.          *)
LEMMA TrafficInvHolds == TrafficSpec => []TrafficInv
<1>1. TrafficInit => TrafficInv
  <2> SUFFICES ASSUME NEW m \in Mixes,
                      traffic = [mix |-> m, talks |-> [c \in m.conversations |-> NewTalk], open |-> {},
                                 capture |-> <<>>, made |-> 0, failures |-> 0]
               PROVE  TrafficInv
    BY DEF TrafficInit
  <2>1. DOMAIN <<>> = {} /\ <<>> \in Seq({})
    OBVIOUS
  <2>2. IsSequence(<<>>)
    BY <2>1 DEF IsSequence
  <2>3. /\ DOMAIN traffic = {"mix", "talks", "open", "capture", "made", "failures"}
        /\ traffic.mix = m /\ traffic.open = {} /\ traffic.capture = <<>>
    OBVIOUS
  <2> QED BY <2>1, <2>2, <2>3 DEF TrafficInv
<1>2. TrafficInv /\ [TrafficNext]_traffic => TrafficInv'
  <2> SUFFICES ASSUME TrafficInv, [TrafficNext]_traffic PROVE TrafficInv'
    OBVIOUS
  <2> DEFINE p == traffic.mix.protocol
  <2>1. /\ DOMAIN traffic = {"mix", "talks", "open", "capture", "made", "failures"}
        /\ traffic.mix \in Mixes /\ IsSequence(traffic.capture)
        /\ \A x \in traffic.open : OpenCall(p, x)
        /\ \A i \in DOMAIN traffic.capture : RecordedCall(p, traffic.capture[i])
    BY DEF TrafficInv
  <2>2. ASSUME NEW c, NEW endpoint, NEW method, NEW body,
               DOMAIN traffic' = DOMAIN traffic, traffic'.mix = traffic.mix,
               traffic'.capture = traffic.capture,
               traffic'.open = traffic.open \cup {Begun(c, endpoint, method, body)}
        PROVE  TrafficInv'
    BY <2>1, <2>2, BegunIsOpen DEF TrafficInv
  <2>3. ASSUME NEW c, NEW talk, traffic' = Sent(c, talk)
        PROVE  TrafficInv'
    <3>1. /\ DOMAIN traffic' = DOMAIN traffic /\ traffic'.mix = traffic.mix
          /\ traffic'.capture = traffic.capture
          /\ traffic'.open = traffic.open \cup {Begun(c, "model", "POST", Body(talk))}
      BY <2>1, <2>3 DEF Sent
    <3> QED BY <2>2, <3>1
  <2>4. ASSUME NEW c, Ask(c) PROVE TrafficInv'
    BY <2>3, <2>4 DEF Ask
  <2>5. ASSUME NEW c, Retry(c) PROVE TrafficInv'
    BY <2>3, <2>5 DEF Retry
  <2>6. ASSUME NEW c, Compact(c) PROVE TrafficInv'
    <3>1. /\ DOMAIN traffic' = DOMAIN traffic /\ traffic'.mix = traffic.mix
          /\ traffic'.capture = traffic.capture /\ traffic'.open = traffic.open
      BY <2>1, <2>6 DEF Compact
    <3> QED BY <2>1, <3>1 DEF TrafficInv
  <2>7. ASSUME NEW endpoint, NEW method, OtherRequest(endpoint, method) PROVE TrafficInv'
    <3>1. /\ DOMAIN traffic' = DOMAIN traffic /\ traffic'.mix = traffic.mix
          /\ traffic'.capture = traffic.capture
          /\ traffic'.open = traffic.open \cup {Begun("", endpoint, method, Body(NewTalk))}
      BY <2>1, <2>7 DEF OtherRequest
    <3> QED BY <2>2, <3>1
  <2>8. ASSUME NEW x \in traffic.open, NEW answer, answer \in traffic.mix.answers \/ answer = NotModel,
               End(x, answer)
        PROVE  TrafficInv'
    <3> DEFINE record == Overlay(x, Overlay(Kept(x, answer), [said |-> Said(answer)]))
    <3>1. RecordedCall(p, record)
      BY <2>1, <2>8, EndIsRecorded
    <3>2. /\ DOMAIN traffic' = DOMAIN traffic /\ traffic'.mix = traffic.mix
          /\ traffic'.open = traffic.open \ {x}
          /\ traffic'.capture = Append(traffic.capture, record) \/ traffic'.capture = traffic.capture
      BY <2>1, <2>8 DEF End
    <3> HIDE DEF record
    <3> DEFINE old == traffic.capture
    <3>3. /\ IsSequence(traffic'.capture)
          /\ \A i \in DOMAIN traffic'.capture : RecordedCall(p, traffic'.capture[i])
      <4>1. CASE traffic'.capture = old
        BY <2>1, <4>1
      <4>2. CASE traffic'.capture = Append(old, record)
        <5> HIDE DEF old
        <5>1. IsSequence(old) /\ \A i \in DOMAIN old : RecordedCall(p, old[i])
          BY <2>1 DEF old
        <5>2. /\ IsSequence(Append(old, record))
              /\ DOMAIN Append(old, record) = DOMAIN old \cup {Len(old) + 1}
              /\ \A i \in DOMAIN old : Append(old, record)[i] = old[i]
              /\ Append(old, record)[Len(old) + 1] = record
          BY <5>1, AppendSequence
        <5> QED BY <3>1, <4>2, <5>1, <5>2
      <4> QED BY <3>2, <4>1, <4>2
    <3> QED BY <2>1, <3>2, <3>3 DEF TrafficInv
  <2>9. CASE UNCHANGED traffic
    BY <2>1, <2>9 DEF TrafficInv
  <2> QED BY <2>4, <2>5, <2>6, <2>7, <2>8, <2>9 DEF TrafficNext
<1> QED BY <1>1, <1>2, PTL DEF TrafficSpec

-----------------------------------------------------------------------------
(* Reports. *)

LEMMA CaptureIsFinite ==
    ASSUME TrafficInv
    PROVE  IsFiniteSet(DOMAIN Capture) /\ IsFiniteSet(ModelCalls)
<1>1. DOMAIN Capture = 1..Len(Capture) /\ Len(Capture) \in Nat
  BY SequenceFacts DEF TrafficInv, Capture
<1>2. IsFiniteSet(DOMAIN Capture)
  BY <1>1, FS_Interval
<1> QED BY <1>2, FS_Subset DEF ModelCalls

(* What is known of the usage of a call for the model.                      *)
LEMMA CallFacts ==
    ASSUME TrafficInv, NEW i \in DOMAIN Capture
    PROVE  /\ traffic.mix.protocol \in Protocols
           /\ RecordedCall(traffic.mix.protocol, Capture[i])
           /\ Capture[i].kind = "model" <=> IsChainModelCall(Capture[i])
<1>1. traffic.mix.protocol \in Protocols /\ RecordedCall(traffic.mix.protocol, Capture[i])
  BY TrafficAssumption DEF TrafficInv, Mix, Capture
<1>2. Capture[i].kind = RequestKind(Capture[i].endpoint, Capture[i].method)
  BY <1>1 DEF RecordedCall
<1>3. Capture[i].kind = "model" <=> IsChainModelCall(Capture[i])
  BY <1>2 DEF RequestKind, IsChainModelCall
<1> QED BY <1>1, <1>3

(* The usages whose account is that of all calls.                           *)
Usages == [i \in ModelCalls |-> Capture[i].usage]

LEMMA AllAccounted == AccountProfile(Capture, traffic.failures).observed.account = AccountOf(Usages)
<1> DEFINE C == Capture
<1> DEFINE all == {C[i].id : i \in DOMAIN C}
<1>1. AccountProfile(C, traffic.failures).observed.account = Accounted(C, all)
  BY DEF AccountProfile, Finalized
<1>2. {i \in DOMAIN C : IsChainModelCall(C[i]) /\ C[i].id \in all} = ModelCalls
  BY DEF ModelCalls
<1>3. Accounted(C, all) = AccountOf([i \in ModelCalls |-> C[i].usage])
  BY <1>2 DEF Accounted
<1> QED BY <1>1, <1>3 DEF Usages

(* A usage of a schema's own counts, of which the input and the output are   *)
(* counted, has both.                                                       *)
LEMMA CountedWasSaid ==
    ASSUME NEW p \in Protocols, NEW u, NEW said, Reported(p, u, said)
    PROVE  /\ "freshInput" \in AccountedFields(u) => KnownSource(u) /\ "input" \in DOMAIN said
           /\ "output" \in AccountedFields(u) => "output" \in DOMAIN said
<1>1. /\ u.source \in {"", p} /\ (u.source = "" => DOMAIN u.counts = {})
      /\ DOMAIN u.counts \subseteq DOMAIN said /\ DOMAIN said \subseteq CountsOf(p)
  BY DEF Reported
<1>2. "totalInput" \notin DOMAIN u.counts
  BY <1>1 DEF CountsOf
<1>3. "output" \in AccountedFields(u) => Has(u, "output")
  BY DEF AccountedFields, OutputFields, TotalField, AnthropicInput
<1>4. "freshInput" \in AccountedFields(u) => u.source \in Protocols /\ Has(u, "input")
  <2> SUFFICES ASSUME "freshInput" \in AccountedFields(u) PROVE u.source \in Protocols /\ Has(u, "input")
    OBVIOUS
  <2>1. "freshInput" \notin OutputFields(u) /\ "freshInput" \notin TotalField(u)
    BY DEF OutputFields, TotalField
  <2>2. CASE u.source = "anthropic_messages"
    <3>1. "freshInput" \in AnthropicInput(u)
      BY <2>1, <2>2 DEF AccountedFields
    <3> QED BY <2>2, <3>1 DEF AnthropicInput, Protocols
  <2>3. CASE u.source = "openai_responses"
    <3>1. HasInput(u)
      BY <2>1, <2>3 DEF AccountedFields
    <3> QED BY <1>2, <2>3, <3>1 DEF HasInput, Has, Protocols
  <2>4. CASE u.source \notin Protocols
    BY <2>1, <2>4 DEF AccountedFields, Protocols
  <2> QED BY <2>2, <2>3, <2>4 DEF Protocols
<1> QED BY <1>1, <1>3, <1>4 DEF Has, KnownSource

(* A report that says complete has every call that was recorded, with its    *)
(* input and its output.                                                    *)
LEMMA CompleteIsOfEveryCall == TrafficInv => CompleteAccountsEveryCall
<1> SUFFICES ASSUME TrafficInv, AccountProfile(Capture, traffic.failures).completeness = "complete"
             PROVE  /\ traffic.failures = 0
                    /\ \A i \in ModelCalls :
                         /\ Capture[i].outcome # "stream_truncated"
                         /\ KnownSource(Capture[i].usage)
                         /\ {"input", "output"} \subseteq DOMAIN Capture[i].said
  BY DEF CompleteAccountsEveryCall
<1> DEFINE C == Capture
<1> DEFINE D == DOMAIN C
<1> DEFINE account == AccountOf(Usages)
<1> DEFINE models == Cardinality({i \in D : C[i].kind = "model"})
<1>1. /\ traffic.failures = 0
      /\ Cardinality({i \in D : C[i].outcome = "stream_truncated"}) = 0
      /\ AccountProfile(C, traffic.failures).observed.complete
  BY DEF AccountProfile
<1>2. AccountProfile(C, traffic.failures).observed =
        Finalized(AccountProfile(C, traffic.failures).observed.account, models)
  BY DEF AccountProfile, Finalized
<1>3. Finalized(account, models).complete
  BY <1>1, <1>2, AllAccounted
<1>4. {i \in D : C[i].kind = "model"} = ModelCalls
  BY CallFacts DEF ModelCalls
<1>5. models = Cardinality(ModelCalls)
  BY <1>4
<1>6. IsFiniteSet(D) /\ IsFiniteSet(ModelCalls) /\ Cardinality(ModelCalls) \in Nat
  BY CaptureIsFinite, FS_CardinalityType
<1>7. \A i \in D : C[i].outcome # "stream_truncated"
  <2> DEFINE S == {i \in D : C[i].outcome = "stream_truncated"}
  <2>1. IsFiniteSet(S)
    BY <1>6, FS_Subset
  <2>2. S = {}
    BY <1>1, <2>1, FS_EmptySet
  <2> QED BY <2>2
<1> DEFINE Of(f) == {i \in {i \in DOMAIN Usages : HasUsage(Usages[i])} : f \in AccountedFields(Usages[i])}
<1>8. ASSUME NEW f \in UsageFields, ModelCalls # {}, account.count[f] >= models
      PROVE  Of(f) = ModelCalls
  <2>1. Of(f) \subseteq ModelCalls
    BY DEF Usages
  <2>2. account.count[f] = Cardinality(Of(f))
    BY DEF AccountOf
  <2> HIDE DEF Of, account, models
  <2>3. /\ Cardinality(Of(f)) \in Nat /\ Cardinality(Of(f)) <= Cardinality(ModelCalls)
        /\ Cardinality(Of(f)) = Cardinality(ModelCalls) => Of(f) = ModelCalls
    BY <1>6, <2>1, FS_Subset, FS_CardinalityType
  <2> QED BY <1>5, <1>6, <1>8, <2>2, <2>3
<1>9. ASSUME NEW i \in ModelCalls
      PROVE  KnownSource(C[i].usage) /\ {"input", "output"} \subseteq DOMAIN C[i].said
  <2>1. models # 0
    <3> HIDE DEF models
    <3> QED BY <1>5, <1>6, <1>9, FS_EmptySet
  <2>2. account.count["freshInput"] >= models /\ account.count["output"] >= models
    <3> HIDE DEF account, models
    <3> QED BY <1>3, <2>1 DEF Finalized
  <2>3. i \in Of("freshInput") /\ i \in Of("output")
    <3> HIDE DEF account, models, Of
    <3> QED BY <1>8, <1>9, <2>2 DEF UsageFields
  <2>4. "freshInput" \in AccountedFields(C[i].usage) /\ "output" \in AccountedFields(C[i].usage)
    BY <2>3 DEF Usages
  <2>5. traffic.mix.protocol \in Protocols /\ Reported(traffic.mix.protocol, C[i].usage, C[i].said)
    BY CallFacts DEF ModelCalls, RecordedCall
  <2> HIDE DEF C
  <2> QED BY <2>4, <2>5, CountedWasSaid
<1>10. ModelCalls \subseteq D
  BY DEF ModelCalls
<1> QED BY <1>1, <1>7, <1>9, <1>10

(* CompleteAccountsEveryCall, for every mix of conversations and whatever     *)
(* answers, truncated streams and failing records they meet                 *)
(* (internal/gateway/profile_accounting.go:181): a field counts as often as   *)
(* there are calls only when it is each call's.                             *)
THEOREM CompleteReportsAreOfEveryCall == TrafficSpec => []CompleteAccountsEveryCall
<1>1. TrafficSpec => []TrafficInv
  BY TrafficInvHolds
<1>2. TrafficInv => CompleteAccountsEveryCall
  BY CompleteIsOfEveryCall
<1> QED BY <1>1, <1>2, PTL

-----------------------------------------------------------------------------
(* What `inspect` observes. *)

Sum(u) == IF Has(u, "input") THEN Count(u, "input") + Count(u, "read") + Count(u, "creation")
          ELSE Count(u, "totalInput")
Whole(u) == Count(u, IF Has(u, "totalInput") THEN "totalInput" ELSE "input")

LEMMA ObservedValues ==
    ASSUME NEW u, NEW o, o = ObservedUsage(u)
    PROVE  /\ o["output"] = Count(u, "output") /\ o["reasoning"] = Count(u, "reasoning")
           /\ u.source = "anthropic_messages" =>
                /\ o["freshInput"] = Count(u, "input") /\ o["cachedInput"] = Count(u, "read")
                /\ o["cacheCreation"] = Count(u, "creation") /\ o["totalInput"] = Sum(u)
                /\ o["total"] = Sum(u) + Count(u, "output")
           /\ u.source = "openai_responses" =>
                /\ o["freshInput"] = Positive(Whole(u) - Count(u, "read"))
                /\ o["cachedInput"] = Count(u, "read") /\ o["cacheCreation"] = 0
                /\ o["totalInput"] = Whole(u)
                /\ o["total"] = IF Has(u, "total") THEN Count(u, "total") ELSE Whole(u) + Count(u, "output")
           /\ u.source = "" =>
                /\ o["freshInput"] = 0 /\ o["cachedInput"] = 0 /\ o["cacheCreation"] = 0
                /\ o["totalInput"] = Count(u, "totalInput") /\ o["total"] = Count(u, "total")
<1> DEFINE fixed == [output |-> Count(u, "output"), reasoning |-> Count(u, "reasoning")]
<1> DEFINE anthropic ==
      [freshInput |-> Count(u, "input"), cachedInput |-> Count(u, "read"),
       cacheCreation |-> Count(u, "creation"), totalInput |-> Sum(u),
       total |-> Sum(u) + Count(u, "output")]
<1> DEFINE openai ==
      [freshInput |-> Positive(Whole(u) - Count(u, "read")), cachedInput |-> Count(u, "read"),
       cacheCreation |-> 0, totalInput |-> Whole(u),
       total |-> IF Has(u, "total") THEN Count(u, "total") ELSE Whole(u) + Count(u, "output")]
<1> DEFINE other ==
      [freshInput |-> 0, cachedInput |-> 0, cacheCreation |-> 0,
       totalInput |-> Count(u, "totalInput"), total |-> Count(u, "total")]
<1> DEFINE read == CASE u.source = "anthropic_messages" -> anthropic
                     [] u.source = "openai_responses" -> openai
                     [] OTHER -> other
<1>1. o = Overlay(fixed, read)
  BY DEF ObservedUsage, Sum, Whole
<1>2. /\ DOMAIN fixed = {"output", "reasoning"}
      /\ fixed["output"] = Count(u, "output") /\ fixed["reasoning"] = Count(u, "reasoning")
  OBVIOUS
<1>3. /\ u.source = "anthropic_messages" => read = anthropic
      /\ u.source = "openai_responses" => read = openai
      /\ u.source = "" => read = other
  <2> HIDE DEF anthropic, openai, other
  <2> QED OBVIOUS
<1> HIDE DEF fixed, read
<1>4. /\ \A c \in DOMAIN fixed : Overlay(fixed, read)[c] = fixed[c]
      /\ \A c \in DOMAIN read : c \notin DOMAIN fixed => Overlay(fixed, read)[c] = read[c]
  BY OverlayFacts
<1>5. o["output"] = Count(u, "output") /\ o["reasoning"] = Count(u, "reasoning")
  BY <1>1, <1>2, <1>4
<1> DEFINE F == {"freshInput", "cachedInput", "cacheCreation", "totalInput", "total"}
<1>6. ASSUME DOMAIN read = F PROVE \A c \in F : o[c] = read[c]
  <2>1. \A c \in F : c \notin DOMAIN fixed
    BY <1>2
  <2> HIDE DEF F
  <2> QED BY <1>1, <1>4, <1>6, <2>1
<1>7. ASSUME u.source = "anthropic_messages"
      PROVE  /\ o["freshInput"] = Count(u, "input") /\ o["cachedInput"] = Count(u, "read")
             /\ o["cacheCreation"] = Count(u, "creation") /\ o["totalInput"] = Sum(u)
             /\ o["total"] = Sum(u) + Count(u, "output")
  <2>1. read = anthropic
    BY <1>3, <1>7
  <2>2. DOMAIN read = F
    BY <2>1
  <2>3. \A c \in F : o[c] = anthropic[c]
    BY <1>6, <2>1, <2>2
  <2> QED BY <2>3
<1>8. ASSUME u.source = "openai_responses"
      PROVE  /\ o["freshInput"] = Positive(Whole(u) - Count(u, "read"))
             /\ o["cachedInput"] = Count(u, "read") /\ o["cacheCreation"] = 0
             /\ o["totalInput"] = Whole(u)
             /\ o["total"] = IF Has(u, "total") THEN Count(u, "total") ELSE Whole(u) + Count(u, "output")
  <2>1. read = openai
    BY <1>3, <1>8
  <2>2. DOMAIN read = F
    BY <2>1
  <2>3. \A c \in F : o[c] = openai[c]
    BY <1>6, <2>1, <2>2
  <2> QED BY <2>3
<1>9. ASSUME u.source = ""
      PROVE  /\ o["freshInput"] = 0 /\ o["cachedInput"] = 0 /\ o["cacheCreation"] = 0
             /\ o["totalInput"] = Count(u, "totalInput") /\ o["total"] = Count(u, "total")
  <2>1. read = other
    BY <1>3, <1>9
  <2>2. DOMAIN read = F
    BY <2>1
  <2>3. \A c \in F : o[c] = other[c]
    BY <1>6, <2>1, <2>2
  <2> QED BY <2>3
<1> QED BY <1>5, <1>7, <1>8, <1>9

(* A usage all of which was said, in a schema where the cached tokens come    *)
(* with the input's.                                                        *)
AllSaid(p, u, said) ==
    /\ Reported(p, u, said) /\ Exactly(u, said)
    /\ p = "openai_responses" => CachedOfInput(said)

LEMMA ToldFacts ==
    ASSUME NEW p \in Protocols, NEW u, NEW said, AllSaid(p, u, said)
    PROVE  /\ u.source \in {"", p} /\ (u.source = "" => DOMAIN said = {})
           /\ DOMAIN u.counts = DOMAIN said /\ DOMAIN said \subseteq CountsOf(p)
           /\ \A c : Has(u, c) <=> c \in DOMAIN said
           /\ \A c \in DOMAIN said : Count(u, c) = said[c]
           /\ \A c : Count(u, c) \in Int
           /\ ~ Has(u, "totalInput")
           /\ p = "openai_responses" /\ Has(u, "read") => Has(u, "input")
<1>1. /\ u.source \in {"", p} /\ (u.source = "" => DOMAIN u.counts = {})
      /\ DOMAIN u.counts \subseteq DOMAIN said /\ DOMAIN said \subseteq CountsOf(p)
      /\ \A c \in DOMAIN said : said[c] \in Int
      /\ DOMAIN said \subseteq DOMAIN u.counts /\ \A c \in DOMAIN u.counts : u.counts[c] = said[c]
      /\ p = "openai_responses" => CachedOfInput(said)
  BY DEF AllSaid, Reported, Exactly
<1>2. DOMAIN u.counts = DOMAIN said
  BY <1>1
<1>3. \A c : Has(u, c) <=> c \in DOMAIN said
  BY <1>2 DEF Has
<1>4. \A c \in DOMAIN said : Count(u, c) = said[c]
  BY <1>1, <1>2, <1>3 DEF Count
<1>5. \A c : Count(u, c) \in Int
  <2> SUFFICES ASSUME NEW c PROVE Count(u, c) \in Int
    OBVIOUS
  <2>1. CASE c \in DOMAIN said
    BY <1>1, <1>4, <2>1
  <2>2. CASE c \notin DOMAIN said
    BY <1>3, <2>2 DEF Count
  <2> QED BY <2>1, <2>2
<1>6. "totalInput" \notin CountsOf(p)
  BY DEF CountsOf
<1> QED BY <1>1, <1>2, <1>3, <1>4, <1>5, <1>6 DEF CachedOfInput

(* The account and the observation read the same fields, as the same numbers. *)
LEMMA SameReading ==
    ASSUME NEW p \in Protocols, NEW u, NEW said, AllSaid(p, u, said), NEW f \in UsageFields
    PROVE  /\ f \in ObservationFields(u) <=> f \in AccountedFields(u)
           /\ f \in AccountedFields(u) => HasUsage(u)
           /\ FieldKind(u, f) \in {"measured", "derived"}
           /\ ObservationUsage(u)[f] = IF f \in AccountedFields(u)
                                       THEN Measured(AccountedValue(u, f), FieldKind(u, f))
                                       ELSE NoMeasurement
           /\ AccountedValue(u, f) \in Int
<1>1. /\ u.source \in {"", p} /\ (u.source = "" => DOMAIN said = {})
      /\ DOMAIN u.counts = DOMAIN said
      /\ \A c : Has(u, c) <=> c \in DOMAIN said
      /\ \A c : Count(u, c) \in Int
      /\ ~ Has(u, "totalInput")
      /\ p = "openai_responses" /\ Has(u, "read") => Has(u, "input")
  BY ToldFacts
<1>2. p = "anthropic_messages" \/ p = "openai_responses"
  BY DEF Protocols
<1>3. FieldKind(u, f) \in {"measured", "derived"}
  BY DEF FieldKind
<1>4. f \in OutputFields(u) \/ f \in TotalField(u) => HasUsage(u)
  <2>1. f \in OutputFields(u) => HasUsage(u)
    BY <1>1 DEF OutputFields, HasUsage
  <2>2. f \in TotalField(u) => HasUsage(u)
    BY <1>1 DEF TotalField, DerivedTotal, HasUsage
  <2> QED BY <2>1, <2>2
<1>5. f \in AnthropicInput(u) => HasUsage(u)
  <2>1. f \in AnthropicInput(u) => Has(u, "input") \/ Has(u, "read") \/ Has(u, "creation")
    BY <1>1 DEF AnthropicInput, HasInput
  <2> QED BY <1>1, <2>1 DEF HasUsage
<1>6. /\ f \in ObservationFields(u) <=> f \in AccountedFields(u)
      /\ f \in AccountedFields(u) => HasUsage(u)
  <2>1. CASE u.source = "anthropic_messages"
    <3>1. /\ f \in ObservationFields(u) <=> f \in OutputFields(u) \/ f \in AnthropicInput(u) \/ f \in TotalField(u)
          /\ f \in AccountedFields(u) <=> f \in OutputFields(u) \/ f \in TotalField(u) \/ f \in AnthropicInput(u)
      BY <2>1 DEF ObservationFields, AccountedFields
    <3> QED BY <1>4, <1>5, <3>1
  <2>2. CASE u.source = "openai_responses"
    <3> DEFINE A == IF ~ HasInput(u) THEN {}
                    ELSE {"totalInput"} \cup (IF Has(u, "read") THEN {"cachedInput", "freshInput"} ELSE {})
    <3> DEFINE B == {g \in {"totalInput", "cachedInput", "freshInput"} :
                       /\ g # "cachedInput" => HasInput(u)
                       /\ g # "totalInput" => Has(u, "read")}
    <3>1. /\ f \in ObservationFields(u) <=> f \in OutputFields(u) \/ f \in TotalField(u) \/ f \in B
          /\ f \in AccountedFields(u) <=> f \in OutputFields(u) \/ f \in TotalField(u) \/ f \in A
      BY <2>2 DEF ObservationFields, AccountedFields
    <3>2. p = "openai_responses" /\ (HasInput(u) <=> Has(u, "input"))
      BY <1>1, <2>2 DEF HasInput
    <3>3. A = B /\ (f \in A => Has(u, "input"))
      BY <1>1, <3>2
    <3>4. Has(u, "input") => HasUsage(u)
      BY <1>1 DEF HasUsage
    <3> QED BY <1>4, <3>1, <3>3, <3>4
  <2>3. CASE u.source = ""
    <3>1. \A c : ~ Has(u, c)
      BY <1>1, <2>3
    <3>2. f \notin OutputFields(u) /\ f \notin TotalField(u) /\ DOMAIN u.counts = {}
      BY <1>1, <2>3, <3>1 DEF OutputFields, TotalField, DerivedTotal
    <3> QED BY <2>3, <3>2 DEF ObservationFields, AccountedFields
  <2> QED BY <1>1, <1>2, <2>1, <2>2, <2>3
<1>7. ObservationUsage(u)[f] = IF f \in AccountedFields(u)
                               THEN Measured(AccountedValue(u, f), FieldKind(u, f))
                               ELSE NoMeasurement
  BY <1>1, <1>6 DEF ObservationUsage, AccountedValue
<1>8. AccountedValue(u, f) \in Int
  <2> DEFINE o == ObservedUsage(u)
  <2>0. /\ Count(u, "input") \in Int /\ Count(u, "read") \in Int /\ Count(u, "creation") \in Int
        /\ Count(u, "output") \in Int /\ Count(u, "reasoning") \in Int
        /\ Count(u, "totalInput") \in Int /\ Count(u, "total") \in Int
    BY <1>1
  <2>1. Sum(u) \in Int /\ Whole(u) \in Int
    BY <2>0 DEF Sum, Whole
  <2>2. \A n \in Int : Positive(n) \in Int
    BY DEF Positive
  <2>3. Positive(Whole(u) - Count(u, "read")) \in Int
    <3> DEFINE a == Whole(u)
    <3> DEFINE b == Count(u, "read")
    <3>1. a \in Int /\ b \in Int
      BY <2>0, <2>1
    <3> HIDE DEF a, b
    <3>2. a - b \in Int
      BY <3>1
    <3>3. Positive(a - b) \in Int
      BY <2>2, <3>2
    <3> QED BY <3>3 DEF a, b
  <2>4. u.source \in {"anthropic_messages", "openai_responses", ""}
    BY <1>1, <1>2
  <2> HIDE DEF o
  <2>5. /\ o["output"] \in Int /\ o["reasoning"] \in Int /\ o["freshInput"] \in Int
        /\ o["cachedInput"] \in Int /\ o["cacheCreation"] \in Int /\ o["totalInput"] \in Int
        /\ o["total"] \in Int
    <3>1. /\ o["output"] = Count(u, "output") /\ o["reasoning"] = Count(u, "reasoning")
          /\ u.source = "anthropic_messages" =>
               /\ o["freshInput"] = Count(u, "input") /\ o["cachedInput"] = Count(u, "read")
               /\ o["cacheCreation"] = Count(u, "creation") /\ o["totalInput"] = Sum(u)
               /\ o["total"] = Sum(u) + Count(u, "output")
          /\ u.source = "openai_responses" =>
               /\ o["freshInput"] = Positive(Whole(u) - Count(u, "read"))
               /\ o["cachedInput"] = Count(u, "read") /\ o["cacheCreation"] = 0
               /\ o["totalInput"] = Whole(u)
               /\ o["total"] = IF Has(u, "total") THEN Count(u, "total") ELSE Whole(u) + Count(u, "output")
          /\ u.source = "" =>
               /\ o["freshInput"] = 0 /\ o["cachedInput"] = 0 /\ o["cacheCreation"] = 0
               /\ o["totalInput"] = Count(u, "totalInput") /\ o["total"] = Count(u, "total")
      BY ObservedValues DEF o
    <3>2. CASE u.source = "anthropic_messages"
      BY <2>0, <2>1, <3>1, <3>2
    <3>3. CASE u.source = "openai_responses"
      BY <2>0, <2>1, <2>3, <3>1, <3>3
    <3>4. CASE u.source = ""
      <4>1. o["freshInput"] = 0 /\ o["cachedInput"] = 0 /\ o["cacheCreation"] = 0
        BY <3>1, <3>4
      <4>2. o["freshInput"] \in Int /\ o["cachedInput"] \in Int /\ o["cacheCreation"] \in Int
        BY <4>1
      <4>3. /\ o["totalInput"] = Count(u, "totalInput") /\ o["total"] = Count(u, "total")
            /\ o["output"] = Count(u, "output") /\ o["reasoning"] = Count(u, "reasoning")
        BY <3>1, <3>4
      <4>4. /\ o["totalInput"] \in Int /\ o["total"] \in Int
            /\ o["output"] \in Int /\ o["reasoning"] \in Int
        BY <2>0, <4>3
      <4> QED BY <4>2, <4>4
    <3> QED BY <2>4, <3>2, <3>3, <3>4
  <2>6. o[f] \in Int
    BY <2>5 DEF UsageFields
  <2>7. o.total \in Int
    BY <2>5
  <2> QED BY <2>0, <2>6, <2>7 DEF AccountedValue, ToldTotal, o
<1> QED BY <1>3, <1>6, <1>7, <1>8

(* A counter that was said is observed as it was said, and no other is.      *)
LEMMA SaidIsObserved ==
    ASSUME NEW p \in Protocols, NEW u, NEW said, AllSaid(p, u, said), NEW f \in DOMAIN Canonical(p)
    PROVE  /\ f \in UsageFields
           /\ IF Canonical(p)[f] \in DOMAIN said
              THEN ObservationUsage(u)[f] = Measured(said[Canonical(p)[f]], "measured")
              ELSE f # "total" => ~ Available(ObservationUsage(u)[f])
<1> DEFINE c == Canonical(p)[f]
<1> DEFINE o == ObservedUsage(u)
<1>1. /\ u.source \in {"", p} /\ (u.source = "" => DOMAIN said = {})
      /\ \A k : Has(u, k) <=> k \in DOMAIN said
      /\ \A k \in DOMAIN said : Count(u, k) = said[k]
      /\ ~ Has(u, "totalInput")
      /\ p = "openai_responses" /\ Has(u, "read") => Has(u, "input")
  BY ToldFacts
<1>2. /\ p = "anthropic_messages" =>
           \/ f = "freshInput" /\ c = "input"
           \/ f = "cachedInput" /\ c = "read"
           \/ f = "cacheCreation" /\ c = "creation"
           \/ f = "output" /\ c = "output"
      /\ p = "openai_responses" =>
           \/ f = "totalInput" /\ c = "input"
           \/ f = "cachedInput" /\ c = "read"
           \/ f = "output" /\ c = "output"
           \/ f = "reasoning" /\ c = "reasoning"
           \/ f = "total" /\ c = "total"
  <2>1. CASE p = "anthropic_messages"
    BY <2>1 DEF Canonical
  <2>2. CASE p = "openai_responses"
    BY <2>2 DEF Canonical
  <2> QED BY <2>1, <2>2 DEF Protocols
<1>3. p = "anthropic_messages" \/ p = "openai_responses"
  BY DEF Protocols
<1> HIDE DEF c
<1>4. f \in UsageFields
  BY <1>2, <1>3 DEF UsageFields
<1>5. ObservationUsage(u)[f] = IF f \in AccountedFields(u)
                               THEN Measured(AccountedValue(u, f), FieldKind(u, f))
                               ELSE NoMeasurement
  BY <1>4, SameReading
<1>6. ~ Available(NoMeasurement)
  BY DEF Available, NoMeasurement
<1>7. CASE u.source = ""
  <2>1. ~ Has(u, "output") /\ ~ Has(u, "reasoning") /\ ~ Has(u, "total") /\ ~ Has(u, "totalInput")
    BY <1>1, <1>7
  <2>2. f \notin AccountedFields(u)
    BY <1>7, <2>1 DEF AccountedFields, OutputFields, TotalField, DerivedTotal, KnownSource, Protocols, Has
  <2>3. c \notin DOMAIN said
    BY <1>1, <1>7
  <2> QED BY <1>4, <1>5, <1>6, <2>2, <2>3 DEF c
<1>8. CASE u.source = "anthropic_messages"
  <2>1. p = "anthropic_messages"
    BY <1>1, <1>8
  <2>2. f \in AccountedFields(u) <=> Has(u, c)
    <3>1. f \in AccountedFields(u) <=> f \in OutputFields(u) \/ f \in TotalField(u) \/ f \in AnthropicInput(u)
      BY <1>8 DEF AccountedFields
    <3>2. f \notin TotalField(u)
      BY <1>2, <2>1 DEF TotalField
    <3>3. CASE f = "output"
      <4>1. c = "output"
        BY <1>2, <2>1, <3>3
      <4> QED BY <3>1, <3>2, <3>3, <4>1 DEF OutputFields, AnthropicInput
    <3>4. CASE f # "output"
      <4>1. f \notin OutputFields(u)
        BY <1>2, <2>1, <3>4 DEF OutputFields
      <4>2. f \in AnthropicInput(u) <=> Has(u, c)
        BY <1>2, <2>1, <3>4 DEF AnthropicInput
      <4> QED BY <3>1, <3>2, <4>1, <4>2
    <3> QED BY <3>3, <3>4
  <2>3. AccountedValue(u, f) = Count(u, c)
    <3>1. AccountedValue(u, f) = o[f]
      BY <1>2, <2>1 DEF AccountedValue
    <3>2. o[f] = Count(u, c)
      <4> HIDE DEF o
      <4> QED BY <1>2, <1>8, <2>1, ObservedValues DEF o
    <3> QED BY <3>1, <3>2
  <2>4. FieldKind(u, f) = "measured"
    BY <1>2, <1>8, <2>1 DEF FieldKind, KnownSource, Protocols
  <2> QED BY <1>1, <1>4, <1>5, <1>6, <2>2, <2>3, <2>4 DEF c
<1>9. CASE u.source = "openai_responses"
  <2>1. p = "openai_responses"
    BY <1>1, <1>9
  <2>2. f # "total" => (f \in AccountedFields(u) <=> Has(u, c))
    <3> SUFFICES ASSUME f # "total" PROVE f \in AccountedFields(u) <=> Has(u, c)
      OBVIOUS
    <3> DEFINE A == IF ~ HasInput(u) THEN {}
                    ELSE {"totalInput"} \cup (IF Has(u, "read") THEN {"cachedInput", "freshInput"} ELSE {})
    <3>1. f \in AccountedFields(u) <=> f \in OutputFields(u) \/ f \in TotalField(u) \/ f \in A
      BY <1>9 DEF AccountedFields
    <3>2. f \notin TotalField(u)
      BY DEF TotalField
    <3>3. CASE f \in {"output", "reasoning"}
      <4>1. c = f /\ f \notin A
        BY <1>2, <2>1, <3>3
      <4> QED BY <3>1, <3>2, <3>3, <4>1 DEF OutputFields
    <3>4. CASE f \notin {"output", "reasoning"}
      <4>1. f \notin OutputFields(u)
        BY <3>4 DEF OutputFields
      <4>2. f \in A <=> Has(u, c)
        BY <1>1, <1>2, <2>1, <3>4 DEF HasInput
      <4> QED BY <3>1, <3>2, <4>1, <4>2
    <3> QED BY <3>3, <3>4
  <2>3. f = "total" /\ Has(u, c) => f \in AccountedFields(u)
    BY <1>2, <2>1 DEF AccountedFields, TotalField
  <2>4. Has(u, c) => AccountedValue(u, f) = Count(u, c)
    <3> SUFFICES ASSUME Has(u, c) PROVE AccountedValue(u, f) = Count(u, c)
      OBVIOUS
    <3>1. CASE f = "total"
      BY <1>2, <2>1, <3>1 DEF AccountedValue, ToldTotal
    <3>2. CASE f # "total"
      <4>1. AccountedValue(u, f) = o[f]
        BY <3>2 DEF AccountedValue
      <4>2. Whole(u) = Count(u, "input")
        BY <1>1 DEF Whole
      <4>3. o[f] = Count(u, c)
        <5> HIDE DEF o
        <5> QED BY <1>2, <1>9, <2>1, <3>2, <4>2, ObservedValues DEF o
      <4> QED BY <4>1, <4>3
    <3> QED BY <3>1, <3>2
  <2>5. Has(u, c) => FieldKind(u, f) = "measured"
    BY <1>2, <1>9, <2>1 DEF FieldKind, KnownSource, Protocols
  <2> QED BY <1>1, <1>4, <1>5, <1>6, <2>2, <2>3, <2>4, <2>5 DEF c
<1> QED BY <1>1, <1>3, <1>7, <1>8, <1>9

(* The observation that `inspect` makes of a call is one that is valid.      *)
LEMMA ObservationIsValid ==
    ASSUME NEW p \in Protocols, NEW x, AllSaid(p, x.usage, x.said)
    PROVE  /\ ValidObservation(ObservationFromExchange(x))
           /\ ObservationFromExchange(x).usage = ObservationUsage(x.usage)
<1> DEFINE o == ObservationFromExchange(x)
<1> DEFINE u == x.usage
<1>1. /\ o.finished = 0 /\ o.usage = ObservationUsage(u)
      /\ o.outcome = ObservationOutcome(x.outcome) /\ o.completeness = CallCompleteness(x.outcome, u)
  BY DEF ObservationFromExchange
<1>2. ObservationOutcome(x.outcome) \in Outcomes
  BY DEF ObservationOutcome, Outcomes
<1>3. CallCompleteness(x.outcome, u) \in Completeness
  BY DEF CallCompleteness, Completeness
<1>4. ASSUME NEW f \in UsageFields PROVE ValidMeasurement(ObservationUsage(u)[f])
  <2> HIDE DEF u
  <2>1. /\ FieldKind(u, f) \in {"measured", "derived"}
        /\ ObservationUsage(u)[f] = IF f \in AccountedFields(u)
                                    THEN Measured(AccountedValue(u, f), FieldKind(u, f))
                                    ELSE NoMeasurement
    BY SameReading DEF u
  <2> DEFINE m == Measured(AccountedValue(u, f), FieldKind(u, f))
  <2>2. m.kind = FieldKind(u, f) /\ m.has = TRUE
    BY DEF Measured
  <2>3. ValidMeasurement(m)
    <3> HIDE DEF m
    <3> QED BY <2>1, <2>2 DEF ValidMeasurement, Kinds
  <2>4. ValidMeasurement(NoMeasurement)
    BY DEF ValidMeasurement, NoMeasurement, Kinds
  <2> QED BY <2>1, <2>3, <2>4
<1> HIDE DEF o
<1>5. ValidObservation(o)
  BY <1>1, <1>2, <1>3, <1>4 DEF ValidObservation
<1> QED BY <1>1, <1>5 DEF o

LEMMA ModelCallIsSaid ==
    ASSUME TrafficInv, AnswersSayAll, NEW i \in ModelCalls
    PROVE  /\ traffic.mix.protocol \in Protocols
           /\ AllSaid(traffic.mix.protocol, Capture[i].usage, Capture[i].said)
BY CallFacts DEF ModelCalls, RecordedCall, AllSaid

(* What `report` sums up of a field is what `inspect` observes of the calls. *)
Observed == [i \in ModelCalls |-> ObservationFromExchange(Capture[i])]
ObservedCalls(f) == {i \in ModelCalls : Available(Observed[i].usage[f])}
ObservedSum(f) == SumWhere(ModelCalls, LAMBDA i : Observed[i].usage[f].value)

LEMMA ReportedIsObserved ==
    ASSUME TrafficInv, AnswersSayAll, NEW f \in UsageFields
    PROVE  /\ AccountOf(Usages).count[f] = Cardinality(ObservedCalls(f))
           /\ AccountOf(Usages).sum[f] = ObservedSum(f)
<1> DEFINE observed == Observed
<1> DEFINE C == Capture
<1> DEFINE M == ModelCalls
<1> DEFINE Of == {i \in {i \in DOMAIN Usages : HasUsage(Usages[i])} : f \in AccountedFields(Usages[i])}
<1> DEFINE w == [i \in Of |-> AccountedValue(Usages[i], f)]
<1> DEFINE v == [i \in M |-> observed[i].usage[f].value]
<1>1. ASSUME NEW i \in M
      PROVE  /\ i \in Of <=> f \in AccountedFields(C[i].usage)
             /\ AccountedValue(C[i].usage, f) \in Int
             /\ i \in Of => /\ Available(observed[i].usage[f])
                            /\ observed[i].usage[f].value = AccountedValue(Usages[i], f)
             /\ i \notin Of => ~ Available(observed[i].usage[f]) /\ observed[i].usage[f].value = 0
  <2> DEFINE u == C[i].usage
  <2> DEFINE x == C[i]
  <2>1. observed[i].usage = ObservationUsage(u)
    <3>1. observed[i] = ObservationFromExchange(x)
      BY DEF Observed
    <3>2. ObservationFromExchange(x).usage = ObservationUsage(x.usage)
      BY DEF ObservationFromExchange
    <3> QED BY <3>1, <3>2
  <2>2. /\ f \in AccountedFields(u) => HasUsage(u)
        /\ FieldKind(u, f) \in {"measured", "derived"}
        /\ ObservationUsage(u)[f] = IF f \in AccountedFields(u)
                                    THEN Measured(AccountedValue(u, f), FieldKind(u, f))
                                    ELSE NoMeasurement
        /\ AccountedValue(u, f) \in Int
    BY ModelCallIsSaid, SameReading
  <2>3. Usages[i] = u /\ DOMAIN Usages = M
    BY DEF Usages
  <2>4. i \in Of <=> f \in AccountedFields(u)
    BY <2>2, <2>3
  <2> DEFINE m == Measured(AccountedValue(u, f), FieldKind(u, f))
  <2>5. m.value = AccountedValue(u, f) /\ m.kind = FieldKind(u, f) /\ m.has = TRUE
    BY DEF Measured
  <2>6. Available(m)
    <3> HIDE DEF m
    <3> QED BY <2>2, <2>5 DEF Available
  <2>7. ~ Available(NoMeasurement) /\ NoMeasurement.value = 0
    BY DEF Available, NoMeasurement
  <2> HIDE DEF m, u, Of
  <2>8. observed[i].usage[f] = IF i \in Of THEN m ELSE NoMeasurement
    BY <2>1, <2>2, <2>4 DEF m
  <2> QED BY <2>2, <2>3, <2>4, <2>5, <2>6, <2>7, <2>8 DEF u
<1>2. Of = {i \in M : Available(observed[i].usage[f])}
  <2>1. Of \subseteq M
    BY DEF Usages
  <2> HIDE DEF Of
  <2> QED BY <1>1, <2>1
<1>3. AccountOf(Usages).count[f] = Cardinality(Of) /\ AccountOf(Usages).sum[f] = SumFunction(w)
  BY DEF AccountOf
<1>4. SumFunction(w) = SumFunctionOnSet(w, Of)
  <2>1. DOMAIN w = Of
    OBVIOUS
  <2> HIDE DEF w, Of
  <2> QED BY <2>1 DEF SumFunction
<1>5. SumWhere(M, LAMBDA i : observed[i].usage[f].value) = SumFunctionOnSet(v, M)
  <2>1. SumWhere(M, LAMBDA i : observed[i].usage[f].value) = SumFunction(v)
    BY DEF SumWhere
  <2>2. DOMAIN v = M
    OBVIOUS
  <2> HIDE DEF v, M
  <2> QED BY <2>1, <2>2 DEF SumFunction
<1>6. Of \subseteq M
  BY DEF Usages
<1>7. Numbers(v, M) /\ OfPart(w, Of, v, M)
  <2>1. ASSUME NEW i \in M
        PROVE  v[i] \in Int /\ (i \in Of => w[i] = v[i]) /\ (i \notin Of => v[i] = 0)
    <3>1. v[i] = observed[i].usage[f].value /\ (i \in Of => w[i] = AccountedValue(Usages[i], f))
      OBVIOUS
    <3>2. Usages[i] = C[i].usage
      BY DEF Usages
    <3> HIDE DEF v, w, Of
    <3>3. i \in Of => v[i] = w[i]
      BY <1>1, <3>1
    <3>4. i \in Of => v[i] \in Int
      BY <1>1, <3>1, <3>2
    <3>5. i \notin Of => v[i] = 0
      BY <1>1, <3>1
    <3> QED BY <3>3, <3>4, <3>5
  <2> HIDE DEF v, w, Of, M
  <2> QED BY <1>6, <2>1 DEF Numbers, OfPart
<1>8. SumFunctionOnSet(w, Of) = SumFunctionOnSet(v, M)
  <2>1. IsFiniteSet(M)
    BY CaptureIsFinite
  <2> HIDE DEF v, w, Of, M
  <2> QED BY <1>7, <2>1, SumOfPart
<1>9. AccountOf(Usages).count[f] = Cardinality(ObservedCalls(f))
  <2>1. Of = ObservedCalls(f)
    BY <1>2 DEF ObservedCalls
  <2> HIDE DEF Of
  <2> QED BY <1>3, <2>1
<1>10. AccountOf(Usages).sum[f] = ObservedSum(f)
  <2>1. ObservedSum(f) = SumFunctionOnSet(v, M)
    BY <1>5 DEF ObservedSum
  <2> HIDE DEF Of, M, v, w
  <2> QED BY <1>3, <1>4, <1>8, <2>1
<1> QED BY <1>9, <1>10

LEMMA ObservedIsWhatWasSaid == TrafficInv /\ AnswersSayAll => ReportedIsWhatWasSaid
<1> SUFFICES ASSUME TrafficInv, AnswersSayAll PROVE ReportedIsWhatWasSaid
  OBVIOUS
<1> DEFINE observed == [i \in ModelCalls |-> ObservationFromExchange(Capture[i])]
<1> DEFINE of == Canonical(traffic.mix.protocol)
<1> DEFINE reported == AccountProfile(Capture, traffic.failures).observed.account
<1>1. ASSUME NEW i \in ModelCalls
      PROVE  /\ ValidObservation(observed[i])
             /\ \A f \in DOMAIN of :
                  IF of[f] \in DOMAIN Capture[i].said
                  THEN observed[i].usage[f] = Measured(Capture[i].said[of[f]], "measured")
                  ELSE f # "total" => ~ Available(observed[i].usage[f])
  <2> DEFINE x == Capture[i]
  <2>1. traffic.mix.protocol \in Protocols /\ AllSaid(traffic.mix.protocol, x.usage, x.said)
    BY ModelCallIsSaid
  <2>2. observed[i] = ObservationFromExchange(x)
    OBVIOUS
  <2> HIDE DEF x, observed
  <2>3. /\ ValidObservation(observed[i]) /\ observed[i].usage = ObservationUsage(x.usage)
    BY <2>1, <2>2, ObservationIsValid
  <2>4. ASSUME NEW f \in DOMAIN of
        PROVE  IF of[f] \in DOMAIN x.said
               THEN observed[i].usage[f] = Measured(x.said[of[f]], "measured")
               ELSE f # "total" => ~ Available(observed[i].usage[f])
    BY <2>1, <2>3, SaidIsObserved
  <2> QED BY <2>3, <2>4 DEF x
<1>2. ASSUME NEW f \in UsageFields
      PROVE  /\ reported.count[f] = Cardinality({i \in ModelCalls : Available(observed[i].usage[f])})
             /\ reported.sum[f] = SumWhere(ModelCalls, LAMBDA i : observed[i].usage[f].value)
  <2>1. reported = AccountOf(Usages)
    BY AllAccounted
  <2> HIDE DEF reported
  <2>2. reported.count[f] = Cardinality(ObservedCalls(f)) /\ reported.sum[f] = ObservedSum(f)
    BY <2>1, ReportedIsObserved
  <2>3. ObservedCalls(f) = {i \in ModelCalls : Available(observed[i].usage[f])}
    BY DEF ObservedCalls, Observed
  <2>4. ObservedSum(f) = SumWhere(ModelCalls, LAMBDA i : observed[i].usage[f].value)
    BY DEF ObservedSum, Observed
  <2> QED BY <2>2, <2>3, <2>4
<1> QED BY <1>1, <1>2 DEF ReportedIsWhatWasSaid

(* ReportedIsWhatWasSaid, for answers that say their counts where the proxy    *)
(* reads them (internal/gateway/anthropic_usage.go, stream_observer.go): what a *)
(* provider said last of a counter is what `inspect` observes, and the sums of  *)
(* `report` are of the same numbers, however the frames told them.             *)
THEOREM ReportsAreOfWhatWasSaid ==
    ASSUME AnswersSayAll
    PROVE  TrafficSpec => []ReportedIsWhatWasSaid
<1>1. TrafficSpec => []TrafficInv
  BY TrafficInvHolds
<1>2. TrafficInv => ReportedIsWhatWasSaid
  BY ObservedIsWhatWasSaid
<1> QED BY <1>1, <1>2, PTL

-----------------------------------------------------------------------------
(* Numbers of calls. *)

(* Every call has a number of its own, up to that of the calls made.        *)
CallsAreNumbered ==
    /\ traffic.made \in Nat
    /\ \A x \in traffic.open : x.id \in 1..traffic.made
    /\ \A x, y \in traffic.open : x.id = y.id => x = y
    /\ \A i \in DOMAIN traffic.capture : traffic.capture[i].id \in 1..traffic.made
    /\ \A i, j \in DOMAIN traffic.capture : traffic.capture[i].id = traffic.capture[j].id => i = j
    /\ \A i \in DOMAIN traffic.capture : \A x \in traffic.open : traffic.capture[i].id # x.id

LEMMA CallsNumbered == TrafficSpec => []CallsAreNumbered
<1>1. TrafficInit => CallsAreNumbered
  <2> SUFFICES ASSUME NEW m \in Mixes,
                      traffic = [mix |-> m, talks |-> [c \in m.conversations |-> NewTalk], open |-> {},
                                 capture |-> <<>>, made |-> 0, failures |-> 0]
               PROVE  CallsAreNumbered
    BY DEF TrafficInit
  <2>1. DOMAIN <<>> = {}
    OBVIOUS
  <2>2. traffic.open = {} /\ traffic.capture = <<>> /\ traffic.made = 0
    OBVIOUS
  <2> QED BY <2>1, <2>2 DEF CallsAreNumbered
<1>2. TrafficInv /\ CallsAreNumbered /\ [TrafficNext]_traffic => CallsAreNumbered'
  <2> SUFFICES ASSUME TrafficInv, CallsAreNumbered, [TrafficNext]_traffic PROVE CallsAreNumbered'
    OBVIOUS
  <2>1. /\ DOMAIN traffic = {"mix", "talks", "open", "capture", "made", "failures"}
        /\ traffic.mix \in Mixes /\ IsSequence(traffic.capture)
        /\ \A x \in traffic.open : OpenCall(traffic.mix.protocol, x)
    BY DEF TrafficInv
  <2> DEFINE old == traffic.capture
  <2> DEFINE n == traffic.made
  <2>2. ASSUME NEW c, NEW endpoint, NEW method, NEW body,
               traffic'.made = traffic.made + 1, traffic'.capture = traffic.capture,
               traffic'.open = traffic.open \cup {Begun(c, endpoint, method, body)}
        PROVE  CallsAreNumbered'
    <3> DEFINE new == Begun(c, endpoint, method, body)
    <3>1. new.id = n + 1
      BY DEF Begun
    <3> HIDE DEF new
    <3>2. n \in Nat /\ n + 1 \in Nat /\ \A k \in 1..n : k \in 1..(n + 1) /\ k # n + 1
      BY DEF CallsAreNumbered
    <3>3. n + 1 \in 1..(n + 1)
      BY <3>2
    <3>4. traffic'.open = traffic.open \cup {new}
      BY <2>2 DEF new
    <3> QED BY <2>2, <3>1, <3>2, <3>3, <3>4 DEF CallsAreNumbered
  <2>3. ASSUME NEW c, NEW talk, traffic' = Sent(c, talk)
        PROVE  CallsAreNumbered'
    <3>1. /\ traffic'.made = traffic.made + 1 /\ traffic'.capture = traffic.capture
          /\ traffic'.open = traffic.open \cup {Begun(c, "model", "POST", Body(talk))}
      BY <2>1, <2>3 DEF Sent
    <3> QED BY <2>2, <3>1
  <2>4. ASSUME NEW c, Ask(c) PROVE CallsAreNumbered'
    BY <2>3, <2>4 DEF Ask
  <2>5. ASSUME NEW c, Retry(c) PROVE CallsAreNumbered'
    BY <2>3, <2>5 DEF Retry
  <2>6. ASSUME NEW c, Compact(c) PROVE CallsAreNumbered'
    <3>1. traffic'.made = traffic.made /\ traffic'.capture = traffic.capture /\ traffic'.open = traffic.open
      BY <2>1, <2>6 DEF Compact
    <3> QED BY <3>1 DEF CallsAreNumbered
  <2>7. ASSUME NEW endpoint, NEW method, OtherRequest(endpoint, method) PROVE CallsAreNumbered'
    <3>1. /\ traffic'.made = traffic.made + 1 /\ traffic'.capture = traffic.capture
          /\ traffic'.open = traffic.open \cup {Begun("", endpoint, method, Body(NewTalk))}
      BY <2>1, <2>7 DEF OtherRequest
    <3> QED BY <2>2, <3>1
  <2>8. ASSUME NEW x \in traffic.open, NEW answer, answer \in traffic.mix.answers \/ answer = NotModel,
               End(x, answer)
        PROVE  CallsAreNumbered'
    <3> DEFINE record == Overlay(x, Overlay(Kept(x, answer), [said |-> Said(answer)]))
    <3>1. record.id = x.id
      BY <2>1, <2>8, EndIsRecorded
    <3>2. /\ traffic'.made = traffic.made /\ traffic'.open = traffic.open \ {x}
          /\ traffic'.capture = Append(traffic.capture, record) \/ traffic'.capture = traffic.capture
      BY <2>1, <2>8 DEF End
    <3> HIDE DEF record
    <3>3. CASE traffic'.capture = traffic.capture
      BY <3>2, <3>3 DEF CallsAreNumbered
    <3>4. CASE traffic'.capture = Append(traffic.capture, record)
      <4> HIDE DEF old
      <4>1. IsSequence(old)
        BY <2>1 DEF old
      <4>2. /\ DOMAIN Append(old, record) = DOMAIN old \cup {Len(old) + 1}
            /\ \A i \in DOMAIN old : Append(old, record)[i] = old[i]
            /\ Append(old, record)[Len(old) + 1] = record
        BY <4>1, AppendSequence
      <4> DEFINE new == traffic'.capture
      <4>3. /\ DOMAIN new = DOMAIN old \cup {Len(old) + 1}
            /\ \A i \in DOMAIN old : new[i] = old[i]
            /\ new[Len(old) + 1].id = x.id
        BY <3>1, <3>4, <4>2 DEF old
      <4>4. /\ \A i \in DOMAIN old : old[i].id \in 1..traffic.made /\ old[i].id # x.id
            /\ \A i, j \in DOMAIN old : old[i].id = old[j].id => i = j
            /\ \A i \in DOMAIN old : \A y \in traffic.open : old[i].id # y.id
            /\ \A y \in traffic.open : y # x => y.id # x.id
            /\ \A y \in traffic.open : y.id \in 1..traffic.made
            /\ \A y, z \in traffic.open : y.id = z.id => y = z
            /\ traffic.made \in Nat
        BY DEF CallsAreNumbered, old
      <4> HIDE DEF new
      <4>5. /\ \A i \in DOMAIN new : new[i].id \in 1..traffic.made
            /\ \A i \in DOMAIN new : \A y \in traffic.open \ {x} : new[i].id # y.id
        BY <4>3, <4>4
      <4>6. \A i, j \in DOMAIN new : new[i].id = new[j].id => i = j
        BY <4>3, <4>4
      <4> QED BY <3>2, <4>4, <4>5, <4>6 DEF CallsAreNumbered, new
    <3> QED BY <3>2, <3>3, <3>4
  <2>9. CASE UNCHANGED traffic
    BY <2>9 DEF CallsAreNumbered
  <2> QED BY <2>4, <2>5, <2>6, <2>7, <2>8, <2>9 DEF TrafficNext
<1>3. TrafficSpec => []TrafficInv
  BY TrafficInvHolds
<1> QED BY <1>1, <1>2, <1>3, PTL DEF TrafficSpec

-----------------------------------------------------------------------------
(* Sorting. *)

(* The calls up to one, itself included, in the order of a sort.            *)
Ahead(s, i) == {j \in DOMAIN s : IF j <= i THEN ~ StartedBefore(s[i], s[j]) ELSE StartedBefore(s[j], s[i])}

(* The calls in the order of their start are the calls.                     *)
LEMMA CallsAreSorted ==
    ASSUME NEW s, IsSequence(s), \A i \in DOMAIN s : s[i].started \in Int /\ s[i].id \in Int
    PROVE  \E p : Permutes(p, Len(s)) /\ StableSort(s, StartedBefore) = [k \in 1..Len(s) |-> s[p[k]]]
<1> DEFINE n == Len(s)
<1>1. DOMAIN s = 1..n /\ n \in Nat
  BY SequenceFacts
<1> DEFINE R == {q \in (1..n) \X (1..n) : q[1] \in Ahead(s, q[2])}
<1> DEFINE rank == [i \in 1..n |-> Cardinality(Ahead(s, i))]
<1>2. \A i, j \in 1..n : <<i, j>> \in R <=> i \in Ahead(s, j)
  OBVIOUS
<1>3. \A i, j \in 1..n : i \in Ahead(s, j) <=>
          IF i <= j THEN ~ StartedBefore(s[j], s[i]) ELSE StartedBefore(s[i], s[j])
  BY <1>1 DEF Ahead
<1> HIDE DEF R
<1>4. Orders(R, n)
  <2> DEFINE a(i) == s[i].started
  <2> DEFINE b(i) == s[i].id
  <2>1. \A i \in 1..n : a(i) \in Int /\ b(i) \in Int /\ i \in Int
    BY <1>1
  <2> DEFINE before(i, j) == a(i) < a(j) \/ (a(i) = a(j) /\ b(i) < b(j))
  <2>2. ASSUME NEW i \in 1..n, NEW j \in 1..n
        PROVE  <<i, j>> \in R <=> before(i, j) \/ (a(i) = a(j) /\ b(i) = b(j) /\ i <= j)
    <3>1. <<i, j>> \in R <=> IF i <= j THEN ~ before(j, i) ELSE before(i, j)
      BY <1>1, <1>2, <1>3 DEF StartedBefore
    <3>2. a(i) \in Int /\ a(j) \in Int /\ b(i) \in Int /\ b(j) \in Int /\ i \in Int /\ j \in Int
      BY <2>1
    <3> HIDE DEF a, b
    <3>3. CASE i <= j
      BY <3>1, <3>2, <3>3
    <3>4. CASE ~ (i <= j)
      BY <3>1, <3>2, <3>4
    <3> QED BY <3>3, <3>4
  <2> HIDE DEF a, b
  <2>3. ASSUME NEW i \in 1..n, NEW j \in 1..n
        PROVE  /\ <<i, i>> \in R /\ (<<i, j>> \in R \/ <<j, i>> \in R)
               /\ <<i, j>> \in R /\ <<j, i>> \in R => i = j
    <3>1. a(i) \in Int /\ a(j) \in Int /\ b(i) \in Int /\ b(j) \in Int /\ i \in Int /\ j \in Int
      BY <2>1
    <3> QED BY <2>2, <3>1
  <2>4. ASSUME NEW i \in 1..n, NEW j \in 1..n, NEW k \in 1..n, <<i, j>> \in R, <<j, k>> \in R
        PROVE  <<i, k>> \in R
    <3>1. /\ a(i) \in Int /\ a(j) \in Int /\ b(i) \in Int /\ b(j) \in Int /\ i \in Int /\ j \in Int
          /\ a(k) \in Int /\ b(k) \in Int /\ k \in Int
      BY <2>1
    <3> QED BY <2>2, <2>4, <3>1
  <2> QED BY <2>3, <2>4 DEF Orders
<1>5. \A i \in 1..n : rank[i] = Cardinality(UpTo(R, n, i))
  <2> TAKE i \in 1..n
  <2>1. Ahead(s, i) = UpTo(R, n, i)
    BY <1>1, <1>2 DEF UpTo, Ahead
  <2> QED BY <2>1
<1> DEFINE p == [k \in 1..n |-> CHOOSE i \in 1..n : Cardinality(Ahead(s, i)) = k]
<1>6. StableSort(s, StartedBefore) = [k \in 1..n |-> s[p[k]]]
  BY <1>1 DEF StableSort, Ahead
<1>7. RankFills(rank, n)
  <2> HIDE DEF rank, n
  <2> QED BY <1>1, <1>4, <1>5, PlacesInOrder
<1>8. \A k \in 1..n : p[k] \in 1..n /\ rank[p[k]] = k
  <2> TAKE k \in 1..n
  <2>1. \E i \in 1..n : Cardinality(Ahead(s, i)) = k
    BY <1>7 DEF RankFills
  <2>2. p[k] \in 1..n /\ Cardinality(Ahead(s, p[k])) = k
    BY <2>1
  <2> QED BY <2>2
<1> HIDE DEF p
<1> QED BY <1>6, <1>7, <1>8 DEF RankFills

Newer(s, i) == {j \in DOMAIN s : IF j <= i THEN ~ (s[i].started > s[j].started) ELSE s[j].started > s[i].started}
NewestFirst(s) == StableSort(s, LAMBDA a, b : a.started > b.started)

(* So are chains, the newest first.                                         *)
LEMMA ChainsAreSorted ==
    ASSUME NEW s, IsSequence(s), \A i \in DOMAIN s : s[i].started \in Int
    PROVE  \E p : Permutes(p, Len(s)) /\ NewestFirst(s) = [k \in 1..Len(s) |-> s[p[k]]]
<1> DEFINE n == Len(s)
<1>1. DOMAIN s = 1..n /\ n \in Nat
  BY SequenceFacts
<1> DEFINE R == {q \in (1..n) \X (1..n) : q[1] \in Newer(s, q[2])}
<1> DEFINE rank == [i \in 1..n |-> Cardinality(Newer(s, i))]
<1>2. \A i, j \in 1..n : <<i, j>> \in R <=> i \in Newer(s, j)
  OBVIOUS
<1> HIDE DEF R
<1>3. Orders(R, n)
  <2> DEFINE a(i) == s[i].started
  <2>1. \A i \in 1..n : a(i) \in Int /\ i \in Int
    BY <1>1
  <2>2. ASSUME NEW i \in 1..n, NEW j \in 1..n
        PROVE  <<i, j>> \in R <=> a(i) > a(j) \/ (a(i) = a(j) /\ i <= j)
    <3>1. <<i, j>> \in R <=> IF i <= j THEN ~ (a(j) > a(i)) ELSE a(i) > a(j)
      BY <1>1, <1>2 DEF Newer
    <3> HIDE DEF a
    <3> QED BY <2>1, <3>1
  <2> HIDE DEF a
  <2> QED BY <2>1, <2>2 DEF Orders
<1>4. \A i \in 1..n : rank[i] = Cardinality(UpTo(R, n, i))
  <2> TAKE i \in 1..n
  <2>1. Newer(s, i) = UpTo(R, n, i)
    BY <1>1, <1>2 DEF UpTo, Newer
  <2> QED BY <2>1
<1> DEFINE p == [k \in 1..n |-> CHOOSE i \in 1..n : Cardinality(Newer(s, i)) = k]
<1>5. NewestFirst(s) = [k \in 1..n |-> s[p[k]]]
  BY <1>1 DEF NewestFirst, StableSort, Newer
<1>6. RankFills(rank, n)
  <2> HIDE DEF rank, n
  <2> QED BY <1>1, <1>3, <1>4, PlacesInOrder
<1>7. \A k \in 1..n : p[k] \in 1..n /\ rank[p[k]] = k
  <2> TAKE k \in 1..n
  <2>1. \E i \in 1..n : Cardinality(Newer(s, i)) = k
    BY <1>6 DEF RankFills
  <2>2. p[k] \in 1..n /\ Cardinality(Newer(s, p[k])) = k
    BY <2>1
  <2> QED BY <2>2
<1> HIDE DEF p
<1> QED BY <1>5, <1>6, <1>7 DEF RankFills

-----------------------------------------------------------------------------
(* Chains. *)

Methods == {"", "explicit_id", "tool_lineage", "context_lineage", "chain_start"}
ChainsOf(Y) == [id : {y.id : y \in Y}, calls : Seq(Y), methods : Seq(Methods)]
BuiltOf(Y) == [chains : Seq(ChainsOf(Y)), uncorrelated : Seq(Y)]

LEMMA MethodsType == \A a, b : Correlate(a, b) \in Methods
BY DEF Correlate, Methods

LEMMA ChainsType ==
    ASSUME NEW Y, NEW x \in Y
    PROVE  /\ ChainStart(x) \in ChainsOf(Y)
           /\ \A c \in ChainsOf(Y) : \A m \in Methods :
                /\ GoneOn(c, x, m) \in ChainsOf(Y)
                /\ GoneOn(c, x, m).calls = Append(c.calls, x)
<1>1. <<x>> \in Seq(Y) /\ <<"chain_start">> \in Seq(Methods) /\ x.id \in {y.id : y \in Y}
  <2>1. "chain_start" \in Methods
    BY DEF Methods
  <2> HIDE DEF Methods
  <2> QED BY <2>1
<1>2. ChainStart(x) \in ChainsOf(Y)
  BY <1>1 DEF ChainStart, ChainsOf
<1>3. ASSUME NEW c \in ChainsOf(Y), NEW m \in Methods
      PROVE  GoneOn(c, x, m) \in ChainsOf(Y) /\ GoneOn(c, x, m).calls = Append(c.calls, x)
  <2>1. /\ c = [id |-> c.id, calls |-> c.calls, methods |-> c.methods]
        /\ c.id \in {y.id : y \in Y} /\ c.calls \in Seq(Y) /\ c.methods \in Seq(Methods)
    BY DEF ChainsOf
  <2>2. Append(c.calls, x) \in Seq(Y) /\ Append(c.methods, m) \in Seq(Methods)
    <3> HIDE DEF Methods
    <3> QED BY <2>1
  <2>3. GoneOn(c, x, m) = [id |-> c.id, calls |-> Append(c.calls, x), methods |-> Append(c.methods, m)]
    BY DEF GoneOn
  <2> QED BY <2>1, <2>2, <2>3 DEF ChainsOf
<1> QED BY <1>2, <1>3

(* What placing a call does to the chains.                                  *)
Continues(new, old, x) == \E at \in DOMAIN old : \E m \in Methods : new = [old EXCEPT ![at] = GoneOn(@, x, m)]
Begins(new, old, x) == new = Append(old, ChainStart(x))

LEMMA PlaceFacts ==
    ASSUME NEW Y, NEW x \in Y, NEW b \in BuiltOf(Y)
    PROVE  LET new == Place(b, x)
           IN  /\ new \in BuiltOf(Y)
               /\ \/ new.chains = b.chains
                  \/ IsChainModelCall(x) /\ Continues(new.chains, b.chains, x)
                  \/ IsChainModelCall(x) /\ Begins(new.chains, b.chains, x)
<1> DEFINE new == Place(b, x)
<1> DEFINE method(i) == Correlate(Last(b.chains[i].calls), x)
<1> DEFINE followed == {i \in DOMAIN b.chains : method(i) # ""}
<1> DEFINE at == CHOOSE i \in followed : TRUE
<1>1. /\ b = [chains |-> b.chains, uncorrelated |-> b.uncorrelated]
      /\ b.chains \in Seq(ChainsOf(Y)) /\ b.uncorrelated \in Seq(Y)
  BY DEF BuiltOf
<1> DEFINE on == [b EXCEPT !.chains[at] = GoneOn(@, x, method(at))]
<1> DEFINE begun == [b EXCEPT !.chains = Append(@, ChainStart(x))]
<1> DEFINE left == [b EXCEPT !.uncorrelated = Append(@, x)]
<1>2. new = IF ~ IsChainModelCall(x) THEN b
            ELSE CASE Cardinality(followed) = 1 -> on
                   [] followed = {} /\ x.metadata.starts -> begun
                   [] OTHER -> left
  BY DEF Place
<1> HIDE DEF on, begun, left
<1>3. \A i : method(i) \in Methods
  BY MethodsType
<1> HIDE DEF method, new
<1>4. Cardinality({}) = 0
  BY FS_EmptySet
<1>5. Cardinality(followed) = 1 => at \in DOMAIN b.chains /\ followed # {}
  <2>1. Cardinality(followed) = 1 => followed # {}
    <3> HIDE DEF followed
    <3> QED BY <1>4
  <2> QED BY <2>1
<1> HIDE DEF followed, at
<1>6. CASE ~ IsChainModelCall(x)
  BY <1>2, <1>6 DEF new
<1>7. CASE IsChainModelCall(x) /\ Cardinality(followed) = 1
  <2> DEFINE chains == [b.chains EXCEPT ![at] = GoneOn(@, x, method(at))]
  <2>1. new = on
    BY <1>2, <1>5, <1>7
  <2>2. new = [chains |-> chains, uncorrelated |-> b.uncorrelated]
    BY <1>1, <2>1 DEF on
  <2>3. chains \in Seq(ChainsOf(Y))
    <3>1. b.chains[at] \in ChainsOf(Y) /\ at \in DOMAIN b.chains
      BY <1>1, <1>5, <1>7
    <3>2. GoneOn(b.chains[at], x, method(at)) \in ChainsOf(Y)
      BY <1>3, <3>1, ChainsType
    <3> QED BY <1>1, <3>1, <3>2
  <2>4. Continues(new.chains, b.chains, x)
    BY <1>3, <1>5, <1>7, <2>2 DEF Continues
  <2> HIDE DEF chains
  <2>5. new \in BuiltOf(Y)
    BY <1>1, <2>2, <2>3 DEF BuiltOf
  <2> QED BY <1>7, <2>4, <2>5 DEF new
<1>8. CASE IsChainModelCall(x) /\ Cardinality(followed) # 1 /\ followed = {} /\ x.metadata.starts
  <2> DEFINE chains == Append(b.chains, ChainStart(x))
  <2>1. new = begun
    BY <1>2, <1>8
  <2>2. new = [chains |-> chains, uncorrelated |-> b.uncorrelated]
    BY <1>1, <2>1 DEF begun
  <2>3. chains \in Seq(ChainsOf(Y))
    BY <1>1, ChainsType
  <2>4. Begins(new.chains, b.chains, x)
    BY <2>2 DEF Begins
  <2> HIDE DEF chains
  <2>5. new \in BuiltOf(Y)
    BY <1>1, <2>2, <2>3 DEF BuiltOf
  <2> QED BY <1>8, <2>4, <2>5 DEF new
<1>9. CASE IsChainModelCall(x) /\ Cardinality(followed) # 1 /\ ~ (followed = {} /\ x.metadata.starts)
  <2>1. new = left
    BY <1>2, <1>9
  <2>2. new = [chains |-> b.chains, uncorrelated |-> Append(b.uncorrelated, x)]
    BY <1>1, <2>1 DEF left
  <2>3. Append(b.uncorrelated, x) \in Seq(Y)
    BY <1>1
  <2>4. new \in BuiltOf(Y) /\ new.chains = b.chains
    BY <1>1, <2>2, <2>3 DEF BuiltOf
  <2> QED BY <2>4 DEF new
<1> QED BY <1>6, <1>7, <1>8, <1>9 DEF new

(* The chains have calls of Z for the model, none of them twice.            *)
Placed(chains, Z) ==
    /\ \A i \in DOMAIN chains : 1 \in DOMAIN chains[i].calls
    /\ \A i \in DOMAIN chains : \A j \in DOMAIN chains[i].calls :
          chains[i].calls[j] \in Z /\ IsChainModelCall(chains[i].calls[j])
    /\ \A i, k \in DOMAIN chains : \A j \in DOMAIN chains[i].calls : \A l \in DOMAIN chains[k].calls :
          chains[i].calls[j].id = chains[k].calls[l].id => i = k /\ j = l

LEMMA PlaceKeeps ==
    ASSUME NEW Y, NEW x \in Y, NEW b \in BuiltOf(Y), NEW Z, Placed(b.chains, Z), \A z \in Z : z.id # x.id
    PROVE  Placed(Place(b, x).chains, Z \cup {x})
<1> DEFINE old == b.chains
<1> DEFINE new == Place(b, x).chains
<1> DEFINE n == Len(old)
<1>1. /\ \A i \in DOMAIN old : 1 \in DOMAIN old[i].calls
      /\ \A i \in DOMAIN old : \A j \in DOMAIN old[i].calls :
            old[i].calls[j] \in Z /\ IsChainModelCall(old[i].calls[j]) /\ old[i].calls[j].id # x.id
      /\ \A i, k \in DOMAIN old : \A j \in DOMAIN old[i].calls : \A l \in DOMAIN old[k].calls :
            old[i].calls[j].id = old[k].calls[l].id => i = k /\ j = l
  BY DEF Placed
<1>2. /\ old \in Seq(ChainsOf(Y)) /\ \A i \in DOMAIN old : old[i] \in ChainsOf(Y) /\ old[i].calls \in Seq(Y)
      /\ DOMAIN old = 1..n /\ n \in Nat
  <2>1. old \in Seq(ChainsOf(Y))
    BY DEF BuiltOf
  <2>2. \A c \in ChainsOf(Y) : c.calls \in Seq(Y)
    BY DEF ChainsOf
  <2> HIDE DEF old
  <2> QED BY <2>1, <2>2
<1>3. \/ new = old
      \/ IsChainModelCall(x) /\ Continues(new, old, x)
      \/ IsChainModelCall(x) /\ Begins(new, old, x)
  BY PlaceFacts
<1> HIDE DEF new, old, n
<1>4. CASE new = old
  BY <1>1, <1>4 DEF Placed, new
<1>5. CASE IsChainModelCall(x) /\ Continues(new, old, x)
  <2>1. PICK at \in DOMAIN old, m \in Methods : new = [old EXCEPT ![at] = GoneOn(@, x, m)]
    BY <1>5 DEF Continues
  <2> DEFINE c == old[at].calls
  <2> DEFINE d == new[at].calls
  <2>2. /\ DOMAIN new = DOMAIN old /\ \A i \in DOMAIN old : i # at => new[i] = old[i]
        /\ d = Append(c, x)
    BY <1>2, <2>1, ChainsType
  <2>3. c \in Seq(Y)
    BY <1>2
  <2>4. /\ DOMAIN Append(c, x) = DOMAIN c \cup {Len(c) + 1}
        /\ \A j \in DOMAIN c : Append(c, x)[j] = c[j]
        /\ Append(c, x)[Len(c) + 1] = x
    <3> HIDE DEF c
    <3> QED BY <2>3, AppendFacts
  <2>5. Len(c) + 1 \notin DOMAIN c
    BY <2>3
  <2> DEFINE e == Len(c) + 1
  <2>6. /\ DOMAIN d = DOMAIN c \cup {e} /\ e \notin DOMAIN c
        /\ \A j \in DOMAIN c : d[j] = c[j]
        /\ d[e] = x
    BY <2>2, <2>4, <2>5
  <2>7. ASSUME NEW i \in DOMAIN new
        PROVE  /\ 1 \in DOMAIN new[i].calls
               /\ \A j \in DOMAIN new[i].calls :
                     \/ i = at /\ j = e /\ new[i].calls[j] = x
                     \/ j \in DOMAIN old[i].calls /\ new[i].calls[j] = old[i].calls[j]
    <3>1. CASE i = at
      <4>1. DOMAIN new[i].calls = DOMAIN old[i].calls \cup {e} /\ 1 \in DOMAIN old[i].calls
        BY <1>1, <2>6, <3>1
      <4> HIDE DEF e
      <4>2. new[i].calls[e] = x /\ \A j \in DOMAIN old[i].calls : new[i].calls[j] = old[i].calls[j]
        BY <2>6, <3>1
      <4> QED BY <3>1, <4>1, <4>2
    <3>2. CASE i # at
      BY <1>1, <2>2, <3>2
    <3> QED BY <3>1, <3>2
  <2> HIDE DEF e, c, d
  <2>8. \A i \in DOMAIN new : \A j \in DOMAIN new[i].calls :
           new[i].calls[j] \in Z \cup {x} /\ IsChainModelCall(new[i].calls[j])
    BY <1>1, <1>5, <2>2, <2>7
  <2>9. ASSUME NEW i \in DOMAIN new, NEW k \in DOMAIN new, NEW j \in DOMAIN new[i].calls,
               NEW l \in DOMAIN new[k].calls, new[i].calls[j].id = new[k].calls[l].id
        PROVE  i = k /\ j = l
    BY <1>1, <2>2, <2>7, <2>9
  <2> QED BY <2>7, <2>8, <2>9 DEF Placed, new
<1>6. CASE IsChainModelCall(x) /\ Begins(new, old, x)
  <2> DEFINE c == ChainStart(x)
  <2>1. new = Append(old, c) /\ c \in ChainsOf(Y)
    BY <1>6, ChainsType DEF Begins
  <2>2. c.calls = <<x>>
    BY DEF ChainStart
  <2>3. DOMAIN c.calls = {1} /\ c.calls[1] = x
    <3> HIDE DEF c
    <3> QED BY <2>2
  <2> HIDE DEF c
  <2>4. /\ DOMAIN Append(old, c) = DOMAIN old \cup {Len(old) + 1}
        /\ \A j \in DOMAIN old : Append(old, c)[j] = old[j]
        /\ Append(old, c)[Len(old) + 1] = c
    BY <1>2, <2>1, AppendFacts
  <2> DEFINE e == Len(old) + 1
  <2>5. ASSUME NEW i \in DOMAIN new
        PROVE  \/ i \in DOMAIN old /\ new[i] = old[i]
               \/ i = e /\ new[i] = c
    BY <2>1, <2>4
  <2> HIDE DEF e
  <2>6. \A i \in DOMAIN new : 1 \in DOMAIN new[i].calls
    BY <1>1, <2>3, <2>5
  <2>7. \A i \in DOMAIN new : \A j \in DOMAIN new[i].calls :
           new[i].calls[j] \in Z \cup {x} /\ IsChainModelCall(new[i].calls[j])
    BY <1>1, <1>6, <2>3, <2>5
  <2>8. ASSUME NEW i \in DOMAIN new, NEW k \in DOMAIN new, NEW j \in DOMAIN new[i].calls,
               NEW l \in DOMAIN new[k].calls, new[i].calls[j].id = new[k].calls[l].id
        PROVE  i = k /\ j = l
    <3>1. CASE i \in DOMAIN old /\ new[i] = old[i] /\ k \in DOMAIN old /\ new[k] = old[k]
      BY <1>1, <2>8, <3>1
    <3>2. CASE i = e /\ new[i] = c /\ k = e /\ new[k] = c
      BY <2>3, <3>2
    <3>3. CASE i \in DOMAIN old /\ new[i] = old[i] /\ k = e /\ new[k] = c
      BY <1>1, <2>3, <2>8, <3>3
    <3>4. CASE i = e /\ new[i] = c /\ k \in DOMAIN old /\ new[k] = old[k]
      BY <1>1, <2>3, <2>8, <3>4
    <3> QED BY <2>5, <3>1, <3>2, <3>3, <3>4
  <2> QED BY <2>6, <2>7, <2>8 DEF Placed, new
<1> QED BY <1>3, <1>4, <1>5, <1>6 DEF new

(* Placing calls one after the other is what Build does.                    *)
BuildFold(g, s) ==
    /\ g[{}] = NothingBuilt
    /\ \A T \in SUBSET DOMAIN s : T # {} => g[T] = Place(g[T \ {Max(T)}], s[Max(T)])

LEMMA ChainsAreFolded ==
    ASSUME NEW s, IsSequence(s), NEW Y, \A i \in DOMAIN s : s[i] \in Y
    PROVE  \E g : /\ BuildFold(g, s) /\ g \in [SUBSET DOMAIN s -> BuiltOf(Y)]
                  /\ FoldLeft(Place, NothingBuilt, s) = g[DOMAIN s]
<1> DEFINE D == DOMAIN s
<1> DEFINE V == BuiltOf(Y)
<1> DEFINE H(h) == [T \in SUBSET D |-> IF T = {} THEN NothingBuilt ELSE Place(h[T \ {Max(T)}], s[Max(T)])]
<1>1. D \subseteq Nat /\ IsFiniteSet(D)
  BY SequenceFacts, FiniteNumbers
<1>2. \A T \in SUBSET D : T # {} => Max(T) \in T
  BY <1>1, FS_Subset, GreatestNumber
<1>3. \A i \in D : \A b \in V : Place(b, s[i]) \in V
  BY PlaceFacts
<1>4. NothingBuilt \in V
  BY DEF NothingBuilt, BuiltOf
<1>5. \E h : h = H(h)
  <2> DEFINE step == [q \in D \X V |-> Place(q[2], s[q[1]])]
  <2>1. step \in [D \X V -> V]
    <3> HIDE DEF V, D
    <3> QED BY <1>3
  <2>2. PICK h \in [SUBSET D -> V] : Folds(h, D, NothingBuilt, step)
    <3> HIDE DEF step, V, D
    <3> QED BY <1>1, <1>4, <2>1, FoldExists
  <2>3. ASSUME NEW T \in SUBSET D, T # {}
        PROVE  step[<<Max(T), h[T \ {Max(T)}]>>] = Place(h[T \ {Max(T)}], s[Max(T)])
    <3>1. Max(T) \in D /\ h[T \ {Max(T)}] \in V
      BY <1>2, <2>3
    <3> HIDE DEF V, D
    <3> QED BY <3>1
  <2>4. \A T \in SUBSET D : h[T] = IF T = {} THEN NothingBuilt ELSE Place(h[T \ {Max(T)}], s[Max(T)])
    <3> HIDE DEF step, V, D
    <3> QED BY <2>2, <2>3 DEF Folds
  <2>5. h = H(h)
    <3> HIDE DEF step, V, D
    <3> QED BY <2>4
  <2> HIDE DEF H
  <2> QED BY <2>5
<1> DEFINE g == CHOOSE h : h = H(h)
<1>6. g = H(g)
  <2> HIDE DEF H
  <2> QED BY <1>5
<1>7. FoldLeft(Place, NothingBuilt, s) = g[D]
  BY DEF FoldLeft, MapThenFoldSet
<1> HIDE DEF g
<1>8. BuildFold(g, s)
  <2>1. g[{}] = NothingBuilt
    BY <1>6
  <2>2. ASSUME NEW T \in SUBSET D, T # {} PROVE g[T] = Place(g[T \ {Max(T)}], s[Max(T)])
    BY <1>6, <2>2
  <2> QED BY <2>1, <2>2 DEF BuildFold
<1>9. \A T \in SUBSET D : g[T] \in V
  <2> DEFINE W == {T \in SUBSET D : g[T] \in V}
  <2>1. ASSUME NEW T \in SUBSET D, \A x \in T : T \ {x} \in W PROVE T \in W
    <3>1. CASE T = {}
      BY <1>4, <1>8, <3>1 DEF BuildFold
    <3>2. CASE T # {}
      <4>1. Max(T) \in T /\ Max(T) \in D /\ g[T \ {Max(T)}] \in V
        BY <1>2, <2>1, <3>2
      <4> HIDE DEF V
      <4>2. g[T] = Place(g[T \ {Max(T)}], s[Max(T)])
        BY <1>8, <3>2 DEF BuildFold
      <4> QED BY <1>3, <4>1, <4>2
    <3> QED BY <3>1, <3>2
  <2>2. SUBSET D \subseteq W
    <3> HIDE DEF W, D
    <3> QED BY <1>1, <2>1, SubsetsByInduction
  <2> QED BY <2>2
<1>10. g \in [SUBSET D -> V]
  <2>1. g = [T \in SUBSET D |-> g[T]]
    BY <1>6
  <2> HIDE DEF V, D
  <2> QED BY <1>9, <2>1
<1> QED BY <1>7, <1>8, <1>10

(* What Build makes of a capture whose calls are numbered.                  *)
Calls == {Capture[i] : i \in DOMAIN Capture}

LEMMA ChainsAreOfCalls ==
    ASSUME TrafficInv, CallsAreNumbered
    PROVE  Build(Capture) \in BuiltOf(Calls) /\ Placed(Build(Capture).chains, Calls)
<1> DEFINE s == Capture
<1> DEFINE n == Len(s)
<1>1. /\ IsSequence(s) /\ DOMAIN s = 1..n /\ n \in Nat
      /\ \A i \in DOMAIN s : s[i].started \in Int /\ s[i].id \in Int
      /\ \A i, j \in DOMAIN s : s[i].id = s[j].id => i = j
  <2>1. IsSequence(s) /\ \A i \in DOMAIN s : RecordedCall(traffic.mix.protocol, s[i])
    BY DEF TrafficInv, Capture
  <2>2. /\ \A i \in DOMAIN s : s[i].id \in Int
        /\ \A i, j \in DOMAIN s : s[i].id = s[j].id => i = j
    BY DEF CallsAreNumbered, Capture
  <2>3. \A i \in DOMAIN s : s[i].started = s[i].id
    BY <2>1 DEF RecordedCall
  <2> QED BY <2>1, <2>2, <2>3, SequenceFacts
<1> HIDE DEF s, n
<1>2. PICK p : Permutes(p, n) /\ StableSort(s, StartedBefore) = [k \in 1..n |-> s[p[k]]]
  BY <1>1, CallsAreSorted DEF n
<1> DEFINE t == [k \in 1..n |-> s[p[k]]]
<1>3. IsSequence(t) /\ DOMAIN t = 1..n /\ \A k \in 1..n : t[k] = s[p[k]]
  <2>1. t = [k \in 1..n |-> t[k]] /\ DOMAIN t = 1..n /\ \A k \in 1..n : t[k] = s[p[k]]
    OBVIOUS
  <2> HIDE DEF t
  <2> QED BY <1>1, <2>1, MappingIsSequence
<1> HIDE DEF t
<1>4. \A k \in 1..n : p[k] \in 1..n /\ \A j \in 1..n : t[j].id = t[k].id => j = k
  BY <1>1, <1>2, <1>3 DEF Permutes
<1>5. \A k \in 1..n : t[k] \in Calls
  BY <1>1, <1>3, <1>4 DEF Calls, s
<1>6. PICK g : /\ BuildFold(g, t) /\ g \in [SUBSET DOMAIN t -> BuiltOf(Calls)]
               /\ FoldLeft(Place, NothingBuilt, t) = g[DOMAIN t]
  BY <1>3, <1>5, ChainsAreFolded
<1>7. Build(Capture) = g[1..n]
  BY <1>2, <1>3, <1>6 DEF Build, s, t
<1> DEFINE Of(T) == {t[k] : k \in T}
<1> DEFINE W == {T \in SUBSET (1..n) : Placed(g[T].chains, Of(T))}
<1>8. ASSUME NEW T \in SUBSET (1..n), \A k \in T : T \ {k} \in W PROVE T \in W
  <2>1. CASE T = {}
    <3>1. g[T].chains = <<>>
      BY <1>6, <2>1 DEF BuildFold, NothingBuilt
    <3>2. DOMAIN <<>> = {}
      OBVIOUS
    <3> HIDE DEF Of
    <3> QED BY <3>1, <3>2 DEF Placed
  <2>2. CASE T # {}
    <3> DEFINE m == Max(T)
    <3> DEFINE R == T \ {m}
    <3>1. m \in T
      <4>1. IsFiniteSet(T) /\ T \subseteq Nat
        BY <1>1, FiniteNumbers
      <4> QED BY <2>2, <4>1, GreatestNumber
    <3> HIDE DEF m
    <3>2. R \in SUBSET (1..n) /\ Placed(g[R].chains, Of(R))
      BY <1>8, <3>1
    <3>3. g[T] = Place(g[R], t[m])
      BY <1>3, <1>6, <2>2 DEF BuildFold, m
    <3>4. g[R] \in BuiltOf(Calls) /\ t[m] \in Calls
      BY <1>3, <1>5, <1>6, <3>1, <3>2
    <3>5. \A z \in Of(R) : z.id # t[m].id
      BY <1>4, <3>1
    <3>6. Of(R) \cup {t[m]} = Of(T)
      BY <3>1
    <3> HIDE DEF Of, R
    <3>7. Placed(Place(g[R], t[m]).chains, Of(R) \cup {t[m]})
      BY <3>2, <3>4, <3>5, PlaceKeeps
    <3> QED BY <3>3, <3>6, <3>7
  <2> QED BY <2>1, <2>2
<1>9. 1..n \in W
  <2>1. IsFiniteSet(1..n)
    BY <1>1, FS_Interval
  <2>2. SUBSET (1..n) \subseteq W
    <3> HIDE DEF W
    <3> QED BY <1>8, <2>1, SubsetsByInduction
  <2> QED BY <2>2
<1>10. Of(1..n) \subseteq Calls
  BY <1>5
<1>11. Placed(g[1..n].chains, Calls)
  <2>1. Placed(g[1..n].chains, Of(1..n))
    BY <1>9
  <2> HIDE DEF Of
  <2> QED BY <1>10, <2>1 DEF Placed
<1>12. g[1..n] \in BuiltOf(Calls)
  BY <1>3, <1>6
<1> QED BY <1>7, <1>11, <1>12

-----------------------------------------------------------------------------
(* Sums of measurements. *)

(* A number of a kind that is one or the other.                             *)
Given(m) == m \in [kind : {"measured", "derived"}, has : {TRUE}, value : Int]

(* The sum of numbers that are all given is their sum.                      *)
LEMMA AllAreAdded ==
    ASSUME NEW ms, IsSequence(ms), \A i \in DOMAIN ms : Given(ms[i]),
           NEW v, \A i \in DOMAIN ms : v[i] = ms[i].value
    PROVE  AddAll(ms).value = SumFunctionOnSet(v, DOMAIN ms)
<1> DEFINE D == DOMAIN ms
<1> DEFINE G == [kind : {"measured", "derived"}, has : {TRUE}, value : Int]
<1> DEFINE V == G \cup {NoMeasurement}
<1> DEFINE H(h) == [T \in SUBSET D |-> IF T = {} THEN NoMeasurement ELSE AddMeasurement(h[T \ {Max(T)}], ms[Max(T)])]
<1>1. D \subseteq Nat /\ IsFiniteSet(D)
  BY SequenceFacts, FiniteNumbers
<1>2. \A T \in SUBSET D : T # {} => Max(T) \in T
  BY <1>1, FS_Subset, GreatestNumber
<1>3. ASSUME NEW a \in V, NEW i \in D
      PROVE  /\ AddMeasurement(a, ms[i]) \in G
             /\ AddMeasurement(a, ms[i]).value = a.value + ms[i].value
             /\ a.value \in Int
  <2> DEFINE m == ms[i]
  <2>1. m.kind \in {"measured", "derived"} /\ m.has = TRUE /\ m.value \in Int /\ m \in G /\ Available(m)
    BY DEF Given, Available
  <2> HIDE DEF m
  <2>2. CASE a = NoMeasurement
    <3>1. ~ Available(a) /\ a.value = 0
      BY <2>2 DEF NoMeasurement, Available
    <3>2. AddMeasurement(a, m) = m
      BY <2>1, <3>1 DEF AddMeasurement
    <3>3. a.value + m.value = m.value /\ a.value \in Int
      BY <2>1, <3>1
    <3> HIDE DEF G, V
    <3> QED BY <2>1, <3>2, <3>3 DEF m
  <2>3. CASE a \in G
    <3>1. a.kind \in {"measured", "derived"} /\ a.value \in Int /\ Available(a)
      BY <2>3 DEF Available
    <3>2. WeakerKind(a.kind, m.kind) \in {"measured", "derived"}
      BY <2>1, <3>1 DEF WeakerKind
    <3>3. AddMeasurement(a, m) = Measured(a.value + m.value, WeakerKind(a.kind, m.kind))
      BY <2>1, <3>1 DEF AddMeasurement
    <3> DEFINE k == WeakerKind(a.kind, m.kind)
    <3> DEFINE x == a.value + m.value
    <3>4. x \in Int
      BY <2>1, <3>1
    <3> HIDE DEF k, x
    <3>5. Measured(x, k) \in G /\ Measured(x, k).value = x
      BY <3>2, <3>4 DEF Measured, k
    <3> QED BY <3>1, <3>3, <3>5 DEF k, x, m
  <2> QED BY <2>2, <2>3
<1>4. \E h : h = H(h)
  <2> DEFINE step == [q \in D \X V |-> AddMeasurement(q[2], ms[q[1]])]
  <2>1. step \in [D \X V -> V]
    <3>1. \A i \in D : \A a \in V : AddMeasurement(a, ms[i]) \in V
      BY <1>3
    <3> HIDE DEF V, D
    <3> QED BY <3>1
  <2>2. PICK h \in [SUBSET D -> V] : Folds(h, D, NoMeasurement, step)
    <3>1. NoMeasurement \in V
      OBVIOUS
    <3> HIDE DEF step, V, D
    <3> QED BY <1>1, <2>1, <3>1, FoldExists
  <2>3. ASSUME NEW T \in SUBSET D, T # {}
        PROVE  step[<<Max(T), h[T \ {Max(T)}]>>] = AddMeasurement(h[T \ {Max(T)}], ms[Max(T)])
    <3>1. Max(T) \in D /\ h[T \ {Max(T)}] \in V
      BY <1>2, <2>3
    <3> HIDE DEF V, D
    <3> QED BY <3>1
  <2>4. \A T \in SUBSET D : h[T] = IF T = {} THEN NoMeasurement ELSE AddMeasurement(h[T \ {Max(T)}], ms[Max(T)])
    <3> HIDE DEF step, V, D
    <3> QED BY <2>2, <2>3 DEF Folds
  <2>5. h = H(h)
    <3> HIDE DEF step, V, D
    <3> QED BY <2>4
  <2> HIDE DEF H
  <2> QED BY <2>5
<1> DEFINE g == CHOOSE h : h = H(h)
<1>5. g = H(g)
  <2> HIDE DEF H
  <2> QED BY <1>4
<1>6. AddAll(ms) = g[D]
  BY DEF AddAll, FoldLeft, MapThenFoldSet
<1> HIDE DEF g
<1>7. /\ g[{}] = NoMeasurement
      /\ \A T \in SUBSET D : T # {} => g[T] = AddMeasurement(g[T \ {Max(T)}], ms[Max(T)])
  BY <1>5
<1> DEFINE W == {T \in SUBSET D : g[T] \in V /\ g[T].value = SumFunctionOnSet(v, T)}
<1>8. ASSUME NEW T \in SUBSET D, \A x \in T : T \ {x} \in W PROVE T \in W
  <2>1. IsFiniteSet(T) /\ Numbers(v, T)
    <3>1. \A i \in D : v[i] \in Int
      BY DEF Given
    <3> QED BY <1>1, <3>1, FS_Subset DEF Numbers
  <2>2. CASE T = {}
    <3>1. g[T] = NoMeasurement /\ NoMeasurement.value = 0
      BY <1>7, <2>2 DEF NoMeasurement
    <3>2. SumFunctionOnSet(v, T) = 0
      BY <2>1, <2>2, SumFacts
    <3> QED BY <3>1, <3>2
  <2>3. CASE T # {}
    <3> DEFINE m == Max(T)
    <3> DEFINE R == T \ {m}
    <3>1. m \in T /\ m \in D
      BY <1>2, <2>3
    <3>2. g[T] = AddMeasurement(g[R], ms[m])
      BY <1>7, <2>3
    <3> HIDE DEF m
    <3>3. g[R] \in V /\ g[R].value = SumFunctionOnSet(v, R)
      BY <1>8, <3>1
    <3>4. SumFunctionOnSet(v, T) = v[m] + SumFunctionOnSet(v, R)
      BY <2>1, <3>1, SumFacts
    <3> HIDE DEF R, V, G
    <3>5. AddMeasurement(g[R], ms[m]) \in G /\ AddMeasurement(g[R], ms[m]).value = g[R].value + ms[m].value
      BY <1>3, <3>1, <3>3
    <3>6. v[m] = ms[m].value /\ v[m] \in Int /\ g[R].value \in Int
      BY <1>3, <2>1, <3>1, <3>3 DEF Numbers
    <3> DEFINE a == SumFunctionOnSet(v, R)
    <3>7. g[T].value = a + v[m] /\ SumFunctionOnSet(v, T) = v[m] + a /\ a \in Int
      BY <3>2, <3>3, <3>4, <3>5, <3>6
    <3> HIDE DEF a
    <3>8. g[T].value = SumFunctionOnSet(v, T)
      BY <3>6, <3>7
    <3> QED BY <3>2, <3>5, <3>8 DEF V
  <2> QED BY <2>2, <2>3
<1>9. D \in W
  <2>1. SUBSET D \subseteq W
    <3> HIDE DEF W, D
    <3> QED BY <1>1, <1>8, SubsetsByInduction
  <2> QED BY <2>1
<1> QED BY <1>6, <1>9

-----------------------------------------------------------------------------
(* The chains of the calls that are accounted. *)

(* A chain and the account read the same fields of a call, as the same      *)
(* numbers, and agree on who has a usage.                                   *)
LEMMA SameSummary ==
    ASSUME NEW p \in Protocols, NEW u, NEW said, AllSaid(p, u, said)
    PROVE  /\ DOMAIN ProviderSummary(u) # {} <=> HasUsage(u)
           /\ \A f \in ChainFields :
                /\ f \in UsageFields
                /\ f \in SummaryFields(u) <=> f \in AccountedFields(u)
                /\ f \in SummaryFields(u) =>
                     /\ Told(ProviderSummary(u), f) = Measured(AccountedValue(u, f), FieldKind(u, f))
                     /\ ProviderSummary(u)[f] = Told(ProviderSummary(u), f)
                     /\ Given(ProviderSummary(u)[f])
                     /\ ProviderSummary(u)[f].value = AccountedValue(u, f)
                /\ f \notin SummaryFields(u) => ~ Available(Told(ProviderSummary(u), f))
<1>1. /\ u.source \in {"", p} /\ (u.source = "" => DOMAIN said = {})
      /\ DOMAIN u.counts = DOMAIN said /\ DOMAIN said \subseteq CountsOf(p)
      /\ \A c : Has(u, c) <=> c \in DOMAIN said
      /\ ~ Has(u, "totalInput")
      /\ p = "openai_responses" /\ Has(u, "read") => Has(u, "input")
  BY ToldFacts
<1>2. p = "anthropic_messages" \/ p = "openai_responses"
  BY DEF Protocols
<1>3. DOMAIN ProviderSummary(u) = SummaryFields(u)
  BY DEF ProviderSummary
<1>4. HasUsage(u) <=> \E c \in CountsOf(p) : Has(u, c)
  BY <1>1 DEF HasUsage
<1>5. ASSUME NEW f \in ChainFields
      PROVE  f \in UsageFields /\ (f \in SummaryFields(u) <=> f \in AccountedFields(u))
  <2>1. f \in UsageFields /\ f # "total"
    BY DEF ChainFields, UsageFields
  <2>2. f \notin TotalField(u)
    BY <2>1 DEF TotalField
  <2> DEFINE Totals == IF Has(u, "output") \/ Has(u, "total") THEN {"total"} ELSE {}
  <2>3. f \notin Totals
    BY <2>1
  <2> HIDE DEF Totals
  <2>4. CASE u.source = "anthropic_messages"
    <3>1. /\ f \in SummaryFields(u) <=> f \in OutputFields(u) \/ f \in Totals \/ f \in AnthropicInput(u)
          /\ f \in AccountedFields(u) <=> f \in OutputFields(u) \/ f \in TotalField(u) \/ f \in AnthropicInput(u)
      BY <2>4 DEF SummaryFields, AccountedFields, Totals
    <3> QED BY <2>1, <2>2, <2>3, <3>1
  <2>5. CASE u.source = "openai_responses"
    <3> DEFINE A == IF ~ HasInput(u) THEN {}
                    ELSE {"totalInput"} \cup (IF Has(u, "read") THEN {"cachedInput", "freshInput"} ELSE {})
    <3> DEFINE B == {g \in {"totalInput", "cachedInput", "freshInput"} :
                       /\ g # "cachedInput" => Has(u, "input")
                       /\ g # "totalInput" => Has(u, "read")}
    <3>1. /\ f \in SummaryFields(u) <=> f \in OutputFields(u) \/ f \in Totals \/ f \in B
          /\ f \in AccountedFields(u) <=> f \in OutputFields(u) \/ f \in TotalField(u) \/ f \in A
      BY <2>5 DEF SummaryFields, AccountedFields, Totals
    <3>2. p = "openai_responses" /\ (HasInput(u) <=> Has(u, "input"))
      BY <1>1, <2>5 DEF HasInput
    <3>3. A = B
      BY <1>1, <3>2
    <3> QED BY <2>1, <2>2, <2>3, <3>1, <3>3
  <2>6. CASE u.source = ""
    <3>1. DOMAIN u.counts = {}
      BY <1>1, <2>6
    <3>2. f \notin OutputFields(u)
      BY <1>1, <2>6 DEF OutputFields
    <3>3. f \notin SummaryFields(u)
      BY <2>3, <2>6, <3>1, <3>2 DEF SummaryFields, Totals
    <3>4. f \notin AccountedFields(u)
      BY <2>2, <2>6, <3>1, <3>2 DEF AccountedFields
    <3> QED BY <2>1, <3>3, <3>4
  <2> QED BY <1>1, <1>2, <2>4, <2>5, <2>6
<1>6. ASSUME NEW f \in ChainFields
      PROVE  /\ f \in SummaryFields(u) =>
                  /\ Told(ProviderSummary(u), f) = Measured(AccountedValue(u, f), FieldKind(u, f))
                  /\ ProviderSummary(u)[f] = Told(ProviderSummary(u), f)
                  /\ Given(ProviderSummary(u)[f])
                  /\ ProviderSummary(u)[f].value = AccountedValue(u, f)
             /\ f \notin SummaryFields(u) => ~ Available(Told(ProviderSummary(u), f))
  <2>1. f # "total" /\ AccountedValue(u, f) = ObservedUsage(u)[f]
    BY DEF ChainFields, AccountedValue
  <2>2. AccountedValue(u, f) \in Int /\ FieldKind(u, f) \in {"measured", "derived"}
    BY <1>5, SameReading
  <2> DEFINE v == AccountedValue(u, f)
  <2> DEFINE k == FieldKind(u, f)
  <2>3. CASE f \in SummaryFields(u)
    <3>1. ProviderSummary(u)[f] = Measured(v, k) /\ Told(ProviderSummary(u), f) = ProviderSummary(u)[f]
      BY <1>3, <2>1, <2>3 DEF ProviderSummary, Told
    <3> HIDE DEF v, k
    <3>2. Given(Measured(v, k)) /\ Measured(v, k).value = v
      BY <2>2 DEF Given, Measured, v, k
    <3> QED BY <2>3, <3>1, <3>2 DEF v, k
  <2>4. CASE f \notin SummaryFields(u)
    <3>1. Told(ProviderSummary(u), f) = NoMeasurement
      BY <1>3, <2>4 DEF Told
    <3>2. ~ Available(NoMeasurement)
      BY DEF NoMeasurement, Available
    <3> QED BY <2>4, <3>1, <3>2
  <2> QED BY <2>3, <2>4
<1>7. SummaryFields(u) # {} <=> HasUsage(u)
  <2>1. ASSUME NEW c \in {"output", "reasoning", "input", "read", "creation", "total"}, Has(u, c)
        PROVE  SummaryFields(u) # {}
    <3>0. u.source = p /\ c \in CountsOf(p)
      BY <1>1, <2>1
    <3>1. CASE c \in {"output", "reasoning"}
      <4>1. c \in OutputFields(u)
        BY <2>1, <3>1 DEF OutputFields
      <4> QED BY <4>1 DEF SummaryFields
    <3>2. CASE c = "total"
      <4>1. "total" \in SummaryFields(u)
        BY <2>1, <3>2 DEF SummaryFields
      <4> QED BY <4>1
    <3>3. CASE c \in {"input", "read", "creation"} /\ p = "anthropic_messages"
      <4>1. \E f : f \in AnthropicInput(u)
        BY <2>1, <3>3 DEF AnthropicInput
      <4>2. AnthropicInput(u) \subseteq SummaryFields(u)
        BY <3>0, <3>3 DEF SummaryFields
      <4> QED BY <4>1, <4>2
    <3>4. CASE c \in {"input", "read", "creation"} /\ p = "openai_responses"
      <4>1. c # "creation"
        BY <3>0, <3>4 DEF CountsOf
      <4>2. Has(u, "input")
        BY <1>1, <2>1, <3>4, <4>1
      <4>3. "totalInput" \in SummaryFields(u)
        BY <3>0, <3>4, <4>2 DEF SummaryFields
      <4> QED BY <4>3
    <3> QED BY <1>2, <2>1, <3>1, <3>2, <3>3, <3>4
  <2>2. CountsOf(p) \subseteq {"output", "reasoning", "input", "read", "creation", "total"}
    BY DEF CountsOf
  <2>3. ASSUME ~ HasUsage(u) PROVE SummaryFields(u) = {}
    <3>1. DOMAIN u.counts = {} /\ \A c : ~ Has(u, c)
      BY <2>3 DEF HasUsage, Has
    <3>2. OutputFields(u) = {} /\ AnthropicInput(u) = {}
      BY <3>1 DEF OutputFields, AnthropicInput, HasInput
    <3> QED BY <3>1, <3>2 DEF SummaryFields
  <2> QED BY <1>4, <2>1, <2>2, <2>3
<1> QED BY <1>3, <1>5, <1>6, <1>7

(* A sequence has finitely many places.                                     *)
LEMMA FiniteDomain ==
    ASSUME NEW s, IsSequence(s) PROVE IsFiniteSet(DOMAIN s)
BY SequenceFacts, FS_Interval

(* The calls of the capture that are in a chain, and those of one.          *)
Chains == Build(Capture).chains
Chained == InChains(Build(Capture))
ChainedCalls == {k \in ModelCalls : Capture[k].id \in Chained}
CallsOf(i) == {k \in ModelCalls : \E j \in DOMAIN Chains[i].calls : Capture[k] = Chains[i].calls[j]}

LEMMA ChainFacts ==
    ASSUME TrafficInv, CallsAreNumbered
    PROVE  /\ IsSequence(Chains) /\ IsFiniteSet(DOMAIN Chains)
           /\ \A i \in DOMAIN Chains :
                /\ IsSequence(Chains[i].calls) /\ IsFiniteSet(DOMAIN Chains[i].calls)
                /\ 1 \in DOMAIN Chains[i].calls
                /\ \A j \in DOMAIN Chains[i].calls : \E k \in ModelCalls : Capture[k] = Chains[i].calls[j]
           /\ \A i, k \in DOMAIN Chains : \A j \in DOMAIN Chains[i].calls : \A l \in DOMAIN Chains[k].calls :
                Chains[i].calls[j].id = Chains[k].calls[l].id => i = k /\ j = l
<1>1. Chains \in Seq(ChainsOf(Calls)) /\ Placed(Chains, Calls)
  BY ChainsAreOfCalls DEF Chains, BuiltOf
<1>2. IsSequence(Chains) /\ IsFiniteSet(DOMAIN Chains)
  <2>1. IsSequence(Chains)
    <3> DEFINE s == Chains
    <3> DEFINE X == ChainsOf(Calls)
    <3>1. s \in Seq(X)
      BY <1>1
    <3> HIDE DEF s, X
    <3>2. s \in Seq(Range(s))
      BY <3>1 DEF Range
    <3> QED BY <3>2 DEF IsSequence, s
  <2>2. IsFiniteSet(DOMAIN Chains)
    BY <2>1, FiniteDomain
  <2> QED BY <2>1, <2>2
<1>3. ASSUME NEW i \in DOMAIN Chains
      PROVE  IsSequence(Chains[i].calls) /\ IsFiniteSet(DOMAIN Chains[i].calls)
  <2>1. Chains[i] \in ChainsOf(Calls)
    BY <1>1
  <2> DEFINE s == Chains[i].calls
  <2>2. s \in Seq(Calls)
    BY <2>1 DEF ChainsOf
  <2> HIDE DEF s
  <2>3. s \in Seq(Range(s))
    BY <2>2 DEF Range
  <2>4. IsSequence(s)
    BY <2>3 DEF IsSequence
  <2>5. IsFiniteSet(DOMAIN s)
    BY <2>4, FiniteDomain
  <2> QED BY <2>4, <2>5 DEF s
<1>4. ASSUME NEW i \in DOMAIN Chains, NEW j \in DOMAIN Chains[i].calls
      PROVE  \E k \in ModelCalls : Capture[k] = Chains[i].calls[j]
  <2>1. Chains[i].calls[j] \in Calls /\ IsChainModelCall(Chains[i].calls[j])
    BY <1>1 DEF Placed
  <2>2. PICK k \in DOMAIN Capture : Capture[k] = Chains[i].calls[j]
    BY <2>1 DEF Calls
  <2> QED BY <2>1, <2>2 DEF ModelCalls
<1> QED BY <1>1, <1>2, <1>3, <1>4 DEF Placed

(* Every call in a chain is of one, at one place.                           *)
LEMMA ChainParts ==
    ASSUME TrafficInv, CallsAreNumbered, NEW part, \A i \in DOMAIN Chains : part[i] = CallsOf(i)
    PROVE  /\ PartsOf(part, DOMAIN Chains, ChainedCalls)
           /\ IsFiniteSet(ChainedCalls)
           /\ \A i \in DOMAIN Chains : \E at :
                /\ \A j, l \in DOMAIN Chains[i].calls : at[j] = at[l] => j = l
                /\ CallsOf(i) = {at[j] : j \in DOMAIN Chains[i].calls}
                /\ \A j \in DOMAIN Chains[i].calls : at[j] \in ChainedCalls /\ Capture[at[j]] = Chains[i].calls[j]
<1>1. \A i, j \in DOMAIN Capture : Capture[i].id = Capture[j].id => i = j
  BY DEF CallsAreNumbered, Capture
<1>3. \A c : c \in Chained <=> \E i \in DOMAIN Chains : \E j \in DOMAIN Chains[i].calls : c = Chains[i].calls[j].id
  BY DEF Chained, InChains, Chains
<1>4. ASSUME NEW k \in ModelCalls
      PROVE  k \in ChainedCalls <=> \E i \in DOMAIN Chains : k \in CallsOf(i)
  <2>1. ASSUME NEW i \in DOMAIN Chains, NEW j \in DOMAIN Chains[i].calls, Capture[k].id = Chains[i].calls[j].id
        PROVE  k \in CallsOf(i)
    <3>1. PICK l \in ModelCalls : Capture[l] = Chains[i].calls[j]
      BY ChainFacts
    <3>2. l = k
      BY <1>1, <2>1, <3>1 DEF ModelCalls
    <3> QED BY <3>1, <3>2 DEF CallsOf
  <2>2. ASSUME NEW i \in DOMAIN Chains, k \in CallsOf(i)
        PROVE  Capture[k].id \in Chained
    BY <1>3, <2>2 DEF CallsOf
  <2>3. k \in ChainedCalls <=> Capture[k].id \in Chained
    BY DEF ChainedCalls
  <2> QED BY <1>3, <2>1, <2>2, <2>3
<1>5. \A i : CallsOf(i) \subseteq ModelCalls
  BY DEF CallsOf
<1>6. ChainedCalls = UNION {part[i] : i \in DOMAIN Chains}
  <2>1. ChainedCalls \subseteq ModelCalls
    BY DEF ChainedCalls
  <2> QED BY <1>4, <1>5, <2>1
<1>7. ASSUME NEW i \in DOMAIN Chains, NEW k \in DOMAIN Chains, i # k PROVE part[i] \cap part[k] = {}
  <2> SUFFICES ASSUME NEW c, c \in CallsOf(i), c \in CallsOf(k) PROVE FALSE
    OBVIOUS
  <2>1. PICK j \in DOMAIN Chains[i].calls : Capture[c] = Chains[i].calls[j]
    BY DEF CallsOf
  <2>2. PICK l \in DOMAIN Chains[k].calls : Capture[c] = Chains[k].calls[l]
    BY DEF CallsOf
  <2>3. Chains[i].calls[j].id = Chains[k].calls[l].id
    BY <2>1, <2>2
  <2>4. \A a, b \in DOMAIN Chains : \A m \in DOMAIN Chains[a].calls : \A o \in DOMAIN Chains[b].calls :
          Chains[a].calls[m].id = Chains[b].calls[o].id => a = b
    BY ChainFacts
  <2>5. i = k
    BY <2>3, <2>4
  <2> QED BY <1>7, <2>5
<1>8. IsFiniteSet(ChainedCalls)
  <2>1. ChainedCalls \subseteq ModelCalls
    BY DEF ChainedCalls
  <2> QED BY <2>1, CaptureIsFinite, FS_Subset
<1>9. ASSUME NEW i \in DOMAIN Chains
      PROVE  \E at :
                /\ \A j, l \in DOMAIN Chains[i].calls : at[j] = at[l] => j = l
                /\ CallsOf(i) = {at[j] : j \in DOMAIN Chains[i].calls}
                /\ \A j \in DOMAIN Chains[i].calls : at[j] \in ChainedCalls /\ Capture[at[j]] = Chains[i].calls[j]
  <2> DEFINE s == Chains[i].calls
  <2> DEFINE at == [j \in DOMAIN s |-> CHOOSE k \in ModelCalls : Capture[k] = s[j]]
  <2>1. \A j \in DOMAIN s : at[j] \in ModelCalls /\ Capture[at[j]] = s[j]
    <3> TAKE j \in DOMAIN s
    <3>1. \E k \in ModelCalls : Capture[k] = s[j]
      BY ChainFacts
    <3> QED BY <3>1
  <2> HIDE DEF at
  <2>2. \A j \in DOMAIN s : at[j] \in CallsOf(i) /\ at[j] \in ChainedCalls
    BY <1>4, <2>1 DEF CallsOf
  <2>3. ASSUME NEW k \in CallsOf(i) PROVE \E j \in DOMAIN s : k = at[j]
    <3>1. PICK j \in DOMAIN s : Capture[k] = s[j]
      BY DEF CallsOf
    <3>2. k \in DOMAIN Capture /\ at[j] \in DOMAIN Capture /\ Capture[k].id = Capture[at[j]].id
      BY <2>1, <3>1 DEF ModelCalls, CallsOf
    <3> QED BY <1>1, <3>2
  <2>4. \A j, l \in DOMAIN s : at[j] = at[l] => j = l
    <3> TAKE j \in DOMAIN s, l \in DOMAIN s
    <3> SUFFICES ASSUME at[j] = at[l] PROVE j = l
      OBVIOUS
    <3>1. s[j].id = s[l].id
      BY <2>1
    <3> QED BY <3>1, ChainFacts
  <2>5. CallsOf(i) = {at[j] : j \in DOMAIN s}
    <3> HIDE DEF s
    <3> QED BY <2>2, <2>3
  <2> QED BY <2>1, <2>2, <2>4, <2>5
<1> QED BY <1>6, <1>7, <1>8, <1>9 DEF PartsOf

(* What the calls in chains add up to is what the chains do, each from its  *)
(* own calls.                                                               *)
LEMMA ChainsAddUp ==
    ASSUME TrafficInv, CallsAreNumbered, NEW v, Numbers(v, ChainedCalls),
           NEW u, \A i \in DOMAIN Chains : \A j \in DOMAIN Chains[i].calls : \A k \in ChainedCalls :
                     Capture[k] = Chains[i].calls[j] => u[i][j] = v[k],
           NEW w, \A i \in DOMAIN Chains : w[i] = SumFunctionOnSet(u[i], DOMAIN Chains[i].calls)
    PROVE  /\ SumFunctionOnSet(v, ChainedCalls) = SumFunctionOnSet(w, DOMAIN Chains)
           /\ Numbers(w, DOMAIN Chains)
<1> DEFINE K == DOMAIN Chains
<1> DEFINE part == [i \in K |-> CallsOf(i)]
<1>1. \A i \in K : part[i] = CallsOf(i)
  OBVIOUS
<1> HIDE DEF part
<1>2. /\ PartsOf(part, K, ChainedCalls) /\ IsFiniteSet(ChainedCalls)
      /\ \A i \in K : \E at :
           /\ \A j, l \in DOMAIN Chains[i].calls : at[j] = at[l] => j = l
           /\ CallsOf(i) = {at[j] : j \in DOMAIN Chains[i].calls}
           /\ \A j \in DOMAIN Chains[i].calls : at[j] \in ChainedCalls /\ Capture[at[j]] = Chains[i].calls[j]
  BY <1>1, ChainParts
<1>3. ASSUME NEW i \in K PROVE w[i] = SumFunctionOnSet(v, part[i]) /\ w[i] \in Int
  <2> DEFINE S == DOMAIN Chains[i].calls
  <2>1. PICK at : /\ \A j, l \in S : at[j] = at[l] => j = l
                  /\ CallsOf(i) = {at[j] : j \in S}
                  /\ \A j \in S : at[j] \in ChainedCalls /\ Capture[at[j]] = Chains[i].calls[j]
    BY <1>2
  <2>2. \A j \in S : u[i][j] = v[at[j]]
    BY <2>1
  <2>3. CallsOf(i) \subseteq ChainedCalls
    BY <2>1
  <2>4. Numbers(v, CallsOf(i)) /\ IsFiniteSet(S) /\ IsFiniteSet(CallsOf(i))
    BY <1>2, <2>3, ChainFacts, FS_Subset DEF Numbers
  <2> DEFINE q == u[i]
  <2> HIDE DEF S
  <2>5. Carries(at, q, S, v, CallsOf(i))
    BY <2>1, <2>2 DEF Carries
  <2> HIDE DEF q
  <2>6. SumFunctionOnSet(q, S) = SumFunctionOnSet(v, CallsOf(i))
    BY <2>4, <2>5, SumOfImage
  <2>7. SumFunctionOnSet(v, CallsOf(i)) \in Int
    BY <2>4, SumFacts
  <2> QED BY <1>1, <2>6, <2>7 DEF q, S
<1>4. IsFiniteSet(K)
  BY ChainFacts
<1> HIDE DEF K
<1>5. SumFunctionOnSet(v, ChainedCalls) = SumFunctionOnSet(w, K)
  BY <1>2, <1>3, <1>4, SumOfParts
<1>6. Numbers(w, K)
  BY <1>3 DEF Numbers
<1> QED BY <1>5, <1>6 DEF K

(* The account of some of the model's calls: those that have a usage, those   *)
(* of them that say a field, and what they say of it.                        *)
UsagesOf(S) == [i \in S |-> Capture[i].usage]
Seen(S) == {i \in S : HasUsage(Capture[i].usage)}
SaidOf(S, f) == {i \in Seen(S) : f \in AccountedFields(Capture[i].usage)}
Values(f) == [i \in ModelCalls |-> AccountedValue(Capture[i].usage, f)]

LEMMA ValuesAreNumbers ==
    ASSUME TrafficInv, AnswersSayAll, NEW f \in UsageFields
    PROVE  Numbers(Values(f), ModelCalls)
<1>1. \A i \in ModelCalls : AccountedValue(Capture[i].usage, f) \in Int
  BY ModelCallIsSaid, SameReading
<1> QED BY <1>1 DEF Numbers, Values

LEMMA AccountOfCalls ==
    ASSUME TrafficInv, NEW S, S \subseteq ModelCalls
    PROVE  /\ AccountOf(UsagesOf(S)).observed = Cardinality(Seen(S))
           /\ \A f \in UsageFields :
                /\ AccountOf(UsagesOf(S)).count[f] = Cardinality(SaidOf(S, f))
                /\ (Numbers(Values(f), ModelCalls) =>
                      AccountOf(UsagesOf(S)).sum[f] = SumFunctionOnSet(Values(f), SaidOf(S, f)))
<1> DEFINE u == UsagesOf(S)
<1> DEFINE seen == {i \in DOMAIN u : HasUsage(u[i])}
<1> DEFINE of(f) == {i \in seen : f \in AccountedFields(u[i])}
<1>1. DOMAIN u = S /\ \A i \in S : u[i] = Capture[i].usage
  BY DEF UsagesOf
<1> HIDE DEF u
<1>2. seen = Seen(S) /\ \A f : of(f) = SaidOf(S, f)
  BY <1>1 DEF Seen, SaidOf
<1>3. /\ AccountOf(u).observed = Cardinality(seen)
      /\ \A f \in UsageFields : /\ AccountOf(u).count[f] = Cardinality(of(f))
                                /\ AccountOf(u).sum[f] = SumFunction([i \in of(f) |-> AccountedValue(u[i], f)])
  BY DEF AccountOf
<1>4. ASSUME NEW f \in UsageFields, Numbers(Values(f), ModelCalls)
      PROVE  AccountOf(u).sum[f] = SumFunctionOnSet(Values(f), SaidOf(S, f))
  <2> DEFINE T == of(f)
  <2> DEFINE w == [i \in T |-> AccountedValue(u[i], f)]
  <2>1. AccountOf(u).sum[f] = SumFunction(w)
    BY <1>3
  <2>2. T \subseteq S /\ DOMAIN w = T /\ \A i \in T : w[i] = AccountedValue(u[i], f)
    BY <1>1
  <2>3. T = SaidOf(S, f)
    BY <1>2
  <2> HIDE DEF w, T
  <2>4. \A i \in T : w[i] = Values(f)[i]
    BY <1>1, <2>2 DEF Values
  <2>5. IsFiniteSet(T) /\ Numbers(Values(f), T)
    BY <1>4, <2>2, CaptureIsFinite, FS_Subset DEF Numbers
  <2>6. OfPart(w, T, Values(f), T)
    BY <2>4 DEF OfPart
  <2>7. SumFunctionOnSet(w, T) = SumFunctionOnSet(Values(f), T)
    BY <2>5, <2>6, SumOfPart
  <2> QED BY <2>1, <2>2, <2>3, <2>7 DEF SumFunction
<1> QED BY <1>2, <1>3, <1>4 DEF u

(* What some calls and the others are accounted with, all of them are.       *)
LEMMA AccountsAddUp ==
    ASSUME TrafficInv, NEW S, S \subseteq ModelCalls, NEW f \in UsageFields, Numbers(Values(f), ModelCalls)
    PROVE  /\ AccountOf(UsagesOf(ModelCalls)).count[f] =
                AccountOf(UsagesOf(S)).count[f] + AccountOf(UsagesOf(ModelCalls \ S)).count[f]
           /\ AccountOf(UsagesOf(ModelCalls)).sum[f] =
                AccountOf(UsagesOf(S)).sum[f] + AccountOf(UsagesOf(ModelCalls \ S)).sum[f]
<1> DEFINE M == ModelCalls
<1> DEFINE R == ModelCalls \ S
<1> DEFINE A == SaidOf(S, f)
<1> DEFINE B == SaidOf(R, f)
<1>1. A \subseteq M /\ B \subseteq M /\ A \cap B = {} /\ A \cup B = SaidOf(M, f)
  BY DEF SaidOf, Seen
<1>2. R \subseteq M /\ M \subseteq M
  OBVIOUS
<1> HIDE DEF A, B, M, R
<1>3. IsFiniteSet(A) /\ IsFiniteSet(B) /\ Numbers(Values(f), A \cup B)
  BY <1>1, CaptureIsFinite, FS_Subset DEF Numbers, M
<1>4. SumFunctionOnSet(Values(f), A \cup B) = SumFunctionOnSet(Values(f), A) + SumFunctionOnSet(Values(f), B)
  BY <1>1, <1>3, SumOfUnion
<1>5. Cardinality(A \cup B) = Cardinality(A) + Cardinality(B)
  <2>1. Cardinality(A \cup B) = Cardinality(A) + Cardinality(B) - Cardinality(A \cap B)
    BY <1>3, FS_Union
  <2>2. Cardinality(A \cap B) = 0 /\ Cardinality(A) \in Nat /\ Cardinality(B) \in Nat
    BY <1>1, <1>3, FS_EmptySet, FS_CardinalityType
  <2> QED BY <2>1, <2>2
<1>6. ASSUME NEW T, T \subseteq ModelCalls
      PROVE  /\ AccountOf(UsagesOf(T)).count[f] = Cardinality(SaidOf(T, f))
             /\ AccountOf(UsagesOf(T)).sum[f] = SumFunctionOnSet(Values(f), SaidOf(T, f))
  BY <1>6, AccountOfCalls
<1> QED BY <1>1, <1>2, <1>4, <1>5, <1>6 DEF A, B, M, R

(* The accounts of a profile, in chains and outside.                         *)
Profile == AccountProfile(Capture, traffic.failures)

LEMMA ProfileIsOfCalls ==
    ASSUME TrafficInv
    PROVE  /\ Profile.observed.account = AccountOf(UsagesOf(ModelCalls))
           /\ Profile.chained.account = AccountOf(UsagesOf(ChainedCalls))
           /\ Profile.uncorrelated.account = AccountOf(UsagesOf(ModelCalls \ ChainedCalls))
           /\ Profile.chained.requests = Cardinality(ChainedCalls)
<1> DEFINE C == Capture
<1> DEFINE all == {C[i].id : i \in DOMAIN C}
<1>1. Profile.observed.account = AccountOf(UsagesOf(ModelCalls))
  BY AllAccounted DEF Usages, UsagesOf, Profile
<1>2. /\ Profile.chained.account = Accounted(C, Chained)
      /\ Profile.uncorrelated.account = Accounted(C, all \ Chained)
      /\ Profile.chained.requests = Cardinality({i \in DOMAIN C : C[i].kind = "model" /\ C[i].id \in Chained})
  BY DEF Profile, AccountProfile, Finalized, Chained
<1>3. {i \in DOMAIN C : C[i].kind = "model" /\ C[i].id \in Chained} = ChainedCalls
  BY CallFacts DEF ModelCalls, ChainedCalls
<1>4. {i \in DOMAIN C : IsChainModelCall(C[i]) /\ C[i].id \in Chained} = ChainedCalls
  BY DEF ModelCalls, ChainedCalls
<1>5. {i \in DOMAIN C : IsChainModelCall(C[i]) /\ C[i].id \in all \ Chained} = ModelCalls \ ChainedCalls
  BY DEF ModelCalls, ChainedCalls
<1>6. Accounted(C, Chained) = AccountOf(UsagesOf(ChainedCalls))
  BY <1>4 DEF Accounted, UsagesOf
<1>7. Accounted(C, all \ Chained) = AccountOf(UsagesOf(ModelCalls \ ChainedCalls))
  BY <1>5 DEF Accounted, UsagesOf
<1> QED BY <1>1, <1>2, <1>3, <1>6, <1>7

(* The elements of a set, by the value each has.                            *)
Counts(w, K, g, S) ==
    /\ \A i \in S : g[i] \in K
    /\ \A k \in K : w[k] = Cardinality({i \in S : g[i] = k})

LEMMA SizeByValue ==
    ASSUME NEW S, IsFiniteSet(S), NEW K, IsFiniteSet(K), NEW w, NEW g, Counts(w, K, g, S)
    PROVE  Cardinality(S) = SumFunctionOnSet(w, K)
<1> USE DEF Counts
<1> DEFINE part == [k \in K |-> {i \in S : g[i] = k}]
<1>1. S = UNION {part[k] : k \in K}
  <2>1. \A i \in S : i \in part[g[i]]
    OBVIOUS
  <2>2. \A k \in K : part[k] \subseteq S
    OBVIOUS
  <2> HIDE DEF part
  <2> QED BY <2>1, <2>2
<1>2. \A j, k \in K : j # k => part[j] \cap part[k] = {}
  OBVIOUS
<1>3. \A k \in K : w[k] = Cardinality(part[k])
  OBVIOUS
<1> HIDE DEF part
<1> QED BY <1>1, <1>2, <1>3, SizeOfParts DEF PartsOf

(* Every request is of one kind and of one outcome.                          *)
LEMMA RequestsAreCounted ==
    ASSUME TrafficInv
    PROVE  /\ Profile.http = SumWhere(DOMAIN Profile.kinds, LAMBDA k : Profile.kinds[k])
           /\ Profile.http = SumWhere(RequestOutcomes, LAMBDA o : Profile.outcomes[o])
<1> DEFINE D == DOMAIN Capture
<1> DEFINE K == {"model", "non_model", ""}
<1> DEFINE kinds == [k \in K |-> Cardinality({i \in D : Capture[i].kind = k})]
<1> DEFINE outcomes == [o \in RequestOutcomes |-> Cardinality({i \in D : Capture[i].outcome = o})]
<1>1. Profile.http = Len(Capture) /\ Profile.kinds = kinds /\ Profile.outcomes = outcomes
  BY DEF Profile, AccountProfile
<1>2. IsFiniteSet(D) /\ Cardinality(D) = Len(Capture)
  BY SequenceFacts, FS_Interval DEF TrafficInv, Capture
<1>3. \A i \in D : Capture[i].kind \in K /\ Capture[i].outcome \in RequestOutcomes
  BY CallFacts DEF RecordedCall, RequestKind
<1>4. IsFiniteSet(K) /\ IsFiniteSet(RequestOutcomes)
  <2> DEFINE With(s, e) == s \cup {e}
  <2>1. \A s, e : IsFiniteSet(s) => IsFiniteSet(With(s, e))
    BY FS_AddElement
  <2>2. K = With(With(With({}, "model"), "non_model"), "")
    OBVIOUS
  <2>3. RequestOutcomes = With(With(With(With(With({}, "upstream_ok"), "upstream_http_error"), "transport_failure"),
                               "client_canceled"), "stream_truncated")
    BY DEF RequestOutcomes
  <2> HIDE DEF With, K
  <2>4. IsFiniteSet({})
    BY FS_EmptySet
  <2>5. IsFiniteSet(K)
    BY <2>1, <2>2, <2>4
  <2>6. IsFiniteSet(RequestOutcomes)
    BY <2>1, <2>3, <2>4
  <2> QED BY <2>5, <2>6
<1>5. Cardinality(D) = SumFunctionOnSet(kinds, K)
  <2> DEFINE g == [i \in D |-> Capture[i].kind]
  <2>1. \A i \in D : g[i] \in K /\ g[i] = Capture[i].kind
    BY <1>3
  <2>2. \A k \in K : kinds[k] = Cardinality({i \in D : Capture[i].kind = k})
    OBVIOUS
  <2> HIDE DEF g, kinds, K, D
  <2>3. \A k \in K : kinds[k] = Cardinality({i \in D : g[i] = k})
    <3> TAKE k \in K
    <3>1. {i \in D : Capture[i].kind = k} = {i \in D : g[i] = k}
      BY <2>1
    <3> QED BY <2>2, <3>1
  <2>4. Counts(kinds, K, g, D)
    BY <2>1, <2>3 DEF Counts
  <2> QED BY <1>2, <1>4, <2>4, SizeByValue
<1>6. Cardinality(D) = SumFunctionOnSet(outcomes, RequestOutcomes)
  <2> DEFINE g == [i \in D |-> Capture[i].outcome]
  <2>1. \A i \in D : g[i] \in RequestOutcomes /\ g[i] = Capture[i].outcome
    BY <1>3
  <2>2. \A o \in RequestOutcomes : outcomes[o] = Cardinality({i \in D : Capture[i].outcome = o})
    OBVIOUS
  <2> HIDE DEF g, outcomes, D
  <2>3. \A o \in RequestOutcomes : outcomes[o] = Cardinality({i \in D : g[i] = o})
    <3> TAKE o \in RequestOutcomes
    <3>1. {i \in D : Capture[i].outcome = o} = {i \in D : g[i] = o}
      BY <2>1
    <3> QED BY <2>2, <3>1
  <2>4. Counts(outcomes, RequestOutcomes, g, D)
    BY <2>1, <2>3 DEF Counts
  <2> QED BY <1>2, <1>4, <2>4, SizeByValue
<1>7. DOMAIN kinds = K /\ DOMAIN outcomes = RequestOutcomes
      /\ kinds = [k \in K |-> kinds[k]] /\ outcomes = [o \in RequestOutcomes |-> outcomes[o]]
  OBVIOUS
<1> HIDE DEF kinds, outcomes, K, D
<1>8. SumWhere(K, LAMBDA k : kinds[k]) = SumFunctionOnSet(kinds, K)
  BY <1>7 DEF SumWhere, SumFunction
<1>9. SumWhere(RequestOutcomes, LAMBDA o : outcomes[o]) = SumFunctionOnSet(outcomes, RequestOutcomes)
  BY <1>7 DEF SumWhere, SumFunction
<1>10. Profile.http = SumFunctionOnSet(kinds, K) /\ Profile.http = SumFunctionOnSet(outcomes, RequestOutcomes)
  BY <1>1, <1>2, <1>5, <1>6
<1> QED BY <1>1, <1>7, <1>8, <1>9, <1>10

-----------------------------------------------------------------------------
(* What `chains` shows, and that the report agrees. *)

(* A sequence that is evaluated at once is the sequence.                     *)
LEMMA SameSequence ==
    ASSUME NEW s, IsSequence(s)
    PROVE  /\ IsSequence(StrictSequence(s)) /\ Len(StrictSequence(s)) = Len(s)
           /\ DOMAIN StrictSequence(s) = DOMAIN s
           /\ \A i \in DOMAIN s : StrictSequence(s)[i] = s[i]
<1> DEFINE t == s \o <<>>
<1>1. IsSequence(<<>>) /\ Len(<<>>) = 0
  <2>1. <<>> \in Seq({})
    OBVIOUS
  <2> QED BY <2>1 DEF IsSequence
<1>2. IsSequence(t) /\ Len(t) = Len(s) + 0 /\ \A i \in 1..Len(s) : t[i] = s[i]
  BY <1>1, JoinedSequence
<1>3. StrictSequence(s) = t
  BY DEF StrictSequence
<1> HIDE DEF t
<1>4. /\ DOMAIN t = 1..Len(t) /\ DOMAIN s = 1..Len(s) /\ Len(s) \in Nat
  BY <1>2, SequenceFacts
<1> QED BY <1>2, <1>3, <1>4

(* What a call's summary keeps of the call.                                  *)
LEMMA CallSummary ==
    ASSUME NEW x
    PROVE  SummarizeCall(x).started = x.started /\ SummarizeCall(x).provider = ProviderSummary(x.usage)
<1> DEFINE c == Categories(x.components)
<1> DEFINE a == AddAll([i \in DOMAIN CategoryOrder |-> c[CategoryOrder[i]]])
<1> DEFINE r == RequestSummary(x, c, a, ProviderSummary(x.usage))
<1>1. SummarizeCall(x) = [r EXCEPT !.gap = Subtract(Told(r.provider, "totalInput"), r.context)]
  BY DEF SummarizeCall, SummarizeRequest
<1> HIDE DEF c, a
<1>2. r.started = x.started /\ r.provider = ProviderSummary(x.usage)
  BY DEF RequestSummary
<1>3. \A g : [r EXCEPT !.gap = g].started = r.started /\ [r EXCEPT !.gap = g].provider = r.provider
  BY DEF RequestSummary
<1> HIDE DEF r
<1> QED BY <1>1, <1>2, <1>3

(* What a chain's summary keeps of the chain.                                *)
Summaries == [i \in DOMAIN Chains |-> SummarizeChain(Chains[i])]

LEMMA ChainSummaries ==
    ASSUME TrafficInv, CallsAreNumbered, NEW i \in DOMAIN Chains
    PROVE  /\ Len(Summaries[i].calls) = Len(Chains[i].calls)
           /\ Summaries[i].started \in Int
           /\ Summaries[i].observed =
                Cardinality({j \in DOMAIN Chains[i].calls : DOMAIN ProviderSummary(Chains[i].calls[j].usage) # {}})
           /\ \A f \in ChainFields : Summaries[i].totals[f] =
                IF \A j \in DOMAIN Chains[i].calls : Available(Told(ProviderSummary(Chains[i].calls[j].usage), f))
                THEN AddAll([j \in DOMAIN Chains[i].calls |-> ProviderSummary(Chains[i].calls[j].usage)[f]])
                ELSE NoMeasurement
<1> DEFINE c == Chains[i].calls
<1> DEFINE of == [j \in DOMAIN c |-> SummarizeCall(c[j])]
<1> DEFINE s == StrictSequence(of)
<1>1. IsSequence(c) /\ IsFiniteSet(DOMAIN c) /\ 1 \in DOMAIN c
  BY ChainFacts
<1>2. DOMAIN c = 1..Len(c) /\ Len(c) \in Nat
  BY <1>1, SequenceFacts
<1>3. IsSequence(of) /\ Len(of) = Len(c) /\ DOMAIN of = DOMAIN c /\ \A j \in DOMAIN c : of[j] = SummarizeCall(c[j])
  <2>1. DOMAIN of = DOMAIN c /\ (\A j \in DOMAIN c : of[j] = SummarizeCall(c[j])) /\ of = [j \in DOMAIN c |-> of[j]]
    OBVIOUS
  <2> HIDE DEF of, c
  <2>2. of = [j \in 1..Len(c) |-> of[j]]
    BY <1>2, <2>1
  <2>3. IsSequence(of) /\ Len(of) = Len(c)
    BY <1>2, <2>2, MappingIsSequence
  <2> QED BY <2>1, <2>3
<1> HIDE DEF of
<1>4. /\ Len(s) = Len(c) /\ DOMAIN s = DOMAIN c
      /\ \A j \in DOMAIN c : s[j].started = c[j].started /\ s[j].provider = ProviderSummary(c[j].usage)
  <2>1. Len(s) = Len(of) /\ DOMAIN s = DOMAIN of /\ \A j \in DOMAIN of : s[j] = of[j]
    BY <1>3, SameSequence
  <2> HIDE DEF s, c
  <2> QED BY <1>3, <2>1, CallSummary
<1>5. Summaries[i] = ChainSummary(Chains[i], s, TotalContextSent(s), [f \in ChainFields |-> ChainTotal(s, f)])
  BY DEF Summaries, SummarizeChain, of
<1> DEFINE b == Chains[i]
<1> DEFINE sent == TotalContextSent(s)
<1> DEFINE totals == [f \in ChainFields |-> ChainTotal(s, f)]
<1>6. /\ Summaries[i].calls = s /\ Summaries[i].started = s[1].started
      /\ Summaries[i].totals = totals
      /\ Summaries[i].observed = Cardinality({j \in DOMAIN s : DOMAIN s[j].provider # {}})
  <2>1. Summaries[i] = ChainSummary(b, s, sent, totals)
    BY <1>5
  <2> HIDE DEF s, b, sent, totals
  <2> QED BY <2>1 DEF ChainSummary
<1>7. c[1].started \in Int
  <2>1. PICK k \in ModelCalls : Capture[k] = c[1]
    BY <1>1, ChainFacts
  <2>2. Capture[k].started = Capture[k].id /\ Capture[k].id \in Int
    BY CallFacts DEF RecordedCall, ModelCalls, CallsAreNumbered, Capture
  <2> HIDE DEF c
  <2> QED BY <2>1, <2>2
<1>8. {j \in DOMAIN s : DOMAIN s[j].provider # {}} = {j \in DOMAIN c : DOMAIN ProviderSummary(c[j].usage) # {}}
  <2> HIDE DEF s, c
  <2> QED BY <1>4
<1>9. ASSUME NEW f \in ChainFields
      PROVE  totals[f] = IF \A j \in DOMAIN c : Available(Told(ProviderSummary(c[j].usage), f))
                         THEN AddAll([j \in DOMAIN c |-> ProviderSummary(c[j].usage)[f]]) ELSE NoMeasurement
  <2>1. totals[f] = ChainTotal(s, f)
    OBVIOUS
  <2> HIDE DEF s, c
  <2>2. [j \in DOMAIN s |-> s[j].provider[f]] = [j \in DOMAIN c |-> ProviderSummary(c[j].usage)[f]]
    BY <1>4
  <2>3. (\A j \in DOMAIN s : Available(Told(s[j].provider, f)))
          <=> \A j \in DOMAIN c : Available(Told(ProviderSummary(c[j].usage), f))
    BY <1>4
  <2> QED BY <2>1, <2>2, <2>3 DEF ChainTotal
<1>10. Len(Summaries[i].calls) = Len(c) /\ Summaries[i].started \in Int
  <2> HIDE DEF c, s
  <2> QED BY <1>1, <1>4, <1>6, <1>7
<1> QED BY <1>6, <1>8, <1>9, <1>10

(* What a chain's summary says of it, chain by chain.                        *)
LengthOf == [i \in DOMAIN Chains |-> Len(Summaries[i].calls)]
ObservedOf == [i \in DOMAIN Chains |-> Summaries[i].observed]
TotalOf(f) == [i \in DOMAIN Chains |-> Summaries[i].totals[f].value]

(* One for each element that is counted, and none for the others.            *)
LEMMA SizeOfSome ==
    ASSUME NEW S, IsFiniteSet(S), NEW T, T \subseteq S,
           NEW v, \A x \in S : v[x] = IF x \in T THEN 1 ELSE 0
    PROVE  SumFunctionOnSet(v, S) = Cardinality(T) /\ Numbers(v, S)
<1>1. IsFiniteSet(T) /\ Numbers(v, S) /\ OfPart(v, T, v, S)
  BY FS_Subset DEF Numbers, OfPart
<1>2. SumFunctionOnSet(v, T) = SumFunctionOnSet(v, S)
  BY <1>1, SumOfPart
<1>3. Cardinality(T) = SumFunctionOnSet(v, T)
  BY <1>1, SizeIsSum
<1> QED BY <1>1, <1>2, <1>3

(* The calls in chains are those of the chains.                              *)
LEMMA ChainedCallsAreCounted ==
    ASSUME TrafficInv, CallsAreNumbered
    PROVE  /\ Cardinality(ChainedCalls) = SumFunctionOnSet(LengthOf, DOMAIN Chains)
           /\ Numbers(LengthOf, DOMAIN Chains)
<1> DEFINE v == [k \in ChainedCalls |-> 1]
<1> DEFINE u == [i \in DOMAIN Chains |-> [j \in DOMAIN Chains[i].calls |-> 1]]
<1>1. IsFiniteSet(ChainedCalls)
  <2>1. ChainedCalls \subseteq ModelCalls
    BY DEF ChainedCalls
  <2> QED BY <2>1, CaptureIsFinite, FS_Subset
<1>2. \A k \in ChainedCalls : v[k] = 1
  OBVIOUS
<1>3. \A i \in DOMAIN Chains : \A j \in DOMAIN Chains[i].calls : u[i][j] = 1
  OBVIOUS
<1> HIDE DEF u, v
<1>4. ASSUME NEW i \in DOMAIN Chains
      PROVE  LengthOf[i] = SumFunctionOnSet(u[i], DOMAIN Chains[i].calls)
  <2> DEFINE c == Chains[i].calls
  <2> DEFINE q == u[i]
  <2>1. IsSequence(c) /\ \A j \in DOMAIN c : q[j] = 1
    BY <1>3, ChainFacts
  <2>2. LengthOf[i] = Len(c)
    BY ChainSummaries DEF LengthOf
  <2> HIDE DEF c, q
  <2>3. IsFiniteSet(DOMAIN c) /\ Cardinality(DOMAIN c) = Len(c)
    BY <2>1, SequenceFacts, FS_Interval
  <2>4. Cardinality(DOMAIN c) = SumFunctionOnSet(q, DOMAIN c)
    BY <2>1, <2>3, SizeIsSum
  <2> QED BY <2>2, <2>3, <2>4 DEF c, q
<1>5. Numbers(v, ChainedCalls)
  BY <1>2 DEF Numbers
<1>6. \A i \in DOMAIN Chains : \A j \in DOMAIN Chains[i].calls : \A k \in ChainedCalls :
        Capture[k] = Chains[i].calls[j] => u[i][j] = v[k]
  BY <1>2, <1>3
<1>7. /\ SumFunctionOnSet(v, ChainedCalls) = SumFunctionOnSet(LengthOf, DOMAIN Chains)
      /\ Numbers(LengthOf, DOMAIN Chains)
  BY <1>4, <1>5, <1>6, ChainsAddUp
<1>8. Cardinality(ChainedCalls) = SumFunctionOnSet(v, ChainedCalls)
  BY <1>1, <1>2, SizeIsSum
<1> QED BY <1>7, <1>8

(* What a call in a chain says, in the capture and in the chain.             *)
LEMMA ChainedCallIsSaid ==
    ASSUME TrafficInv, CallsAreNumbered, AnswersSayAll,
           NEW i \in DOMAIN Chains, NEW j \in DOMAIN Chains[i].calls
    PROVE  /\ \E k \in ModelCalls : Capture[k] = Chains[i].calls[j]
           /\ \E p \in Protocols : AllSaid(p, Chains[i].calls[j].usage, Chains[i].calls[j].said)
<1>1. PICK k \in ModelCalls : Capture[k] = Chains[i].calls[j]
  BY ChainFacts
<1>2. traffic.mix.protocol \in Protocols /\ AllSaid(traffic.mix.protocol, Capture[k].usage, Capture[k].said)
  BY ModelCallIsSaid
<1> QED BY <1>1, <1>2

(* So are those of them that have a usage.                                   *)
LEMMA ChainedUsagesAreCounted ==
    ASSUME TrafficInv, CallsAreNumbered, AnswersSayAll
    PROVE  /\ Cardinality(Seen(ChainedCalls)) = SumFunctionOnSet(ObservedOf, DOMAIN Chains)
           /\ Numbers(ObservedOf, DOMAIN Chains)
<1> DEFINE T == Seen(ChainedCalls)
<1> DEFINE has(x) == HasUsage(x.usage)
<1> DEFINE v == [k \in ChainedCalls |-> IF k \in T THEN 1 ELSE 0]
<1> DEFINE u == [i \in DOMAIN Chains |-> [j \in DOMAIN Chains[i].calls |-> IF has(Chains[i].calls[j]) THEN 1 ELSE 0]]
<1>1. IsFiniteSet(ChainedCalls) /\ T \subseteq ChainedCalls
  <2>1. ChainedCalls \subseteq ModelCalls
    BY DEF ChainedCalls
  <2> QED BY <2>1, CaptureIsFinite, FS_Subset DEF Seen
<1>2. \A k \in ChainedCalls : v[k] = IF k \in T THEN 1 ELSE 0
  OBVIOUS
<1>3. \A i \in DOMAIN Chains : \A j \in DOMAIN Chains[i].calls :
        u[i][j] = IF has(Chains[i].calls[j]) THEN 1 ELSE 0
  OBVIOUS
<1>4. \A k \in ChainedCalls : k \in T <=> has(Capture[k])
  BY DEF Seen
<1> HIDE DEF u, v, T, has
<1>5. SumFunctionOnSet(v, ChainedCalls) = Cardinality(T) /\ Numbers(v, ChainedCalls)
  BY <1>1, <1>2, SizeOfSome
<1>6. ASSUME NEW i \in DOMAIN Chains
      PROVE  ObservedOf[i] = SumFunctionOnSet(u[i], DOMAIN Chains[i].calls)
  <2> DEFINE c == Chains[i].calls
  <2> DEFINE q == u[i]
  <2> DEFINE D == DOMAIN c
  <2> DEFINE A == {j \in D : DOMAIN ProviderSummary(c[j].usage) # {}}
  <2>1. ObservedOf[i] = Cardinality(A)
    BY ChainSummaries DEF ObservedOf
  <2>2. ASSUME NEW j \in D PROVE q[j] = IF j \in A THEN 1 ELSE 0
    <3>1. \E p \in Protocols : AllSaid(p, c[j].usage, c[j].said)
      BY ChainedCallIsSaid
    <3>2. DOMAIN ProviderSummary(c[j].usage) # {} <=> has(c[j])
      <4> HIDE DEF c
      <4> QED BY <3>1, SameSummary DEF has
    <3>3. q[j] = IF has(c[j]) THEN 1 ELSE 0
      BY <1>3
    <3> HIDE DEF c, q, D
    <3> QED BY <3>2, <3>3
  <2>3. IsFiniteSet(D) /\ A \subseteq D
    BY ChainFacts
  <2> HIDE DEF A, D, q
  <2>4. SumFunctionOnSet(q, D) = Cardinality(A)
    BY <2>2, <2>3, SizeOfSome
  <2> QED BY <2>1, <2>4 DEF q, D
<1>7. \A i \in DOMAIN Chains : \A j \in DOMAIN Chains[i].calls : \A k \in ChainedCalls :
        Capture[k] = Chains[i].calls[j] => u[i][j] = v[k]
  BY <1>2, <1>3, <1>4
<1>8. /\ SumFunctionOnSet(v, ChainedCalls) = SumFunctionOnSet(ObservedOf, DOMAIN Chains)
      /\ Numbers(ObservedOf, DOMAIN Chains)
  BY <1>5, <1>6, <1>7, ChainsAddUp
<1> QED BY <1>5, <1>8 DEF T

(* And where every chain has a total, it is of what its calls are accounted   *)
(* with.                                                                     *)
LEMMA ChainTotalsAddUp ==
    ASSUME TrafficInv, CallsAreNumbered, AnswersSayAll, NEW f \in ChainFields,
           \A i \in DOMAIN Chains : Available(Summaries[i].totals[f])
    PROVE  /\ SumFunctionOnSet(Values(f), SaidOf(ChainedCalls, f)) = SumFunctionOnSet(TotalOf(f), DOMAIN Chains)
           /\ Numbers(TotalOf(f), DOMAIN Chains)
<1> DEFINE tells(x) == f \in AccountedFields(x.usage)
<1> DEFINE says(x) == AccountedValue(x.usage, f)
<1> DEFINE u == [i \in DOMAIN Chains |-> [j \in DOMAIN Chains[i].calls |-> says(Chains[i].calls[j])]]
<1>1. f \in UsageFields
  BY DEF ChainFields, UsageFields
<1>2. ASSUME NEW i \in DOMAIN Chains, NEW j \in DOMAIN Chains[i].calls
      PROVE  /\ tells(Chains[i].calls[j])
             /\ Given(ProviderSummary(Chains[i].calls[j].usage)[f])
             /\ ProviderSummary(Chains[i].calls[j].usage)[f].value = says(Chains[i].calls[j])
  <2> DEFINE c == Chains[i].calls
  <2>1. PICK p \in Protocols : AllSaid(p, c[j].usage, c[j].said)
    BY ChainedCallIsSaid
  <2>2. Available(Told(ProviderSummary(c[j].usage), f))
    <3> DEFINE all == \A l \in DOMAIN c : Available(Told(ProviderSummary(c[l].usage), f))
    <3>1. all
      <4>1. ~ all => Summaries[i].totals[f] = NoMeasurement
        BY ChainSummaries
      <4>2. ~ Available(NoMeasurement)
        BY DEF Available, NoMeasurement
      <4>3. Available(Summaries[i].totals[f])
        OBVIOUS
      <4> HIDE DEF all
      <4> QED BY <4>1, <4>2, <4>3
    <3> QED BY <3>1
  <2>3. f \in SummaryFields(c[j].usage)
    <3> HIDE DEF c
    <3> QED BY <2>1, <2>2, SameSummary
  <2>4. /\ f \in AccountedFields(c[j].usage) /\ Given(ProviderSummary(c[j].usage)[f])
        /\ ProviderSummary(c[j].usage)[f].value = AccountedValue(c[j].usage, f)
    <3> HIDE DEF c
    <3> QED BY <2>1, <2>3, SameSummary
  <2> QED BY <2>4
<1>3. \A i \in DOMAIN Chains : \A j \in DOMAIN Chains[i].calls : u[i][j] = says(Chains[i].calls[j])
  OBVIOUS
<1>4. SaidOf(ChainedCalls, f) = ChainedCalls
  <2>1. ASSUME NEW k \in ChainedCalls PROVE HasUsage(Capture[k].usage) /\ f \in AccountedFields(Capture[k].usage)
    <3>1. k \in ModelCalls /\ Capture[k].id \in Chained
      BY DEF ChainedCalls
    <3>2. PICK i \in DOMAIN Chains : \E j \in DOMAIN Chains[i].calls : Capture[k].id = Chains[i].calls[j].id
      BY <3>1 DEF Chained, InChains, Chains
    <3>3. PICK j \in DOMAIN Chains[i].calls : Capture[k].id = Chains[i].calls[j].id
      BY <3>2
    <3>4. PICK l \in ModelCalls : Capture[l] = Chains[i].calls[j]
      BY ChainFacts
    <3>5. k = l
      <4>1. k \in DOMAIN Capture /\ l \in DOMAIN Capture /\ Capture[k].id = Capture[l].id
        BY <3>1, <3>3, <3>4 DEF ModelCalls
      <4> QED BY <4>1 DEF CallsAreNumbered, Capture
    <3>6. f \in AccountedFields(Capture[k].usage)
      BY <1>2, <3>4, <3>5
    <3>7. HasUsage(Capture[k].usage)
      BY <1>1, <3>1, <3>6, ModelCallIsSaid, SameReading
    <3> QED BY <3>6, <3>7
  <2> QED BY <2>1 DEF SaidOf, Seen
<1>5. \A k \in ChainedCalls : Values(f)[k] = says(Capture[k])
  BY DEF Values, ChainedCalls
<1> HIDE DEF u, tells, says
<1>6. ASSUME NEW i \in DOMAIN Chains
      PROVE  TotalOf(f)[i] = SumFunctionOnSet(u[i], DOMAIN Chains[i].calls)
  <2> DEFINE c == Chains[i].calls
  <2> DEFINE D == DOMAIN c
  <2> DEFINE q == u[i]
  <2> DEFINE ms == [j \in D |-> ProviderSummary(c[j].usage)[f]]
  <2>1. TotalOf(f)[i] = AddAll(ms).value
    <3> DEFINE all == \A j \in D : Available(Told(ProviderSummary(c[j].usage), f))
    <3>1. Summaries[i].totals[f] = IF all THEN AddAll(ms) ELSE NoMeasurement
      BY ChainSummaries
    <3>2. ~ Available(NoMeasurement) /\ Available(Summaries[i].totals[f])
      BY DEF Available, NoMeasurement
    <3>3. TotalOf(f)[i] = Summaries[i].totals[f].value
      BY DEF TotalOf
    <3> HIDE DEF all, ms
    <3> QED BY <3>1, <3>2, <3>3
  <2>2. \A j \in D : Given(ms[j]) /\ ms[j].value = q[j]
    <3> TAKE j \in D
    <3>1. q[j] = says(c[j])
      BY <1>3
    <3>2. Given(ProviderSummary(c[j].usage)[f]) /\ ProviderSummary(c[j].usage)[f].value = says(c[j])
      BY <1>2
    <3>3. ms[j] = ProviderSummary(c[j].usage)[f]
      OBVIOUS
    <3> HIDE DEF ms, q, c, D
    <3> QED BY <3>1, <3>2, <3>3
  <2>3. IsSequence(c)
    BY ChainFacts
  <2>4. IsSequence(ms) /\ DOMAIN ms = D
    <3>1. DOMAIN ms = D /\ ms = [j \in D |-> ms[j]]
      OBVIOUS
    <3>2. D = 1..Len(c) /\ Len(c) \in Nat
      <4> HIDE DEF c
      <4> QED BY <2>3, SequenceFacts
    <3> HIDE DEF ms, D, c
    <3>3. IsSequence(ms)
      BY <3>1, <3>2, MappingIsSequence
    <3> QED BY <3>1, <3>3
  <2> HIDE DEF ms, q, D
  <2>5. AddAll(ms).value = SumFunctionOnSet(q, D)
    BY <2>2, <2>4, AllAreAdded
  <2> QED BY <2>1, <2>5 DEF q, D
<1>7. Numbers(Values(f), ChainedCalls)
  BY <1>1, ValuesAreNumbers DEF Numbers, ChainedCalls
<1>8. \A i \in DOMAIN Chains : \A j \in DOMAIN Chains[i].calls : \A k \in ChainedCalls :
        Capture[k] = Chains[i].calls[j] => u[i][j] = Values(f)[k]
  BY <1>3, <1>5
<1>9. /\ SumFunctionOnSet(Values(f), ChainedCalls) = SumFunctionOnSet(TotalOf(f), DOMAIN Chains)
      /\ Numbers(TotalOf(f), DOMAIN Chains)
  BY <1>6, <1>7, <1>8, ChainsAddUp
<1> QED BY <1>4, <1>9

(* What `chains` shows is the summaries, the newest chain first.             *)
Sorted(p, s) == Permutes(p, Len(Chains)) /\ s = [k \in 1..Len(Chains) |-> Summaries[p[k]]]

LEMMA ChainsAreShown ==
    ASSUME TrafficInv, CallsAreNumbered
    PROVE  \E p : Sorted(p, AnalyzeChains(Capture))
<1> DEFINE t == Summaries
<1> DEFINE s == StrictSequence(t)
<1>1. IsSequence(Chains)
  BY ChainFacts
<1>2. DOMAIN Chains = 1..Len(Chains) /\ Len(Chains) \in Nat
  BY <1>1, SequenceFacts
<1>3. IsSequence(t) /\ Len(t) = Len(Chains) /\ DOMAIN t = DOMAIN Chains
  <2>1. t = [i \in DOMAIN Chains |-> t[i]] /\ DOMAIN t = DOMAIN Chains
    BY DEF Summaries
  <2> HIDE DEF t
  <2>2. t = [i \in 1..Len(Chains) |-> t[i]]
    BY <1>2, <2>1
  <2> QED BY <1>2, <2>1, <2>2, MappingIsSequence
<1>4. AnalyzeChains(Capture) = NewestFirst(s)
  BY DEF AnalyzeChains, NewestFirst, Summaries, Chains
<1>5. \A i \in DOMAIN Chains : t[i].started \in Int
  BY ChainSummaries
<1> HIDE DEF t
<1>6. IsSequence(s) /\ Len(s) = Len(Chains) /\ DOMAIN s = DOMAIN Chains /\ \A i \in DOMAIN Chains : s[i] = t[i]
  BY <1>3, SameSequence
<1> HIDE DEF s
<1>7. PICK p : Permutes(p, Len(s)) /\ NewestFirst(s) = [k \in 1..Len(s) |-> s[p[k]]]
  BY <1>5, <1>6, ChainsAreSorted
<1>8. \A k \in 1..Len(Chains) : p[k] \in DOMAIN Chains
  BY <1>2, <1>6, <1>7 DEF Permutes
<1>9. NewestFirst(s) = [k \in 1..Len(Chains) |-> t[p[k]]]
  BY <1>6, <1>7, <1>8
<1> QED BY <1>4, <1>6, <1>7, <1>9 DEF Sorted, t

(* A sum over what is shown is the sum over the chains.                      *)
LEMMA ShownAddsUp ==
    ASSUME TrafficInv, CallsAreNumbered, NEW p, NEW s, Sorted(p, s),
           NEW v, Numbers(v, DOMAIN Chains),
           NEW w, DOMAIN w = DOMAIN s, \A k \in DOMAIN s : w[k] = v[p[k]]
    PROVE  SumFunction(w) = SumFunctionOnSet(v, DOMAIN Chains)
<1> DEFINE D == DOMAIN Chains
<1>1. D = 1..Len(Chains) /\ DOMAIN s = D /\ IsFiniteSet(D)
  <2>1. IsSequence(Chains) /\ IsFiniteSet(D)
    BY ChainFacts
  <2>2. D = 1..Len(Chains)
    BY <2>1, SequenceFacts
  <2> QED BY <2>1, <2>2 DEF Sorted
<1>2. Carries(p, w, D, v, D)
  BY <1>1 DEF Sorted, Permutes, Carries
<1> HIDE DEF D
<1>3. SumFunctionOnSet(w, D) = SumFunctionOnSet(v, D)
  BY <1>1, <1>2, SumOfImage DEF D
<1> QED BY <1>1, <1>3 DEF SumFunction, D

(* The report and the chains agree.                                          *)
LEMMA AccountsAgree == TrafficInv /\ CallsAreNumbered /\ AnswersSayAll => AccountAgreesWithChains
<1> SUFFICES ASSUME TrafficInv, CallsAreNumbered, AnswersSayAll PROVE Agree(Profile, AnalyzeChains(Capture))
  BY DEF AccountAgreesWithChains, Profile
<1> DEFINE s == AnalyzeChains(Capture)
<1>1. PICK p : Sorted(p, s)
  BY ChainsAreShown
<1> HIDE DEF s
<1>2. DOMAIN s = DOMAIN Chains /\ \A k \in DOMAIN s : p[k] \in DOMAIN Chains /\ s[k] = Summaries[p[k]]
  <2>1. IsSequence(Chains)
    BY ChainFacts
  <2>2. DOMAIN Chains = 1..Len(Chains)
    BY <2>1, SequenceFacts
  <2> QED BY <1>1, <2>2 DEF Sorted, Permutes
<1>3. /\ Profile.http = SumWhere(DOMAIN Profile.kinds, LAMBDA k : Profile.kinds[k])
      /\ Profile.http = SumWhere(RequestOutcomes, LAMBDA o : Profile.outcomes[o])
  BY RequestsAreCounted
<1>4. Profile.chained.requests = SumWhere(DOMAIN s, LAMBDA i : Len(s[i].calls))
  <2> DEFINE w == [i \in DOMAIN s |-> Len(s[i].calls)]
  <2>1. DOMAIN w = DOMAIN s /\ \A k \in DOMAIN s : w[k] = LengthOf[p[k]]
    BY <1>2 DEF LengthOf
  <2>2. SumWhere(DOMAIN s, LAMBDA i : Len(s[i].calls)) = SumFunction(w)
    BY DEF SumWhere
  <2> HIDE DEF w
  <2>3. SumFunction(w) = SumFunctionOnSet(LengthOf, DOMAIN Chains)
    BY <1>1, <2>1, ChainedCallsAreCounted, ShownAddsUp
  <2> QED BY <2>2, <2>3, ChainedCallsAreCounted, ProfileIsOfCalls
<1>5. Profile.chained.account.observed = SumWhere(DOMAIN s, LAMBDA i : s[i].observed)
  <2> DEFINE w == [i \in DOMAIN s |-> s[i].observed]
  <2>1. DOMAIN w = DOMAIN s /\ \A k \in DOMAIN s : w[k] = ObservedOf[p[k]]
    BY <1>2 DEF ObservedOf
  <2>2. SumWhere(DOMAIN s, LAMBDA i : s[i].observed) = SumFunction(w)
    BY DEF SumWhere
  <2> HIDE DEF w
  <2>3. SumFunction(w) = SumFunctionOnSet(ObservedOf, DOMAIN Chains)
    BY <1>1, <2>1, ChainedUsagesAreCounted, ShownAddsUp
  <2>4. ChainedCalls \subseteq ModelCalls
    BY DEF ChainedCalls
  <2>5. Profile.chained.account.observed = Cardinality(Seen(ChainedCalls))
    BY <2>4, ProfileIsOfCalls, AccountOfCalls
  <2> QED BY <2>2, <2>3, <2>5, ChainedUsagesAreCounted
<1>6. ASSUME NEW f \in UsageFields
      PROVE  /\ Profile.observed.account.count[f] =
                  Profile.chained.account.count[f] + Profile.uncorrelated.account.count[f]
             /\ Profile.observed.account.sum[f] =
                  Profile.chained.account.sum[f] + Profile.uncorrelated.account.sum[f]
  <2>1. ChainedCalls \subseteq ModelCalls /\ Numbers(Values(f), ModelCalls)
    BY ValuesAreNumbers DEF ChainedCalls
  <2> QED BY <2>1, ProfileIsOfCalls, AccountsAddUp
<1>7. ASSUME NEW f \in ChainFields, \A i \in DOMAIN s : Available(s[i].totals[f])
      PROVE  Profile.chained.account.sum[f] = SumWhere(DOMAIN s, LAMBDA i : s[i].totals[f].value)
  <2> DEFINE w == [i \in DOMAIN s |-> s[i].totals[f].value]
  <2>1. DOMAIN w = DOMAIN s /\ \A k \in DOMAIN s : w[k] = TotalOf(f)[p[k]]
    BY <1>2 DEF TotalOf
  <2>2. SumWhere(DOMAIN s, LAMBDA i : s[i].totals[f].value) = SumFunction(w)
    BY DEF SumWhere
  <2> HIDE DEF w
  <2>3. ASSUME NEW i \in DOMAIN Chains PROVE Available(Summaries[i].totals[f])
    <3>1. PICK k \in 1..Len(Chains) : p[k] = i
      <4>1. IsSequence(Chains)
        BY ChainFacts
      <4>2. DOMAIN Chains = 1..Len(Chains)
        BY <4>1, SequenceFacts
      <4> QED BY <1>1, <4>2 DEF Sorted, Permutes
    <3>2. k \in DOMAIN s
      BY <1>1 DEF Sorted
    <3> QED BY <1>2, <1>7, <3>1, <3>2
  <2>4. /\ SumFunctionOnSet(Values(f), SaidOf(ChainedCalls, f)) = SumFunctionOnSet(TotalOf(f), DOMAIN Chains)
        /\ Numbers(TotalOf(f), DOMAIN Chains)
    BY <2>3, ChainTotalsAddUp
  <2>5. SumFunction(w) = SumFunctionOnSet(TotalOf(f), DOMAIN Chains)
    BY <1>1, <2>1, <2>4, ShownAddsUp
  <2>6. f \in UsageFields /\ ChainedCalls \subseteq ModelCalls
    BY DEF ChainFields, UsageFields, ChainedCalls
  <2>7. Profile.chained.account.sum[f] = SumFunctionOnSet(Values(f), SaidOf(ChainedCalls, f))
    BY <2>6, ValuesAreNumbers, ProfileIsOfCalls, AccountOfCalls
  <2> QED BY <2>2, <2>4, <2>5, <2>7
<1> QED BY <1>3, <1>4, <1>5, <1>6, <1>7 DEF Agree, s

(* AccountAgreesWithChains, for every mix whose answers say their counts where *)
(* the proxy reads them: `report` (internal/gateway/profile_accounting.go:57)   *)
(* and `chains` (internal/gateway/chain.go:138) read a capture apart and count  *)
(* the same calls, the same usages and the same tokens in chains.              *)
THEOREM AccountsAgreeWithChains ==
    ASSUME AnswersSayAll
    PROVE  TrafficSpec => []AccountAgreesWithChains
<1>1. TrafficSpec => []TrafficInv
  BY TrafficInvHolds
<1>2. TrafficSpec => []CallsAreNumbered
  BY CallsNumbered
<1>3. TrafficInv /\ CallsAreNumbered => AccountAgreesWithChains
  BY AccountsAgree
<1> QED BY <1>1, <1>2, <1>3, PTL
===============================================================================
