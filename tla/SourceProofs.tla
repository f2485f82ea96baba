----------------------------- MODULE SourceProofs -----------------------------
(***************************************************************************)
(* Proofs about what is read from the agents' own files: what detection    *)
(* finds, how a file is split into records, and what the readers make of   *)
(* a transcript; and about the configuration that names them.              *)
(***************************************************************************)
EXTENDS SourceDetection, RecordReader, CodexSession, ConfigStore, InductionLemmas

-----------------------------------------------------------------------------
(* Detection. *)

\* What a machine may be.
MachineType ==
    /\ machine.paths \in [Paths -> PathStates]
    /\ machine.binary \in BOOLEAN
    /\ machine.config \in {"", OtherPath}
    /\ machine.cli \in {"", OtherPath}
    /\ DOMAIN machine = {"paths", "binary", "endpoint", "config", "cli", "changes"}

(* Every change of the machine leaves it a machine.                         *)
LEMMA MachineTyped == DetectionSpec => []MachineType
<1>1. DetectionInit => MachineType
  <2> SUFFICES ASSUME DetectionInit PROVE MachineType
    OBVIOUS
  <2>1. /\ machine.paths = [p \in Paths |-> NoFiles("missing")] /\ machine.binary = FALSE
        /\ machine.config = "" /\ machine.cli = ""
        /\ DOMAIN machine = {"paths", "binary", "endpoint", "config", "cli", "changes"}
    BY DEF DetectionInit
  <2> QED BY <2>1 DEF MachineType, PathStates
<1>2. MachineType /\ [DetectionNext]_machine => MachineType'
  <2> SUFFICES ASSUME MachineType, [DetectionNext]_machine PROVE MachineType'
    OBVIOUS
  <2> USE DEF MachineType, Change
  <2>1. CASE UNCHANGED machine
    BY <2>1
  <2>2. ASSUME NEW p \in Paths, NEW s \in PathStates,
               Change("paths", [machine.paths EXCEPT ![p] = s])
        PROVE  MachineType'
    BY <2>2
  <2>3. CASE Change("binary", ~machine.binary)
    BY <2>3
  <2>4. ASSUME NEW e \in Endpoints, Change("endpoint", e) PROVE MachineType'
    BY <2>4
  <2>5. ASSUME NEW p \in {"", OtherPath}, NEW field \in {"config", "cli"}, Change(field, p)
        PROVE  MachineType'
    BY <2>5
  <2> QED
    BY <2>1, <2>2, <2>3, <2>4, <2>5 DEF DetectionNext
<1> QED
  BY <1>1, <1>2, PTL DEF DetectionSpec

(* What the search for an agent concludes, and from what: the first path     *)
(* that is broken or has data decides, and is the last that is tried.       *)
LEMMA SearchFacts ==
    ASSUME NEW install, NEW sessions \in Seq(STRING)
    PROVE  LET found == DetectAutoPathSource(install, sessions)
               state(i) == PathState(sessions[i])
           IN  /\ found.status \in {"ready", "broken", "installed", "unavailable"}
               /\ found.status = "ready" =>
                    /\ found.location \in ToSet(sessions)
                    /\ PathState(found.location) = "usable" /\ HasSessionData(found.location)
               /\ found.status = "unavailable" =>
                    /\ \A i \in DOMAIN sessions : state(i) = "missing"
                    /\ ~ machine.binary
               /\ found.status = "broken" =>
                    \/ \E j \in DOMAIN sessions :
                         /\ state(j) = "broken"
                         /\ \A i \in DOMAIN sessions :
                              state(i) = "usable" /\ HasSessionData(sessions[i]) => j < i
                    \/ /\ \A i \in DOMAIN sessions : state(i) = "missing"
                       /\ \E p \in ToSet(install) : PathState(p) = "broken"
               /\ found.status = "installed" =>
                    /\ \A i \in DOMAIN sessions : ~ (state(i) = "usable" /\ HasSessionData(sessions[i]))
                    /\ \/ \E i \in DOMAIN sessions : state(i) # "missing"
                       \/ machine.binary
                       \/ \E p \in ToSet(install) : PathState(p) = "usable"
<1> DEFINE decides(p) == PathState(p) = "broken" \/ (PathState(p) = "usable" /\ HasSessionData(p))
<1> DEFINE I == {i \in 1..Len(sessions) : decides(sessions[i])}
<1> DEFINE first == SelectInSeq(sessions, decides)
<1> DEFINE upTo == IF first = 0 THEN Len(sessions) ELSE first
<1> DEFINE tried == {i \in 1..upTo : PathState(sessions[i]) # "missing"}
<1> DEFINE location == IF tried = {} THEN "" ELSE sessions[Max(tried)]
<1> DEFINE found(state) == \E p \in ToSet(install) : PathState(p) = state
<1> DEFINE r == DetectAutoPathSource(install, sessions)
<1>1. /\ first = 0 => I = {}
      /\ first # 0 => first \in I /\ \A i \in I : first <= i
  <2>1. first = IF I # {} THEN Min(I) ELSE 0
    BY DEF SelectInSeq
  <2>2. I \subseteq Nat /\ 0 \notin I
    OBVIOUS
  <2> HIDE DEF I, first
  <2>3. ASSUME I # {} PROVE Min(I) \in I /\ \A i \in I : Min(I) <= i
    <3>1. \E n \in I : \A m \in I : n <= m
      BY <2>2, <2>3, LeastNumber
    <3> QED BY <3>1 DEF Min
  <2> QED BY <2>1, <2>2, <2>3
<1>2. first # 0 => tried # {} /\ Max(tried) = first
  <2> SUFFICES ASSUME first # 0 PROVE tried # {} /\ Max(tried) = first
    OBVIOUS
  <2>1. first \in 1..Len(sessions) /\ decides(sessions[first])
    BY <1>1
  <2> HIDE DEF first
  <2>2. first \in tried /\ \A j \in tried : j <= first /\ j \in Nat
    BY <2>1
  <2> HIDE DEF tried
  <2>3. \A x \in tried : (\A y \in tried : x >= y) => x = first
    BY <2>2, <2>1
  <2> QED BY <2>2, <2>3, <2>1 DEF Max
<1>3. r = CASE first # 0 -> Detection(IF PathState(sessions[first]) = "broken" THEN "broken"
                                      ELSE "ready", "auto", location)
            [] first = 0 /\ (tried # {} \/ machine.binary \/ found("usable")) ->
                 Detection("installed", "auto", location)
            [] first = 0 /\ tried = {} /\ ~machine.binary /\ ~found("usable") /\ found("broken") ->
                 Detection("broken", "auto", location)
            [] OTHER -> Detection("unavailable", "none", location)
  BY DEF DetectAutoPathSource
<1>4. ToSet(sessions) = {sessions[i] : i \in 1..Len(sessions)} /\ DOMAIN sessions = 1..Len(sessions)
  BY DEF ToSet
<1>5. first # 0 =>
        /\ first \in 1..Len(sessions) /\ decides(sessions[first])
        /\ r = Detection(IF PathState(sessions[first]) = "broken" THEN "broken"
                         ELSE "ready", "auto", sessions[first])
  <2> HIDE DEF r, tried
  <2> QED BY <1>1, <1>2, <1>3
<1>6. first = 0 => upTo = Len(sessions)
  OBVIOUS
<1>7. first = 0 => (tried = {} <=> \A i \in 1..Len(sessions) : PathState(sessions[i]) = "missing")
  BY <1>6
<1>8. first = 0 => \A i \in 1..Len(sessions) : ~ decides(sessions[i])
  BY <1>1
<1>9. first # 0 => \A i \in 1..Len(sessions) : decides(sessions[i]) => first <= i
  BY <1>1
<1>10. Len(sessions) \in Nat
  OBVIOUS
<1> HIDE DEF r, first, tried, upTo
<1>11. CASE first # 0
  <2>1. CASE PathState(sessions[first]) = "broken"
    <3>1. r.status = "broken"
      BY <1>5, <1>11, <2>1 DEF Detection
    <3>2. \A i \in 1..Len(sessions) :
            PathState(sessions[i]) = "usable" /\ HasSessionData(sessions[i]) => first < i
      <4> SUFFICES ASSUME NEW i \in 1..Len(sessions), PathState(sessions[i]) = "usable",
                          HasSessionData(sessions[i])
                   PROVE  first < i
        OBVIOUS
      <4>1. first <= i /\ first # i
        BY <1>9, <1>11, <2>1
      <4>2. first \in Int /\ i \in Int
        BY <1>5, <1>10, <1>11
      <4> QED BY <4>1, <4>2
    <3>3. \E j \in DOMAIN sessions :
            /\ PathState(sessions[j]) = "broken"
            /\ \A i \in DOMAIN sessions :
                 PathState(sessions[i]) = "usable" /\ HasSessionData(sessions[i]) => j < i
      BY <1>4, <1>5, <1>11, <2>1, <3>2
    <3> QED BY <3>1, <3>3 DEF r
  <2>2. CASE PathState(sessions[first]) # "broken"
    <3>1. /\ r.status = "ready" /\ r.location = sessions[first]
          /\ PathState(sessions[first]) = "usable" /\ HasSessionData(sessions[first])
      BY <1>5, <1>11, <2>2 DEF Detection
    <3>2. sessions[first] \in ToSet(sessions)
      BY <1>4, <1>5, <1>11
    <3> QED BY <3>1, <3>2 DEF r
  <2> QED BY <2>1, <2>2
<1>12. CASE first = 0
  <2> HIDE DEF location
  <2> QED BY <1>3, <1>4, <1>7, <1>8, <1>12 DEF Detection, r
<1> QED
  BY <1>11, <1>12

(* Detection and reading agree as far as the search reaches: what is ready   *)
(* has a transcript in reach, and what is read makes the agent ready, or it  *)
(* lies too deep, or comes after a path that is broken (internal/source,     *)
(* DetectAutoPathSource, and collectSessionFiles of the agents).            *)
THEOREM DetectionIsTrue == DetectionSpec => []DetectedIsRead
<1>1. MachineType => DetectedIsRead
  <2> SUFFICES ASSUME MachineType PROVE DetectedIsRead
    OBVIOUS
  <2> DEFINE found == DetectAgent
  <2> DEFINE broken(j) == machine.paths[SessionPaths[j]].kind \in {"not_directory", "unreadable"}
  <2>1. SessionPaths \in Seq(STRING) /\ InstallPaths \in Seq(STRING)
    BY PathsAssumption
  <2>2. /\ \A i \in DOMAIN SessionPaths : SessionPaths[i] \in Paths \ {OtherPath}
        /\ \A p \in ToSet(SessionPaths) \cup ToSet(InstallPaths) : p \in Paths \ {OtherPath}
    BY <2>1, PathsAssumption DEF Paths, ToSet
  <2>3. ASSUME NEW p \in Paths
        PROVE  /\ machine.paths[p].kind \in {"missing", "not_directory", "unreadable", "directory"}
               /\ machine.paths[p].files # {} => machine.paths[p].kind = "directory"
               /\ machine.paths[p].files \subseteq TranscriptFiles
    <3>1. machine.paths[p] \in PathStates
      BY DEF MachineType
    <3>2. CASE machine.paths[p] \in [kind : {"directory"}, files : SUBSET TranscriptFiles]
      BY <3>2
    <3>3. CASE \E k \in {"missing", "not_directory", "unreadable"} : machine.paths[p] = NoFiles(k)
      BY <3>3 DEF NoFiles
    <3> QED BY <3>1, <3>2, <3>3 DEF PathStates
  <2>4. \A p \in Paths :
          /\ PathState(p) = "missing" <=> machine.paths[p].kind = "missing"
          /\ PathState(p) = "usable" <=> machine.paths[p].kind = "directory"
          /\ PathState(p) = "broken" <=> machine.paths[p].kind \in {"not_directory", "unreadable"}
    BY <2>3 DEF PathState
  <2>5. ASSUME Override.path = ""
        PROVE  /\ found.status = "ready" =>
                    /\ found.location \in ToSet(SessionPaths)
                    /\ \E f \in machine.paths[found.location].files : f.depth <= SearchDepth
               /\ \A i \in DOMAIN SessionPaths : \A f \in SessionFilesIn(SessionPaths[i]) :
                    \/ found.status = "ready"
                    \/ found.status = "installed" /\ f.depth > SearchDepth
                    \/ found.status = "broken" /\ \E j \in DOMAIN SessionPaths :
                          broken(j) /\ (j < i \/ f.depth > SearchDepth)
               /\ (\A p \in Paths \ {OtherPath} : machine.paths[p].kind = "missing") =>
                    found.status = IF machine.binary THEN "installed" ELSE "unavailable"
    <3>1. found = DetectAutoPathSource(InstallPaths, SessionPaths)
      BY <2>5 DEF DetectAgent
    <3> DEFINE state(i) == PathState(SessionPaths[i])
    <3> HIDE DEF found
    <3>2. /\ found.status \in {"ready", "broken", "installed", "unavailable"}
          /\ found.status = "ready" =>
               /\ found.location \in ToSet(SessionPaths)
               /\ PathState(found.location) = "usable" /\ HasSessionData(found.location)
          /\ found.status = "unavailable" =>
               /\ \A i \in DOMAIN SessionPaths : state(i) = "missing"
               /\ ~ machine.binary
          /\ found.status = "broken" =>
               \/ \E j \in DOMAIN SessionPaths :
                    /\ state(j) = "broken"
                    /\ \A i \in DOMAIN SessionPaths :
                         state(i) = "usable" /\ HasSessionData(SessionPaths[i]) => j < i
               \/ /\ \A i \in DOMAIN SessionPaths : state(i) = "missing"
                  /\ \E p \in ToSet(InstallPaths) : PathState(p) = "broken"
          /\ found.status = "installed" =>
               /\ \A i \in DOMAIN SessionPaths :
                    ~ (state(i) = "usable" /\ HasSessionData(SessionPaths[i]))
               /\ \/ \E i \in DOMAIN SessionPaths : state(i) # "missing"
                  \/ machine.binary
                  \/ \E p \in ToSet(InstallPaths) : PathState(p) = "usable"
      BY <2>1, <3>1, SearchFacts
    <3>3. found.status = "ready" =>
            /\ found.location \in ToSet(SessionPaths)
            /\ \E f \in machine.paths[found.location].files : f.depth <= SearchDepth
      BY <3>2 DEF HasSessionData
    <3>4. ASSUME NEW i \in DOMAIN SessionPaths, NEW f \in SessionFilesIn(SessionPaths[i]),
                 found.status # "ready"
          PROVE  \/ found.status = "installed" /\ f.depth > SearchDepth
                 \/ found.status = "broken" /\ \E j \in DOMAIN SessionPaths :
                       broken(j) /\ (j < i \/ f.depth > SearchDepth)
      <4>1. /\ f \in machine.paths[SessionPaths[i]].files /\ SessionPaths[i] \in Paths
            /\ f.depth \in Nat /\ SearchDepth \in Nat
        BY <2>2, <2>3, FilesAssumption DEF SessionFilesIn
      <4>2. state(i) = "usable"
        BY <2>3, <2>4, <4>1
      <4>3. ~ (f.depth > SearchDepth) => HasSessionData(SessionPaths[i])
        BY <4>1 DEF HasSessionData
      <4>4. CASE found.status = "broken"
        <5>1. PICK j \in DOMAIN SessionPaths :
                /\ state(j) = "broken"
                /\ state(i) = "usable" /\ HasSessionData(SessionPaths[i]) => j < i
          BY <3>2, <4>2, <4>4
        <5>2. broken(j)
          BY <2>2, <2>4, <5>1
        <5> QED BY <4>2, <4>3, <4>4, <5>1, <5>2
      <4> QED BY <3>2, <3>4, <4>2, <4>3, <4>4
    <3>5. ASSUME \A p \in Paths \ {OtherPath} : machine.paths[p].kind = "missing"
          PROVE  found.status = IF machine.binary THEN "installed" ELSE "unavailable"
      <4>1. /\ \A i \in DOMAIN SessionPaths : state(i) = "missing"
            /\ \A p \in ToSet(SessionPaths) \cup ToSet(InstallPaths) : PathState(p) = "missing"
        BY <2>2, <2>4, <3>5
      <4>2. found.status \notin {"ready", "broken"}
        BY <3>2, <4>1
      <4>3. found.status = "installed" => machine.binary
        BY <3>2, <4>1
      <4>4. found.status = "unavailable" => ~ machine.binary
        BY <3>2
      <4> HIDE DEF state
      <4> QED BY <3>2, <4>2, <4>3, <4>4
    <3> QED BY <3>3, <3>4, <3>5
  <2>6. ASSUME Override.path # "" PROVE found.status # "unavailable" /\ found.location = Override.path
    BY <2>6 DEF DetectAgent, DetectConfiguredPath, Detection
  <2>7. DetectRouter("").status = "ready" => machine.endpoint = "identified"
    <3> DEFINE probed == ProbeEndpoint(machine.endpoint, "auto")
    <3> DEFINE installed == DetectAutoPathSource(InstallPaths, <<>>)
    <3>1. probed.status = "ready" => machine.endpoint = "identified"
      BY DEF ProbeEndpoint, Detection
    <3>2. CASE probed.status \in {"ready", "broken"} \/ installed.status # "installed"
      <4>1. DetectRouter("") = probed
        BY <3>2 DEF DetectRouter
      <4> HIDE DEF probed
      <4> QED BY <4>1, <3>1
    <3>3. CASE probed.status \notin {"ready", "broken"} /\ installed.status = "installed"
      <4>1. DetectRouter("") = installed
        BY <3>3 DEF DetectRouter
      <4> HIDE DEF installed
      <4> QED BY <4>1, <3>3
    <3> HIDE DEF probed, installed
    <3> QED BY <3>2, <3>3
  <2> QED
    BY <2>5, <2>6, <2>7 DEF DetectedIsRead
<1> QED
  BY <1>1, MachineTyped, PTL

-----------------------------------------------------------------------------
(* Records. *)

Records == [line : Nat, text : Seq(Bytes), oversized : BOOLEAN]

ReaderModes == {"next", "discard", "eof", "failed"}

\* How much of the file the buffer has been filled from.
Position == Len(file) - Len(reader.rest)

ReaderType ==
    /\ file \in Seq(Bytes)
    /\ DOMAIN reader = {"rest", "buf", "line", "mode", "out"}
    /\ reader.rest \in Seq(Bytes) /\ Len(reader.rest) <= Len(file)
    /\ reader.buf \in Seq(Bytes) /\ Len(reader.buf) <= Limit
    /\ reader.line \in Nat
    /\ reader.mode \in ReaderModes
    /\ reader.out \in Seq(Records)

\* The records that were returned are the lines up to `s`, where one ends; behind it the
\* buffer holds what was read of the next line, unless that is too long already.
ReadUpTo(s) ==
    /\ s \in 0..Position
    /\ s = 0 \/ s \in LineEnds(file)
    /\ \A i \in (s + 1)..Position : file[i] # "\n"
    /\ Len(reader.out) = NumberOf(file, s) /\ reader.line = Len(reader.out)
    /\ reader.mode \in {"next", "eof"} => reader.buf = SubSeq(file, s + 1, Position)
    /\ reader.mode = "discard" => Position - s > Limit
    /\ reader.mode = "eof" => s = Len(file)

\* The n-th record that was returned is the file's n-th line.
ReturnedIsLine(f, record, n) ==
    /\ record.line = n
    /\ \E e \in LineEnds(f) : NumberOf(f, e) = n /\ IsRecordOf(record, LineOf(f, e))

ReaderInv ==
    /\ ReaderType
    /\ \A i \in 1..Len(reader.rest) : reader.rest[i] = file[Position + i]
    /\ \E s \in Nat : ReadUpTo(s)
    /\ \A n \in DOMAIN reader.out : ReturnedIsLine(file, reader.out[n], n)

(* A part of a file has the file's bytes.                                   *)
LEMMA PartOf ==
    ASSUME NEW f \in Seq(Bytes), NEW a \in Nat, NEW b \in Nat, a <= b, b <= Len(f)
    PROVE  /\ SubSeq(f, a + 1, b) \in Seq(Bytes) /\ Len(SubSeq(f, a + 1, b)) = b - a
           /\ \A i \in 1..(b - a) : SubSeq(f, a + 1, b)[i] = f[a + i]
<1>1. \A i \in (a + 1)..b : f[i] \in Bytes
  BY ElementOfSeq
<1>2. /\ SubSeq(f, a + 1, b) \in Seq(Bytes)
      /\ Len(SubSeq(f, a + 1, b)) = IF a + 1 <= b THEN b - (a + 1) + 1 ELSE 0
      /\ \A i \in 1..(b - (a + 1) + 1) : SubSeq(f, a + 1, b)[i] = f[a + 1 + i - 1]
  BY <1>1, SubSeqProperties
<1> QED
  BY <1>2

(* Two parts that follow each other are one.                                *)
LEMMA PartsJoin ==
    ASSUME NEW f \in Seq(Bytes), NEW a \in Nat, NEW b \in Nat, NEW c \in Nat,
           a <= b, b <= c, c <= Len(f)
    PROVE  SubSeq(f, a + 1, b) \o SubSeq(f, b + 1, c) = SubSeq(f, a + 1, c)
<1> DEFINE x == SubSeq(f, a + 1, b)
<1> DEFINE y == SubSeq(f, b + 1, c)
<1> DEFINE z == SubSeq(f, a + 1, c)
<1>1. /\ x \in Seq(Bytes) /\ Len(x) = b - a /\ \A i \in 1..(b - a) : x[i] = f[a + i]
  BY PartOf
<1>2. /\ y \in Seq(Bytes) /\ Len(y) = c - b /\ \A i \in 1..(c - b) : y[i] = f[b + i]
  BY PartOf
<1>3. /\ z \in Seq(Bytes) /\ Len(z) = c - a /\ \A i \in 1..(c - a) : z[i] = f[a + i]
  BY PartOf
<1> HIDE DEF x, y, z
<1>4. /\ x \o y \in Seq(Bytes) /\ Len(x \o y) = Len(x) + Len(y)
      /\ \A i \in 1 .. Len(x) + Len(y) :
           (x \o y)[i] = IF i <= Len(x) THEN x[i] ELSE y[i - Len(x)]
  BY <1>1, <1>2, ConcatProperties
<1>5. \A i \in 1 .. Len(z) : (x \o y)[i] = z[i]
  BY <1>1, <1>2, <1>3, <1>4
<1>6. Len(x \o y) = Len(z) /\ \A i \in 1 .. Len(x \o y) : (x \o y)[i] = z[i]
  BY <1>1, <1>2, <1>3, <1>4, <1>5
<1> DEFINE xy == x \o y
<1>7. xy \in Seq(Bytes)
  BY <1>4
<1>8. x \o y = z
  <2> HIDE DEF xy
  <2> SUFFICES xy = z BY DEF xy
  <2> QED BY <1>3, <1>6, <1>7, SeqEqual DEF xy
<1> QED
  BY <1>8 DEF x, y, z

(* The next line ends one number further, and begins where the last ended.  *)
LEMMA NextLine ==
    ASSUME NEW f \in Seq(Bytes), NEW s \in Nat, NEW e \in LineEnds(f), s < e,
           s = 0 \/ s \in LineEnds(f), \A i \in (s + 1)..(e - 1) : f[i] # "\n"
    PROVE  LineOf(f, e) = SubSeq(f, s + 1, e) /\ NumberOf(f, e) = NumberOf(f, s) + 1
           /\ NumberOf(f, s) \in Nat
<1>1. LineEnds(f) \subseteq 1..Len(f) /\ Len(f) \in Nat
  BY DEF LineEnds
<1>2. \A i \in LineEnds(f) : i <= s \/ i >= e
  BY <1>1 DEF LineEnds
<1>3. Max({0} \cup {i \in LineEnds(f) : i < e}) = s
  <2> DEFINE T == {0} \cup {i \in LineEnds(f) : i < e}
  <2>1. s \in T /\ \A j \in T : j <= s /\ j \in Nat
    BY <1>1, <1>2
  <2> HIDE DEF T
  <2>2. \A x \in T : (\A y \in T : x >= y) => x = s
    BY <2>1
  <2>3. Max(T) = s
    BY <2>1, <2>2 DEF Max
  <2> QED BY <2>3 DEF T
<1>4. NumberOf(f, e) = NumberOf(f, s) + 1 /\ NumberOf(f, s) \in Nat
  <2> DEFINE A == {i \in LineEnds(f) : i <= s}
  <2>1. {i \in LineEnds(f) : i <= e} = A \cup {e} /\ e \notin A
    BY <1>1, <1>2
  <2>2. A \subseteq 1..Len(f)
    BY <1>1
  <2> HIDE DEF A
  <2>3. IsFiniteSet(A)
    BY <2>2, <1>1, FiniteNumbers
  <2>4. Cardinality(A \cup {e}) = Cardinality(A) + 1 /\ Cardinality(A) \in Nat
    BY <2>1, <2>3, FS_AddElement, FS_CardinalityType
  <2> QED BY <2>1, <2>4 DEF NumberOf, A
<1> QED
  BY <1>3, <1>4 DEF LineOf

(* What is cut off the end of a record is the end of its line.              *)
LEMMA TrimmedIsRecord ==
    ASSUME NEW raw \in Seq(Bytes), NEW n, Len(raw) <= Limit
    PROVE  /\ TrimRecordNewline(raw) \in Seq(Bytes)
           /\ IsRecordOf([line |-> n, text |-> TrimRecordNewline(raw), oversized |-> FALSE], raw)
<1> DEFINE keeps(b) == b \notin {"\n", "\r"}
<1> DEFINE I == {i \in 1..Len(raw) : keeps(raw[i])}
<1> DEFINE m == SelectLastInSeq(raw, keeps)
<1> DEFINE text == TrimRecordNewline(raw)
<1>1. Len(raw) \in Nat /\ \A i \in 1..Len(raw) : raw[i] \in Bytes
  BY ElementOfSeq
<1>2. m \in 0..Len(raw) /\ (m # 0 => raw[m] = "x") /\ \A i \in (m + 1)..Len(raw) : raw[i] # "x"
  <2>1. m = IF I # {} THEN Max(I) ELSE 0
    BY DEF SelectLastInSeq
  <2>2. I # {} => Max(I) \in I /\ \A i \in I : i <= Max(I)
    <3> SUFFICES ASSUME I # {} PROVE Max(I) \in I /\ \A i \in I : i <= Max(I)
      OBVIOUS
    <3>1. I \subseteq 1..Len(raw)
      OBVIOUS
    <3> HIDE DEF I
    <3>2. IsFiniteSet(I) /\ I \subseteq Nat
      BY <3>1, <1>1, FiniteNumbers
    <3> QED BY <3>2, GreatestNumber
  <2> HIDE DEF m
  <2>3. CASE I = {}
    BY <2>1, <2>3, <1>1 DEF Bytes
  <2>4. CASE I # {}
    <3>1. m \in I /\ \A i \in I : i <= m
      BY <2>1, <2>2, <2>4
    <3> QED BY <3>1, <1>1 DEF Bytes
  <2> QED BY <2>3, <2>4
<1>3. text = SubSeq(raw, 1, m)
  BY DEF TrimRecordNewline
<1> HIDE DEF m, text
<1>4. text \in Seq(Bytes) /\ Len(text) = m /\ \A i \in 1..m : text[i] = raw[i]
  <2>1. \A i \in 1..m : raw[i] \in Bytes
    BY <1>1, <1>2
  <2>2. /\ SubSeq(raw, 1, m) \in Seq(Bytes)
        /\ Len(SubSeq(raw, 1, m)) = IF 1 <= m THEN m - 1 + 1 ELSE 0
        /\ \A i \in 1..(m - 1 + 1) : SubSeq(raw, 1, m)[i] = raw[1 + i - 1]
    BY <1>2, <2>1, SubSeqProperties
  <2> QED BY <2>2, <1>2, <1>3
<1>5. IsPrefix(text, raw)
  <2>1. SubSeq(text, 1, Len(text)) = text
    BY <1>4, SubSeqFull
  <2> QED BY <2>1, <1>2, <1>3, <1>4 DEF IsPrefix
<1>6. text # <<>> => Last(text) = "x"
  BY <1>2, <1>4, EmptySeq DEF Last
<1>7. \A i \in (Len(text) + 1)..Len(raw) : raw[i] # "x"
  BY <1>2, <1>4
<1> DEFINE r == [line |-> n, text |-> text, oversized |-> FALSE]
<1>8. r.text = text /\ ~ r.oversized
  OBVIOUS
<1>9. ~ (Len(raw) > Limit)
  BY <1>1, ReaderAssumption
<1> HIDE DEF r
<1>10. IsRecordOf(r, raw)
  BY <1>5, <1>6, <1>7, <1>8, <1>9 DEF IsRecordOf
<1> QED
  BY <1>4, <1>10 DEF r, text

\* What a slice of the buffer holds: bytes up to a newline, a full buffer, or the rest.
Sliced(k) ==
    /\ k \in 0..Len(reader.rest)
    /\ Slice \in Seq(Bytes) /\ Len(Slice) = k
    /\ \A i \in 1..k : Slice[i] = reader.rest[i]
    /\ \A i \in 1..(k - 1) : Slice[i] # "\n"
    /\ Terminated => k = Len(reader.rest) \/ (k > 0 /\ Slice[k] = "\n")
    /\ ~ Terminated => k > 0 /\ Slice[k] # "\n"
    /\ Rest \in Seq(Bytes) /\ Len(Rest) = Len(reader.rest) - k
    /\ \A i \in 1..Len(Rest) : Rest[i] = reader.rest[k + i]

(* What ReadSlice returns.                                                  *)
LEMMA SliceFacts == ReaderType => Sliced(Len(Slice))
<1> SUFFICES ASSUME ReaderType PROVE Sliced(Len(Slice))
  OBVIOUS
<1> DEFINE rest == reader.rest
<1> DEFINE newlines == {i \in DOMAIN rest : rest[i] = "\n"}
<1> DEFINE upTo == IF newlines = {} THEN Len(rest)
                   ELSE CHOOSE i \in newlines : \A j \in newlines : i <= j
<1> DEFINE k == IF upTo < Chunk THEN upTo ELSE Chunk
<1>1. rest \in Seq(Bytes) /\ Len(rest) \in Nat /\ DOMAIN rest = 1..Len(rest)
      /\ \A i \in 1..Len(rest) : rest[i] \in Bytes
  BY ElementOfSeq DEF ReaderType
<1>2. Slice = SubSeq(rest, 1, k)
  BY DEF Slice
<1>3. /\ newlines = {} => upTo = Len(rest)
      /\ newlines # {} => upTo \in newlines /\ \A j \in newlines : upTo <= j
  <2> SUFFICES ASSUME newlines # {} PROVE upTo \in newlines /\ \A j \in newlines : upTo <= j
    OBVIOUS
  <2>1. newlines \subseteq Nat
    BY <1>1
  <2> HIDE DEF newlines
  <2>2. \E n \in newlines : \A m \in newlines : n <= m
    BY <2>1, LeastNumber
  <2> QED BY <2>2
<1>4. /\ upTo \in 0..Len(rest)
      /\ \A i \in 1..(upTo - 1) : rest[i] # "\n"
      /\ upTo = Len(rest) \/ (upTo > 0 /\ rest[upTo] = "\n")
  <2>1. CASE newlines = {}
    BY <1>1, <1>3, <2>1
  <2>2. CASE newlines # {}
    <3>1. upTo \in newlines /\ \A j \in newlines : upTo <= j
      BY <1>3, <2>2
    <3> HIDE DEF upTo
    <3> QED BY <3>1, <1>1
  <2> QED BY <2>1, <2>2
<1> HIDE DEF upTo
<1>5. k \in 0..Len(rest) /\ k <= Chunk /\ k <= upTo /\ k \in Int /\ (k < Chunk => k = upTo)
  BY <1>1, <1>4, ReaderAssumption
<1>6. CASE newlines = {} \/ newlines # {}
  <2>1. \A i \in 1..(k - 1) : rest[i] # "\n"
    BY <1>4, <1>5
  <2> HIDE DEF k
  <2>2. Slice \in Seq(Bytes) /\ Len(Slice) = k /\ \A i \in 1..k : Slice[i] = rest[i]
    <3>1. \A i \in 1..k : rest[i] \in Bytes
      BY <1>1, <1>5
    <3>2. /\ SubSeq(rest, 1, k) \in Seq(Bytes)
          /\ Len(SubSeq(rest, 1, k)) = IF 1 <= k THEN k - 1 + 1 ELSE 0
          /\ \A i \in 1..(k - 1 + 1) : SubSeq(rest, 1, k)[i] = rest[1 + i - 1]
      BY <1>5, <3>1, SubSeqProperties
    <3> QED BY <3>2, <1>2, <1>5
  <2>3. Rest \in Seq(Bytes) /\ Len(Rest) = Len(rest) - k /\ \A j \in 1..Len(Rest) : Rest[j] = rest[k + j]
    <3>1. Rest = SubSeq(rest, k + 1, Len(rest))
      BY <2>2 DEF Rest
    <3>2. /\ SubSeq(rest, k + 1, Len(rest)) \in Seq(Bytes)
          /\ Len(SubSeq(rest, k + 1, Len(rest))) = Len(rest) - k
          /\ \A j \in 1..(Len(rest) - k) : SubSeq(rest, k + 1, Len(rest))[j] = rest[k + j]
      BY <1>1, <1>5, PartOf
    <3> QED BY <3>1, <3>2
  <2>4. Slice # <<>> <=> k > 0
    BY <2>2, <1>5, EmptySeq
  <2>5. Terminated <=> k < Chunk \/ (k > 0 /\ Slice[k] = "\n")
    BY <2>2, <2>4, <1>5 DEF Terminated, Last
  <2>6. Terminated => k = Len(rest) \/ (k > 0 /\ Slice[k] = "\n")
    BY <2>2, <2>5, <1>4, <1>5
  <2>7. ~ Terminated => k > 0 /\ Slice[k] # "\n"
    BY <2>5, <1>5, ReaderAssumption
  <2> HIDE DEF rest
  <2>8. \A j \in 1..(k - 1) : Slice[j] # "\n"
    BY <2>1, <2>2, <1>5
  <2> QED BY <1>5, <2>2, <2>3, <2>6, <2>7, <2>8 DEF Sliced, rest
<1> QED
  BY <1>6

\* What the reader goes on with after a slice of `k` bytes: the file further on, no
\* newline in it unless it is the last byte, and what the buffer and it hold together.
Advanced(k, s) ==
    /\ Position + k \in Position..Len(file)
    /\ Len(Rest) = Len(file) - (Position + k) /\ Len(Rest) \in 0..Len(file)
    /\ \A i \in 1..Len(Rest) : Rest[i] = file[Position + k + i]
    /\ \A i \in (s + 1)..(Position + k - 1) : file[i] # "\n"
    /\ ~ Terminated => file[Position + k] # "\n" /\ k > 0
    /\ Terminated => (s < Position + k => Position + k \in LineEnds(file))
    /\ Terminated /\ k = 0 => Position = Len(file)
    /\ reader.mode = "next" =>
          /\ Buffered = SubSeq(file, s + 1, Position + k) /\ Buffered \in Seq(Bytes)
          /\ Len(Buffered) = Position + k - s

(* A slice is the next part of the file.                                    *)
LEMMA AdvanceFacts ==
    ASSUME ReaderInv, NEW s \in Nat, ReadUpTo(s)
    PROVE  Advanced(Len(Slice), s) /\ Len(Slice) \in Nat /\ Rest \in Seq(Bytes)
<1> DEFINE k == Len(Slice)
<1> DEFINE rest == reader.rest
<1> DEFINE p == Position
<1>11. k \in 0..Len(rest) /\ Slice \in Seq(Bytes) /\ Len(Slice) = k
  BY SliceFacts DEF ReaderInv, Sliced
<1>12. \A i \in 1..k : Slice[i] = rest[i]
  BY SliceFacts DEF ReaderInv, Sliced
<1>13. \A i \in 1..(k - 1) : Slice[i] # "\n"
  BY SliceFacts DEF ReaderInv, Sliced
<1>14. Terminated => k = Len(rest) \/ (k > 0 /\ Slice[k] = "\n")
  BY SliceFacts DEF ReaderInv, Sliced
<1>15. ~ Terminated => k > 0 /\ Slice[k] # "\n"
  BY SliceFacts DEF ReaderInv, Sliced
<1>16. /\ Rest \in Seq(Bytes) /\ Len(Rest) = Len(rest) - k
       /\ \A i \in 1..Len(Rest) : Rest[i] = rest[k + i]
  BY SliceFacts DEF ReaderInv, Sliced
<1>2. /\ k \in Nat /\ Len(rest) \in Nat /\ Len(file) \in Nat
      /\ p = Len(file) - Len(rest) /\ p \in Nat
      /\ s \in 0..p /\ file \in Seq(Bytes) /\ DOMAIN file = 1..Len(file)
  <2>1. rest \in Seq(Bytes) /\ Len(rest) <= Len(file) /\ file \in Seq(Bytes)
    BY DEF ReaderInv, ReaderType
  <2>2. Len(rest) \in Nat /\ Len(file) \in Nat /\ DOMAIN file = 1..Len(file)
    BY <2>1
  <2>3. s \in 0..p
    BY DEF ReadUpTo
  <2> HIDE DEF rest
  <2> QED BY <1>11, <2>1, <2>2, <2>3 DEF Position, rest
<1>3. \A i \in 1..Len(rest) : rest[i] = file[p + i]
  BY DEF ReaderInv
<1>31. \A i \in (s + 1)..p : file[i] # "\n"
  BY DEF ReadUpTo
<1>32. reader.mode = "next" => reader.buf = SubSeq(file, s + 1, p)
  BY DEF ReadUpTo
<1> HIDE DEF k, rest, p
<1>4. \A i \in 1..k : Slice[i] = file[p + i]
  <2> TAKE i \in 1..k
  <2>1. i \in 1..Len(rest)
    BY <1>11, <1>2
  <2> QED BY <2>1, <1>12, <1>3
<1>5. \A i \in (s + 1)..(p + k - 1) : file[i] # "\n"
  <2> TAKE i \in (s + 1)..(p + k - 1)
  <2>1. CASE i <= p
    BY <2>1, <1>2, <1>31
  <2>2. CASE i > p
    <3>1. i - p \in 1..(k - 1) /\ i = p + (i - p)
      BY <2>2, <1>2
    <3>2. i - p \in 1..k
      BY <3>1, <1>2
    <3>3. Slice[i - p] # "\n" /\ Slice[i - p] = file[p + (i - p)]
      BY <3>1, <3>2, <1>13, <1>4
    <3> QED BY <3>1, <3>3
  <2> QED BY <2>1, <2>2, <1>2
<1>6. ~ Terminated => file[p + k] # "\n" /\ k > 0
  BY <1>15, <1>2, <1>4
<1>7. Terminated => (s < p + k => p + k \in LineEnds(file))
  <2> SUFFICES ASSUME Terminated, s < p + k PROVE p + k \in LineEnds(file)
    OBVIOUS
  <2>1. k = Len(rest) \/ (k > 0 /\ file[p + k] = "\n")
    BY <1>14, <1>2, <1>4
  <2>2. p + k \in 1..Len(file) /\ DOMAIN file = 1..Len(file)
    BY <1>2, <1>11
  <2> QED BY <2>1, <2>2, <1>2 DEF LineEnds
<1>8. Terminated /\ k = 0 => p = Len(file)
  BY <1>11, <1>14, <1>2
<1>9. /\ Rest \in Seq(Bytes) /\ Len(Rest) = Len(file) - (p + k)
      /\ \A i \in 1..Len(Rest) : Rest[i] = file[p + k + i]
  <2>1. Len(Rest) = Len(file) - (p + k)
    BY <1>16, <1>2
  <2>2. ASSUME NEW i \in 1..Len(Rest) PROVE Rest[i] = file[p + k + i]
    <3>1. k + i \in 1..Len(rest) /\ p + (k + i) = p + k + i
      BY <1>11, <1>16, <1>2
    <3>2. Rest[i] = rest[k + i] /\ rest[k + i] = file[p + (k + i)]
      BY <3>1, <1>16, <1>3
    <3> QED BY <3>1, <3>2
  <2> QED BY <2>1, <2>2, <1>16
<1>10. reader.mode = "next" =>
          /\ Buffered = SubSeq(file, s + 1, p + k) /\ Buffered \in Seq(Bytes)
          /\ Len(Buffered) = p + k - s
  <2> SUFFICES ASSUME reader.mode = "next"
               PROVE  /\ Buffered = SubSeq(file, s + 1, p + k) /\ Buffered \in Seq(Bytes)
                      /\ Len(Buffered) = p + k - s
    OBVIOUS
  <2> DEFINE q == p + k
  <2>1. p \in Nat /\ q \in Nat /\ s <= p /\ p <= q /\ q <= Len(file) /\ file \in Seq(Bytes) /\ q - p = k
    BY <1>2, <1>11
  <2>2. reader.buf = SubSeq(file, s + 1, p)
    BY <1>32
  <2>9. q = p + k
    OBVIOUS
  <2>3. \A i \in 1..k : Slice[i] = file[p + i]
    BY <1>4
  <2> HIDE DEF q
  <2>4. Slice = SubSeq(file, p + 1, q)
    <3> DEFINE t == SubSeq(file, p + 1, q)
    <3>1. t \in Seq(Bytes) /\ Len(t) = q - p /\ \A i \in 1..(q - p) : t[i] = file[p + i]
      BY <2>1, PartOf
    <3> HIDE DEF t
    <3>2. Len(Slice) = Len(t) /\ \A i \in 1..Len(Slice) : Slice[i] = t[i]
      BY <3>1, <2>1, <2>3, <1>11
    <3>3. Slice = t
      BY <3>1, <3>2, <1>11, SeqEqual
    <3> QED BY <3>3 DEF t
  <2>5. SubSeq(file, s + 1, p) \o SubSeq(file, p + 1, q) = SubSeq(file, s + 1, q)
    BY <2>1, PartsJoin
  <2>6. SubSeq(file, s + 1, q) \in Seq(Bytes) /\ Len(SubSeq(file, s + 1, q)) = q - s
    BY <2>1, PartOf
  <2>7. Buffered = SubSeq(file, s + 1, q)
    BY <2>2, <2>4, <2>5 DEF Buffered
  <2>8. Buffered \in Seq(Bytes) /\ Len(Buffered) = q - s
    BY <2>6, <2>7
  <2> QED BY <2>7, <2>8, <2>9, <1>2
<1> QED
  <2>1. p + k \in p..Len(file) /\ Len(file) - (p + k) \in 0..Len(file)
    BY <1>2, <1>11
  <2> QED
    BY <2>1, <1>2, <1>5, <1>6, <1>7, <1>8, <1>9, <1>10 DEF Advanced, k, p

\* The line of the file that ends where the slice does.
Completed(s, e) ==
    /\ e = Position + Len(Slice) /\ e \in LineEnds(file) /\ s < e
    /\ NumberOf(file, e) = Len(reader.out) + 1
    /\ LineOf(file, e) = SubSeq(file, s + 1, e)
    /\ Len(LineOf(file, e)) = e - s

(* A slice that ends a record ends the next line.                           *)
LEMMA CompletedLine ==
    ASSUME ReaderInv, NEW s \in Nat, ReadUpTo(s), Terminated, s < Position + Len(Slice)
    PROVE  Completed(s, Position + Len(Slice))
<1> DEFINE e == Position + Len(Slice)
<1>1. Advanced(Len(Slice), s)
  BY AdvanceFacts
<1>11. Position \in Nat /\ Len(Slice) \in Nat
  <2>1. file \in Seq(Bytes) /\ reader.rest \in Seq(Bytes) /\ Len(reader.rest) <= Len(file)
    BY DEF ReaderInv, ReaderType
  <2> QED BY <2>1, AdvanceFacts DEF Position
<1>20. e \in LineEnds(file)
  BY <1>1 DEF Advanced
<1>21. \A i \in (s + 1)..(e - 1) : file[i] # "\n"
  BY <1>1, <1>11 DEF Advanced
<1>2. e \in LineEnds(file) /\ \A i \in (s + 1)..(e - 1) : file[i] # "\n"
  BY <1>20, <1>21
<1>3. s = 0 \/ s \in LineEnds(file)
  BY DEF ReadUpTo
<1>4. Len(reader.out) = NumberOf(file, s)
  BY DEF ReadUpTo
<1>5. file \in Seq(Bytes)
  BY DEF ReaderInv, ReaderType
<1>6. e <= Len(file) /\ e \in Nat
  <2>1. LineEnds(file) \subseteq 1..Len(file)
    BY <1>5 DEF LineEnds
  <2> HIDE DEF e
  <2> QED BY <1>2, <1>5, <2>1
<1>7. s < e
  OBVIOUS
<1> HIDE DEF e
<1>8. LineOf(file, e) = SubSeq(file, s + 1, e) /\ NumberOf(file, e) = NumberOf(file, s) + 1
  BY <1>2, <1>3, <1>5, <1>7, NextLine
<1>9. Len(SubSeq(file, s + 1, e)) = e - s
  BY <1>5, <1>6, <1>7, PartOf
<1> QED
  BY <1>2, <1>4, <1>7, <1>8, <1>9 DEF Completed, e

(* A reader goes on in its file.                                            *)
LEMMA RestMoves ==
    ASSUME ReaderInv, NEW s \in Nat, ReadUpTo(s), UNCHANGED file, reader'.rest = Rest
    PROVE  /\ Position' = Position + Len(Slice)
           /\ reader'.rest \in Seq(Bytes) /\ Len(reader'.rest) <= Len(file')
           /\ \A i \in 1..Len(reader'.rest) : reader'.rest[i] = file'[Position' + i]
           /\ Position + Len(Slice) \in Nat /\ Position \in Nat /\ Position <= Position + Len(Slice)
<1> DEFINE k == Len(Slice)
<1>1. Advanced(k, s) /\ k \in Nat /\ Rest \in Seq(Bytes)
  BY AdvanceFacts
<1>2. Len(Rest) = Len(file) - (Position + k) /\ Len(Rest) \in 0..Len(file)
      /\ Position + k \in Position..Len(file)
  BY <1>1 DEF Advanced
<1>3. \A i \in 1..Len(Rest) : Rest[i] = file[Position + k + i]
  BY <1>1 DEF Advanced
<1>4. Len(file) \in Nat /\ Position \in Nat
  <2>1. file \in Seq(Bytes) /\ reader.rest \in Seq(Bytes) /\ Len(reader.rest) <= Len(file)
    BY DEF ReaderInv, ReaderType
  <2> QED BY <2>1 DEF Position
<1> HIDE DEF k
<1>5. Position' = Position + k
  <2>1. Position' = Len(file) - Len(Rest)
    BY DEF Position
  <2> QED BY <2>1, <1>1, <1>2, <1>4
<1>6. Position + k \in Nat /\ Position <= Position + k /\ Len(Rest) <= Len(file)
  BY <1>1, <1>2, <1>4
<1> QED
  BY <1>1, <1>3, <1>4, <1>5, <1>6 DEF k

(* A record that is returned is the next line.                              *)
LEMMA ReturnedStep ==
    ASSUME ReaderInv, NEW s \in Nat, ReadUpTo(s), UNCHANGED file,
           NEW e \in Nat, Completed(s, e),
           NEW text \in Seq(Bytes), NEW oversized \in BOOLEAN,
           Returned(text, oversized, "next"),
           \A n : IsRecordOf([line |-> n, text |-> text, oversized |-> oversized], LineOf(file, e))
    PROVE  ReaderInv'
<1> DEFINE record == [line |-> reader.line + 1, text |-> text, oversized |-> oversized]
<1> DEFINE out == Append(reader.out, record)
<1>2. /\ reader.out \in Seq(Records) /\ reader.line = Len(reader.out)
      /\ reader.line \in Nat /\ file \in Seq(Bytes)
      /\ DOMAIN reader = {"rest", "buf", "line", "mode", "out"}
  BY DEF ReaderInv, ReaderType, ReadUpTo
<1>3. /\ reader'.rest = Rest /\ reader'.buf = <<>> /\ reader'.mode = "next"
      /\ reader'.line = reader.line + 1 /\ reader'.out = out
      /\ DOMAIN reader' = DOMAIN reader
  BY <1>2 DEF Returned
<1>4. record \in Records /\ record.line = reader.line + 1
  BY <1>2 DEF Records
<1>10. IsRecordOf(record, LineOf(file, e))
  OBVIOUS
<1> HIDE DEF record
<1>5. /\ out \in Seq(Records)
      /\ Len(out) = Len(reader.out) + 1
      /\ DOMAIN out = DOMAIN reader.out \cup {Len(reader.out) + 1}
      /\ \A i \in DOMAIN reader.out : out[i] = reader.out[i]
      /\ out[Len(reader.out) + 1] = record
  BY <1>2, <1>4, AppendFacts
<1> HIDE DEF out
<1>6. /\ Position' = e
      /\ reader'.rest \in Seq(Bytes) /\ Len(reader'.rest) <= Len(file')
      /\ \A i \in 1..Len(reader'.rest) : reader'.rest[i] = file'[Position' + i]
  BY <1>3, RestMoves DEF Completed
<1>7. ReaderType'
  <2>1. reader'.buf \in Seq(Bytes) /\ Len(reader'.buf) <= Limit
    BY <1>3, EmptySeq, ReaderAssumption
  <2> QED BY <2>1, <1>2, <1>3, <1>5, <1>6 DEF ReaderType, ReaderModes
<1>8. \A n \in DOMAIN out : ReturnedIsLine(file, out[n], n)
  <2> TAKE n \in DOMAIN out
  <2>1. CASE n \in DOMAIN reader.out
    <3>1. out[n] = reader.out[n] /\ ReturnedIsLine(file, reader.out[n], n)
      BY <2>1, <1>5 DEF ReaderInv
    <3> QED BY <3>1
  <2>2. CASE n = Len(reader.out) + 1
    <3>1. out[n] = record /\ record.line = n
      BY <2>2, <1>2, <1>4, <1>5
    <3>2. e \in LineEnds(file) /\ NumberOf(file, e) = n
      BY <2>2 DEF Completed
    <3> QED BY <3>1, <3>2, <1>10 DEF ReturnedIsLine
  <2> QED BY <2>1, <2>2, <1>5
<1>9. ReadUpTo(e)'
  <2>1. SubSeq(file', e + 1, Position') = <<>>
    BY <1>6, SubSeqEmpty
  <2>2. e \in LineEnds(file') /\ Len(reader'.out) = NumberOf(file', e) /\ reader'.line = Len(reader'.out)
    BY <1>2, <1>3, <1>5 DEF Completed
  <2>3. e \in 0..Position' /\ \A i \in (e + 1)..Position' : FALSE
    BY <1>6
  <2> QED BY <1>3, <2>1, <2>2, <2>3 DEF ReadUpTo
<1> QED
  BY <1>3, <1>6, <1>7, <1>8, <1>9 DEF ReaderInv

(* A reader begins before the first line.                                   *)
LEMMA ReaderInvInit == ReaderInit => ReaderInv
<1> SUFFICES ASSUME ReaderInit PROVE ReaderInv
  OBVIOUS
<1>1. file \in Seq(Bytes) /\ Len(file) \in Nat
  <2>1. PICK n \in 0..FileBytes : file \in [1..n -> Bytes]
    BY DEF ReaderInit
  <2>2. n \in Nat
    BY <2>1, ReaderAssumption
  <2> QED BY <2>1, <2>2, SeqDef
<1>2. /\ reader.rest = file /\ reader.buf = <<>> /\ reader.line = 0 /\ reader.mode = "next"
      /\ reader.out = <<>> /\ DOMAIN reader = {"rest", "buf", "line", "mode", "out"}
  BY DEF ReaderInit, Started
<1>3. ReaderType
  BY <1>1, <1>2, EmptySeq, ReaderAssumption DEF ReaderType, ReaderModes
<1>4. Position = 0
  BY <1>1, <1>2 DEF Position
<1>5. ReadUpTo(0)
  <2>1. NumberOf(file, 0) = 0
    <3>1. {i \in LineEnds(file) : i <= 0} = {}
      BY <1>1 DEF LineEnds
    <3> QED BY <3>1, FS_EmptySet DEF NumberOf
  <2>2. SubSeq(file, 0 + 1, 0) = <<>>
    BY SubSeqEmpty
  <2> QED BY <1>2, <1>4, <2>1, <2>2 DEF ReadUpTo
<1>6. \A i \in 1..Len(reader.rest) : reader.rest[i] = file[Position + i]
  BY <1>1, <1>2, <1>4
<1>7. DOMAIN reader.out = {}
  BY <1>2
<1> QED
  BY <1>3, <1>5, <1>6, <1>7 DEF ReaderInv

(* Every slice keeps the invariant.                                         *)
LEMMA ReaderInvNext == ReaderInv /\ [ReaderNext]_<<file, reader>> => ReaderInv'
<1> SUFFICES ASSUME ReaderInv, [ReaderNext]_<<file, reader>> PROVE ReaderInv'
  OBVIOUS
<1>1. CASE UNCHANGED <<file, reader>>
  BY <1>1 DEF ReaderInv, ReaderType, ReadUpTo, Position
<1>2. CASE ReaderNext
  <2>1. UNCHANGED file
    BY <1>2 DEF ReaderNext
  <2>2. PICK s \in Nat : ReadUpTo(s)
    BY DEF ReaderInv
  <2> DEFINE k == Len(Slice)
  <2>3. Advanced(k, s) /\ k \in Nat /\ Rest \in Seq(Bytes)
    BY <2>2, AdvanceFacts
  <2>4. /\ reader.rest \in Seq(Bytes) /\ reader.buf \in Seq(Bytes) /\ Len(reader.buf) <= Limit
        /\ reader.out \in Seq(Records) /\ reader.line \in Nat /\ reader.mode \in ReaderModes
        /\ DOMAIN reader = {"rest", "buf", "line", "mode", "out"} /\ file \in Seq(Bytes)
        /\ Len(reader.rest) <= Len(file)
    BY DEF ReaderInv, ReaderType
  <2>5. Position \in Nat /\ Len(file) \in Nat /\ Len(reader.rest) \in Nat
    BY <2>4 DEF Position
  <2>6. /\ s <= Position /\ (s = 0 \/ s \in LineEnds(file))
        /\ Len(reader.out) = NumberOf(file, s) /\ reader.line = Len(reader.out)
    BY <2>2 DEF ReadUpTo
  <2>7. ASSUME reader'.rest = Rest, reader'.buf \in Seq(Bytes), Len(reader'.buf) <= Limit,
               reader'.line = reader.line, reader'.out = reader.out,
               DOMAIN reader' = DOMAIN reader, ~ Terminated,
               \/ /\ reader'.mode = "next"
                  /\ reader'.buf = SubSeq(file, s + 1, Position + k)
               \/ /\ reader'.mode = "discard"
                  /\ Position + k - s > Limit
        PROVE  ReaderInv'
    <3>1. /\ Position' = Position + k
          /\ reader'.rest \in Seq(Bytes) /\ Len(reader'.rest) <= Len(file')
          /\ \A i \in 1..Len(reader'.rest) : reader'.rest[i] = file'[Position' + i]
      BY <2>1, <2>2, <2>7, RestMoves
    <3>2. \A i \in (s + 1)..(Position + k - 1) : file[i] # "\n"
      BY <2>3, <2>5 DEF Advanced
    <3>3. file[Position + k] # "\n"
      BY <2>3, <2>7 DEF Advanced
    <3> HIDE DEF k
    <3>4. \A i \in (s + 1)..(Position + k) : file[i] # "\n"
      BY <3>2, <3>3, <2>3, <2>5
    <3>5. ReaderType'
      BY <2>1, <2>4, <2>7, <3>1 DEF ReaderType, ReaderModes
    <3>6. s \in 0..(Position + k)
      BY <2>3, <2>5, <2>6
    <3>7. ReadUpTo(s)'
      <4>1. s \in 0..Position' /\ \A i \in (s + 1)..Position' : file'[i] # "\n"
        BY <2>1, <3>1, <3>4, <3>6
      <4>2. (s = 0 \/ s \in LineEnds(file')) /\ Len(reader'.out) = NumberOf(file', s)
            /\ reader'.line = Len(reader'.out)
        BY <2>1, <2>6, <2>7
      <4>3. /\ reader'.mode \in {"next", "eof"} => reader'.buf = SubSeq(file', s + 1, Position')
            /\ reader'.mode = "discard" => Position' - s > Limit
            /\ reader'.mode # "eof"
        BY <2>1, <2>3, <2>5, <2>7, <3>1
      <4> QED BY <4>1, <4>2, <4>3 DEF ReadUpTo
    <3>8. \A n \in DOMAIN reader'.out : ReturnedIsLine(file', reader'.out[n], n)
      BY <2>1, <2>7 DEF ReaderInv
    <3> QED BY <3>1, <3>5, <3>7, <3>8 DEF ReaderInv
  <2>8. reader.mode = "next" =>
          /\ Buffered = SubSeq(file, s + 1, Position + k) /\ Buffered \in Seq(Bytes)
          /\ Len(Buffered) = Position + k - s
    BY <2>3 DEF Advanced
  <2>9. CASE ReadMore
    BY <2>4, <2>7, <2>8, <2>9 DEF ReadMore
  <2>10. CASE BeginDiscard
    <3>1. Len(Buffered) > Limit /\ Len(Buffered) = Position + k - s
      BY <2>8, <2>10 DEF BeginDiscard
    <3> QED BY <2>4, <2>7, <2>10, <3>1, EmptySeq, ReaderAssumption DEF BeginDiscard
  <2>11. reader.mode = "discard" => Position - s > Limit
    BY <2>2 DEF ReadUpTo
  <2>12. CASE DiscardMore
    <3>1. Position + k - s > Limit
      BY <2>3, <2>5, <2>6, <2>11, <2>12, ReaderAssumption DEF DiscardMore
    <3> QED BY <2>4, <2>7, <2>12, <3>1 DEF DiscardMore
  <2> DEFINE e == Position + k
  <2>13. e \in Nat /\ (Terminated /\ s < e => Completed(s, e))
    BY <2>2, <2>3, <2>5, CompletedLine
  <2>14. CASE ReadRecord
    <3>1. Terminated /\ reader.mode = "next" /\ Len(Buffered) <= Limit /\ Buffered # <<>>
          /\ Returned(TrimRecordNewline(Buffered), FALSE, "next")
      BY <2>14 DEF ReadRecord
    <3>2. Buffered \in Seq(Bytes) /\ Len(Buffered) = e - s /\ Buffered = SubSeq(file, s + 1, e)
      BY <2>3, <2>5, <2>8, <3>1
    <3> HIDE DEF e
    <3>3. Len(Buffered) # 0
      BY <3>1, <3>2, EmptySeq
    <3>4. s < e
      BY <3>2, <3>3, <2>5, <2>6, <2>13
    <3>5. Completed(s, e) /\ LineOf(file, e) = Buffered
      BY <2>13, <3>1, <3>2, <3>4 DEF Completed
    <3>6. TrimRecordNewline(Buffered) \in Seq(Bytes)
          /\ \A n : IsRecordOf([line |-> n, text |-> TrimRecordNewline(Buffered),
                                oversized |-> FALSE], LineOf(file, e))
      BY <3>1, <3>2, <3>5, TrimmedIsRecord
    <3> QED BY <2>1, <2>2, <2>13, <3>1, <3>5, <3>6, ReturnedStep
  <2>15. ASSUME Terminated, Returned(<<>>, TRUE, "next"), e - s > Limit PROVE ReaderInv'
    <3> HIDE DEF e
    <3>1. s < e
      BY <2>5, <2>6, <2>13, <2>15, ReaderAssumption
    <3>2. Completed(s, e) /\ Len(LineOf(file, e)) > Limit
      BY <2>13, <2>15, <3>1 DEF Completed
    <3>3. \A n : IsRecordOf([line |-> n, text |-> <<>>, oversized |-> TRUE], LineOf(file, e))
      <4> TAKE n
      <4> DEFINE r == [line |-> n, text |-> <<>>, oversized |-> TRUE]
      <4>1. r.oversized
        OBVIOUS
      <4> HIDE DEF r
      <4>2. IsRecordOf(r, LineOf(file, e))
        BY <3>2, <4>1 DEF IsRecordOf
      <4> QED BY <4>2 DEF r
    <3>4. <<>> \in Seq(Bytes)
      BY EmptySeq
    <3> QED BY <2>1, <2>2, <2>13, <2>15, <3>2, <3>3, <3>4, ReturnedStep
  <2>16. CASE ReadOversized
    <3>1. Terminated /\ reader.mode = "next" /\ Len(Buffered) > Limit /\ Returned(<<>>, TRUE, "next")
      BY <2>16 DEF ReadOversized
    <3>2. e - s > Limit
      BY <2>3, <2>5, <2>8, <3>1
    <3> QED BY <2>15, <3>1, <3>2
  <2>17. CASE EndDiscard
    <3>1. e - s > Limit
      BY <2>3, <2>5, <2>6, <2>11, <2>17, ReaderAssumption DEF EndDiscard
    <3> QED BY <2>15, <2>17, <3>1 DEF EndDiscard
  <2>18. ASSUME reader'.rest = reader.rest, reader'.buf = reader.buf, reader'.line = reader.line,
                reader'.out = reader.out, DOMAIN reader' = DOMAIN reader,
                \/ reader'.mode = "failed"
                \/ reader'.mode = "eof" /\ reader.mode = "next" /\ s = Len(file)
         PROVE  ReaderInv'
    <3>1. Position' = Position
      BY <2>1, <2>18 DEF Position
    <3>2. ReaderType'
      BY <2>1, <2>4, <2>18 DEF ReaderType, ReaderModes
    <3>3. ReadUpTo(s)'
      BY <2>1, <2>2, <2>18, <3>1 DEF ReadUpTo
    <3>4. \A i \in 1..Len(reader'.rest) : reader'.rest[i] = file'[Position' + i]
      BY <2>1, <2>18, <3>1 DEF ReaderInv
    <3>5. \A n \in DOMAIN reader'.out : ReturnedIsLine(file', reader'.out[n], n)
      BY <2>1, <2>18 DEF ReaderInv
    <3> QED BY <3>2, <3>3, <3>4, <3>5 DEF ReaderInv
  <2>19. CASE ReadEnd
    <3>1. Terminated /\ reader.mode = "next" /\ Buffered = <<>>
      BY <2>19 DEF ReadEnd
    <3>2. Len(Buffered) = 0 /\ Len(Buffered) = e - s
      BY <2>3, <2>5, <2>8, <3>1
    <3>3. k = 0 /\ s = Position
      BY <3>2, <2>3, <2>5, <2>6
    <3>4. s = Len(file)
      BY <2>3, <3>1, <3>3 DEF Advanced
    <3> QED BY <2>4, <2>18, <2>19, <3>1, <3>4 DEF ReadEnd
  <2>20. CASE ReadFails
    BY <2>4, <2>18, <2>20 DEF ReadFails
  <2> QED
    BY <1>2, <2>9, <2>10, <2>12, <2>14, <2>16, <2>17, <2>19, <2>20 DEF ReaderNext
<1> QED
  BY <1>1, <1>2

(* A reader returns the lines of its file, however the buffer cuts them.    *)
THEOREM RecordsAreLines == ReaderSpec => []RecordsAreTheLines
<1>1. ReaderInv => RecordsAreTheLines
  <2> SUFFICES ASSUME ReaderInv PROVE RecordsAreTheLines
    OBVIOUS
  <2>1. Len(reader.buf) <= Limit
    BY DEF ReaderInv, ReaderType
  <2>2. ASSUME reader.mode = "eof" PROVE Len(reader.out) = Cardinality(LineEnds(file))
    <3>1. PICK s \in Nat : ReadUpTo(s)
      BY DEF ReaderInv
    <3>2. s = Len(file) /\ Len(reader.out) = NumberOf(file, s)
      BY <2>2, <3>1 DEF ReadUpTo
    <3>3. LineEnds(file) = {i \in LineEnds(file) : i <= Len(file)}
      BY DEF LineEnds, ReaderInv, ReaderType
    <3> QED BY <3>2, <3>3 DEF NumberOf
  <2> QED BY <2>1, <2>2 DEF RecordsAreTheLines, ReaderInv, ReturnedIsLine
<1> QED
  BY <1>1, ReaderInvInit, ReaderInvNext, PTL DEF ReaderSpec

-----------------------------------------------------------------------------
(* Codex: what a reading makes of a rollout. *)

(* The k-th of some numbers is one of them, and each is the k-th for one k.  *)
LEMMA NthFacts ==
    ASSUME NEW n \in Nat, NEW T, T \subseteq 1..n
    PROVE  /\ IsFiniteSet(T) /\ Cardinality(T) \in Nat
           /\ \A k \in 1..Cardinality(T) : Nth(T, k) \in T
           /\ \A i \in T : \E k \in 1..Cardinality(T) :
                 /\ Nth(T, k) = i
                 /\ \A m \in 1..Cardinality(T) : Nth(T, m) = i => m = k
<1> DEFINE Upto(i) == {j \in T : j <= i}
<1> DEFINE c == Cardinality(T)
<1> DEFINE r == [i \in T |-> Cardinality(Upto(i))]
<1>1. IsFiniteSet(T) /\ T \subseteq Nat /\ c \in Nat
  BY FiniteNumbers, FS_CardinalityType
<1>2. ASSUME NEW i \in T PROVE r[i] \in 1..c /\ IsFiniteSet(Upto(i)) /\ Cardinality(Upto(i)) \in Nat
  <2>1. Upto(i) \in SUBSET T /\ i \in Upto(i)
    BY <1>1
  <2>2. IsFiniteSet(Upto(i)) /\ Cardinality(Upto(i)) <= c
    BY <1>1, <2>1, FS_Subset
  <2>3. Cardinality(Upto(i)) \in Nat /\ Cardinality(Upto(i)) # 0
    BY <2>1, <2>2, FS_CardinalityType, FS_EmptySet
  <2> HIDE DEF Upto, c
  <2> QED BY <2>2, <2>3, <1>1
<1>3. ASSUME NEW i \in T, NEW j \in T, i < j PROVE r[i] # r[j]
  <2>0. i \in Nat /\ j \in Nat /\ i < j
    BY <1>1, <1>3
  <2>1. Upto(i) \in SUBSET Upto(j) /\ j \in Upto(j) /\ j \notin Upto(i)
    <3>1. \A m \in T : m <= i => m <= j
      BY <1>1, <2>0
    <3>2. j <= j /\ ~ (j <= i)
      BY <2>0
    <3> QED BY <3>1, <3>2
  <2>2. IsFiniteSet(Upto(j))
    BY <1>2
  <2> HIDE DEF Upto
  <2>3. Cardinality(Upto(i)) # Cardinality(Upto(j))
    BY <2>1, <2>2, FS_Subset
  <2> QED BY <2>3
<1>4. \A i, j \in T : r[i] = r[j] => i = j
  <2> HIDE DEF r
  <2> QED BY <1>1, <1>3
<1>5. r \in Injection(T, 1..c)
  <2>1. r \in [T -> 1..c]
    <3>1. \A i \in T : Cardinality(Upto(i)) \in 1..c
      BY <1>2
    <3> HIDE DEF Upto, c
    <3> QED BY <3>1
  <2> HIDE DEF r
  <2> QED BY <1>4, <2>1 DEF Injection, IsInjective
<1>6. \A k \in 1..c : \E i \in T : r[i] = k
  <2>1. IsFiniteSet(1..c) /\ Cardinality(1..c) = c
    <3>1. 1 \in Int /\ c \in Int
      BY <1>1
    <3>2. Cardinality(1..c) = IF 1 > c THEN 0 ELSE c - 1 + 1
      <4> HIDE DEF c
      <4> QED BY <3>1, FS_Interval
    <3>3. IsFiniteSet(1..c)
      <4> HIDE DEF c
      <4> QED BY <3>1, FS_Interval
    <3> HIDE DEF c
    <3> QED BY <1>1, <3>2, <3>3
  <2>2. Cardinality(T) = c
    OBVIOUS
  <2> HIDE DEF r, c
  <2>3. r \in Surjection(T, 1..c)
    BY <1>5, <2>1, <2>2, FS_Injection
  <2> QED BY <2>3 DEF Surjection
<1>7. ASSUME NEW k \in 1..c PROVE Nth(T, k) \in T /\ r[Nth(T, k)] = k
  <2>1. \E i \in T : Cardinality(Upto(i)) = k
    BY <1>6, <1>7
  <2>2. Nth(T, k) = CHOOSE i \in T : Cardinality(Upto(i)) = k
    BY DEF Nth
  <2> HIDE DEF Upto, c
  <2> QED BY <2>1, <2>2
<1> HIDE DEF r
<1>8. ASSUME NEW i \in T
      PROVE  \E k \in 1..c : Nth(T, k) = i /\ \A m \in 1..c : Nth(T, m) = i => m = k
  <2>1. r[i] \in 1..c
    BY <1>2
  <2>2. Nth(T, r[i]) \in T /\ r[Nth(T, r[i])] = r[i]
    BY <1>7, <2>1
  <2>3. Nth(T, r[i]) = i
    BY <1>4, <2>2
  <2>4. \A m \in 1..c : Nth(T, m) = i => m = r[i]
    BY <1>7
  <2> HIDE DEF c
  <2> QED BY <2>1, <2>3, <2>4
<1> QED
  BY <1>1, <1>7, <1>8

(* Where a record appears in a context.                                      *)
At(components, record) == {p \in DOMAIN components : components[p].record = record}

(* Dropping repeated components keeps a record that appears once, and makes  *)
(* none.                                                                    *)
LEMMA DedupeKeeps ==
    ASSUME NEW n \in Nat, NEW s, DOMAIN s = 1..n, NEW record
    PROVE  /\ \E m \in Nat : DOMAIN DedupeContext(s) = 1..m
           /\ At(s, record) = {} => At(DedupeContext(s), record) = {}
           /\ \A p : At(s, record) = {p} => \E q : At(DedupeContext(s), record) = {q}
<1> DEFINE F == FirstOfKey(s)
<1> DEFINE D == DedupeContext(s)
<1> DEFINE c == Cardinality(F)
<1>1. F \subseteq 1..n
  BY DEF FirstOfKey
<1>2. /\ c \in Nat
      /\ \A k \in 1..c : Nth(F, k) \in F
      /\ \A i \in F : \E k \in 1..c : Nth(F, k) = i /\ \A m \in 1..c : Nth(F, m) = i => m = k
  <2> HIDE DEF F
  <2> QED BY <1>1, NthFacts
<1>3. D = [k \in 1..c |-> s[Nth(F, k)]]
  BY DEF DedupeContext
<1> HIDE DEF D, c
<1>4. At(D, record) = {k \in 1..c : s[Nth(F, k)].record = record}
  BY <1>3 DEF At
<1>5. At(s, record) = {i \in 1..n : s[i].record = record}
  BY DEF At
<1>6. At(s, record) = {} => At(D, record) = {}
  <2> HIDE DEF F
  <2> QED BY <1>1, <1>2, <1>4, <1>5
<1>7. ASSUME NEW p, At(s, record) = {p} PROVE \E q : At(D, record) = {q}
  <2>1. p \in 1..n /\ s[p].record = record /\ \A j \in 1..n : s[j].record = record => j = p
    BY <1>5, <1>7
  <2>2. \A j \in 1..(p - 1) : j \in 1..n /\ j # p
    BY <2>1
  <2>3. \A j \in 1..(p - 1) : ComponentKey(s[j]) # ComponentKey(s[p])
    BY <2>1, <2>2 DEF ComponentKey
  <2>4. p \in F
    BY <2>1, <2>3 DEF FirstOfKey
  <2> HIDE DEF F
  <2>5. PICK k \in 1..c : Nth(F, k) = p /\ \A m \in 1..c : Nth(F, m) = p => m = k
    BY <1>2, <2>4
  <2>6. At(D, record) = {k}
    BY <1>1, <1>2, <1>4, <2>1, <2>5
  <2> QED BY <2>6
<1> QED
  BY <1>2, <1>3, <1>6, <1>7 DEF D

(* Where a record appears in a context that was added to.                   *)
LEMMA JoinedAt ==
    ASSUME NEW s, IsSequence(s), NEW t, IsSequence(t), NEW record
    PROVE  /\ At(t, record) = {} => At(s \o t, record) = At(s, record)
           /\ \A p : At(s, record) = {} /\ At(t, record) = {p} => At(s \o t, record) = {Len(s) + p}
<1>1. /\ Len(s) \in Nat /\ Len(t) \in Nat /\ DOMAIN s = 1..Len(s) /\ DOMAIN t = 1..Len(t)
      /\ DOMAIN (s \o t) = 1..(Len(s) + Len(t))
  BY SequenceFacts, JoinedSequence
<1>2. /\ \A i \in 1..Len(s) : (s \o t)[i] = s[i]
      /\ \A i \in 1..Len(t) : (s \o t)[Len(s) + i] = t[i]
  BY JoinedSequence
<1>3. \A i \in 1..(Len(s) + Len(t)) : i \in 1..Len(s) \/ \E j \in 1..Len(t) : i = Len(s) + j
  <2> TAKE i \in 1..(Len(s) + Len(t))
  <2>1. CASE i <= Len(s)
    BY <1>1, <2>1
  <2>2. CASE ~ (i <= Len(s))
    <3>1. i - Len(s) \in 1..Len(t) /\ i = Len(s) + (i - Len(s))
      BY <1>1, <2>2
    <3> QED BY <3>1
  <2> QED BY <2>1, <2>2
<1>4. \A i \in 1..Len(s) : i \in 1..(Len(s) + Len(t))
  BY <1>1
<1>5. \A j \in 1..Len(t) : Len(s) + j \in 1..(Len(s) + Len(t))
  BY <1>1
<1> DEFINE u == s \o t
<1>6. /\ At(u, record) = {i \in 1..(Len(s) + Len(t)) : u[i].record = record}
      /\ At(s, record) = {i \in 1..Len(s) : s[i].record = record}
      /\ At(t, record) = {j \in 1..Len(t) : t[j].record = record}
  BY <1>1 DEF At
<1>7. ASSUME At(t, record) = {} PROVE At(u, record) = At(s, record)
  <2>1. \A j \in 1..Len(t) : u[Len(s) + j].record # record
    BY <1>2, <1>6, <1>7
  <2> HIDE DEF u
  <2>2. \A i \in 1..(Len(s) + Len(t)) : u[i].record = record => i \in 1..Len(s)
    BY <1>3, <2>1
  <2> QED BY <1>2, <1>4, <1>6, <2>2 DEF u
<1>8. ASSUME NEW p, At(s, record) = {}, At(t, record) = {p} PROVE At(u, record) = {Len(s) + p}
  <2>1. \A i \in 1..Len(s) : u[i].record # record
    BY <1>2, <1>6, <1>8
  <2>2. p \in 1..Len(t) /\ \A j \in 1..Len(t) : t[j].record = record <=> j = p
    BY <1>6, <1>8
  <2>3. \A j \in 1..Len(t) : u[Len(s) + j].record = record <=> j = p
    BY <1>2, <2>2
  <2> HIDE DEF u
  <2>4. \A i \in 1..(Len(s) + Len(t)) : u[i].record = record => i = Len(s) + p
    BY <1>3, <2>1, <2>3
  <2>5. Len(s) + p \in 1..(Len(s) + Len(t)) /\ u[Len(s) + p].record = record
    BY <1>5, <2>2, <2>3
  <2> QED BY <1>6, <2>4, <2>5
<1> QED
  BY <1>7, <1>8

(* A record is nowhere, or in one place of what was read.                   *)
Nowhere(pending, snapshots, record) ==
    /\ At(pending, record) = {}
    /\ \A t \in DOMAIN snapshots : At(snapshots[t].context, record) = {}

InOnePlace(pending, snapshots, record) ==
    \/ /\ \E p : At(pending, record) = {p}
       /\ \A t \in DOMAIN snapshots : At(snapshots[t].context, record) = {}
    \/ /\ At(pending, record) = {}
       /\ \E t \in DOMAIN snapshots :
            /\ \E p : At(snapshots[t].context, record) = {p}
            /\ \A u \in DOMAIN snapshots \ {t} : At(snapshots[u].context, record) = {}

(* What is pending with new components keeps the place of the records that    *)
(* these do not have, and gives one to a new one.                            *)
LEMMA JoinKeeps ==
    ASSUME NEW pending, IsSequence(pending), NEW new, IsSequence(new), NEW contexts, NEW record
    PROVE  /\ At(new, record) = {} =>
                /\ InOnePlace(pending, contexts, record) => InOnePlace(pending \o new, contexts, record)
                /\ Nowhere(pending, contexts, record) => Nowhere(pending \o new, contexts, record)
           /\ \A p : At(new, record) = {p} /\ Nowhere(pending, contexts, record)
                => InOnePlace(pending \o new, contexts, record)
<1>1. At(new, record) = {} => At(pending \o new, record) = At(pending, record)
  BY JoinedAt
<1>2. \A p : At(pending, record) = {} /\ At(new, record) = {p}
               => At(pending \o new, record) = {Len(pending) + p}
  BY JoinedAt
<1> QED
  BY <1>1, <1>2 DEF InOnePlace, Nowhere

(* Nothing is in an empty context.                                           *)
LEMMA EmptyAt == \A record : At(<<>>, record) = {}
BY DEF At

(* A turn that takes what is pending keeps the place of every record.        *)
LEMMA TakeKeeps ==
    ASSUME NEW pending, IsSequence(pending), NEW contexts, IsSequence(contexts),
           NEW s, s.context = DedupeContext(pending), NEW record
    PROVE  /\ InOnePlace(pending, contexts, record) => InOnePlace(<<>>, Append(contexts, s), record)
           /\ Nowhere(pending, contexts, record) => Nowhere(<<>>, Append(contexts, s), record)
<1> DEFINE t1 == Len(contexts) + 1
<1> DEFINE taken == Append(contexts, s)
<1>2. /\ DOMAIN taken = DOMAIN contexts \cup {t1} /\ t1 \notin DOMAIN contexts
      /\ \A t \in DOMAIN contexts : taken[t] = contexts[t]
      /\ taken[t1] = s
  <2>1. Len(contexts) \in Nat /\ DOMAIN contexts = 1..Len(contexts)
    BY SequenceFacts
  <2>2. Len(contexts) + 1 \notin 1..Len(contexts)
    BY <2>1
  <2> QED BY <2>1, <2>2, AppendSequence
<1>4. /\ At(pending, record) = {} => At(s.context, record) = {}
      /\ \A p : At(pending, record) = {p} => \E q : At(s.context, record) = {q}
  <2>1. PICK m \in Nat : DOMAIN pending = 1..m
    BY SequenceFacts
  <2>2. /\ At(pending, record) = {} => At(DedupeContext(pending), record) = {}
        /\ \A p : At(pending, record) = {p} => \E q : At(DedupeContext(pending), record) = {q}
    BY <2>1, DedupeKeeps
  <2> QED BY <2>2
<1>5. At(<<>>, record) = {}
  BY EmptyAt
<1> HIDE DEF taken, t1
<1>6. ASSUME InOnePlace(pending, contexts, record) PROVE InOnePlace(<<>>, taken, record)
  <2>1. CASE /\ \E p : At(pending, record) = {p}
             /\ \A t \in DOMAIN contexts : At(contexts[t].context, record) = {}
    <3>1. \E q : At(taken[t1].context, record) = {q}
      BY <1>2, <1>4, <2>1
    <3>2. t1 \in DOMAIN taken /\ \A u \in DOMAIN taken \ {t1} : At(taken[u].context, record) = {}
      BY <1>2, <2>1
    <3> QED BY <1>5, <3>1, <3>2 DEF InOnePlace
  <2>2. CASE /\ At(pending, record) = {}
             /\ \E t \in DOMAIN contexts :
                  /\ \E p : At(contexts[t].context, record) = {p}
                  /\ \A u \in DOMAIN contexts \ {t} : At(contexts[u].context, record) = {}
    <3>1. PICK t \in DOMAIN contexts :
                  /\ \E p : At(contexts[t].context, record) = {p}
                  /\ \A u \in DOMAIN contexts \ {t} : At(contexts[u].context, record) = {}
      BY <2>2
    <3>2. t \in DOMAIN taken /\ \E p : At(taken[t].context, record) = {p}
      BY <1>2, <3>1
    <3>3. At(taken[t1].context, record) = {}
      BY <1>2, <1>4, <2>2
    <3>4. \A u \in DOMAIN taken \ {t} : At(taken[u].context, record) = {}
      BY <1>2, <3>1, <3>3
    <3> QED BY <1>5, <3>2, <3>4 DEF InOnePlace
  <2> QED BY <1>6, <2>1, <2>2 DEF InOnePlace
<1>7. ASSUME Nowhere(pending, contexts, record) PROVE Nowhere(<<>>, taken, record)
  BY <1>2, <1>4, <1>5, <1>7 DEF Nowhere
<1> QED
  BY <1>6, <1>7 DEF taken

-----------------------------------------------------------------------------
(* The invariant. *)

(* The counters of an event: all but reasoning, and numbers.                *)
IsSnap(s) ==
    /\ CodexCounters \ {"reasoning"} \subseteq DOMAIN s /\ DOMAIN s \subseteq CodexCounters
    /\ \A c \in DOMAIN s : s[c] \in Int

CodexType ==
    /\ codexRead \in Seq(CodexLines)
    /\ DOMAIN codex = {"id", "model", "snapshots", "pending", "calls", "usage", "started", "updated"}
    /\ IsSequence(codex.pending) /\ IsSequence(codex.snapshots)
    /\ \A i \in DOMAIN codex.snapshots :
         IsSnap(codex.snapshots[i].snap) /\ IsSequence(codex.snapshots[i].context)

(* The usage is that of the last event with the largest total, where one is  *)
(* not negative.                                                            *)
IsLargest(m, usage, snapshots) ==
    /\ usage = snapshots[m].snap
    /\ \A j \in DOMAIN snapshots :
         /\ snapshots[j].snap["total"] <= usage["total"]
         /\ m < j => snapshots[j].snap["total"] < usage["total"]

UsageIsLargest(usage, snapshots) ==
    IF usage = <<>> THEN \A j \in DOMAIN snapshots : snapshots[j].snap["total"] < 0
    ELSE usage["total"] >= 0 /\ \E m \in DOMAIN snapshots : IsLargest(m, usage, snapshots)

Unreadable(l) == l.line \in {"oversized", "malformed"} \/ l.kind = "bad"

ContextKept(read, pending, snapshots) ==
    /\ \A i \in DOMAIN read : Unreadable(read[i]) => InOnePlace(pending, snapshots, <<"line", i>>)
    /\ \A i \in Nat : i > Len(read) => Nowhere(pending, snapshots, <<"line", i>>)

CodexInv ==
    /\ CodexType
    /\ UsageIsLargest(codex.usage, codex.snapshots)
    /\ ContextKept(codexRead, codex.pending, codex.snapshots)

(* The components that line n adds name no other line.                      *)
OfLine(new, n) ==
    /\ IsSequence(new)
    /\ \A q \in DOMAIN new : \A m \in Nat : new[q].record = <<"line", m>> => m = n

(* What is pending with a line's components keeps every line's record.      *)
LEMMA GatheredIsKept ==
    ASSUME NEW read \in Seq(CodexLines), NEW l \in CodexLines, NEW pending, NEW snapshots,
           NEW new, IsSequence(pending), OfLine(new, Len(read) + 1),
           Unreadable(l) => At(new, <<"line", Len(read) + 1>>) = {1},
           ContextKept(read, pending, snapshots)
    PROVE  ContextKept(Append(read, l), pending \o new, snapshots)
<1> DEFINE n == Len(read) + 1
<1> DEFINE after == Append(read, l)
<1>1. /\ n \in Nat /\ Len(after) = n /\ DOMAIN after = DOMAIN read \cup {n}
      /\ \A i \in DOMAIN read : after[i] = read[i] /\ i \in Nat /\ i # n
      /\ after[n] = l
  <2>1. Len(read) \in Nat /\ DOMAIN read = 1..Len(read)
    OBVIOUS
  <2>2. \A i \in 1..Len(read) : i \in Nat /\ i # Len(read) + 1
    BY <2>1
  <2> QED BY <2>1, <2>2, AppendFacts
<1>2. \A i \in Nat : i # n => At(new, <<"line", i>>) = {}
  BY DEF OfLine, At
<1>3. \A i \in Nat : i # n => At(pending \o new, <<"line", i>>) = At(pending, <<"line", i>>)
  <2> SUFFICES ASSUME NEW i \in Nat, i # n
               PROVE  At(pending \o new, <<"line", i>>) = At(pending, <<"line", i>>)
    OBVIOUS
  <2> DEFINE record == <<"line", i>>
  <2>1. At(new, record) = {} /\ IsSequence(new)
    BY <1>2 DEF OfLine
  <2> HIDE DEF record
  <2>2. At(pending \o new, record) = At(pending, record)
    BY <2>1, JoinedAt
  <2> QED BY <2>2 DEF record
<1>4. \A i \in Nat : i > n => i > Len(read) /\ i # n
  BY <1>1
<1>5. Nowhere(pending, snapshots, <<"line", n>>)
  BY <1>1 DEF ContextKept
<1> HIDE DEF after
<1>6. ASSUME NEW i \in DOMAIN after, Unreadable(after[i])
      PROVE  InOnePlace(pending \o new, snapshots, <<"line", i>>)
  <2>1. CASE i = n
    <3>1. At(new, <<"line", n>>) = {1}
      BY <1>1, <1>6, <2>1
    <3>2. \A record : At(new, record) = {1} /\ Nowhere(pending, snapshots, record)
                         => InOnePlace(pending \o new, snapshots, record)
      BY JoinKeeps DEF OfLine
    <3> QED BY <1>5, <2>1, <3>1, <3>2
  <2>2. CASE i # n
    <3>1. i \in DOMAIN read /\ Unreadable(read[i]) /\ i \in Nat
      BY <1>1, <1>6, <2>2
    <3>2. InOnePlace(pending, snapshots, <<"line", i>>)
      BY <3>1 DEF ContextKept
    <3>3. At(pending \o new, <<"line", i>>) = At(pending, <<"line", i>>)
      BY <1>3, <2>2, <3>1
    <3> QED BY <3>2, <3>3 DEF InOnePlace
  <2> QED BY <2>1, <2>2
<1>7. ASSUME NEW i \in Nat, i > Len(after) PROVE Nowhere(pending \o new, snapshots, <<"line", i>>)
  <2>1. i > Len(read) /\ i # n
    BY <1>1, <1>4, <1>7
  <2>2. Nowhere(pending, snapshots, <<"line", i>>)
    BY <2>1 DEF ContextKept
  <2> QED BY <1>3, <2>1, <2>2 DEF Nowhere
<1> QED
  BY <1>6, <1>7 DEF ContextKept, after

(* An event takes what is pending, without what is in it twice.             *)
LEMMA TakenIsKept ==
    ASSUME NEW read \in Seq(CodexLines), NEW l \in CodexLines, NEW pending, NEW snapshots,
           NEW s, IsSequence(pending), IsSequence(snapshots), s.context = DedupeContext(pending),
           ~ Unreadable(l), ContextKept(read, pending, snapshots)
    PROVE  ContextKept(Append(read, l), <<>>, Append(snapshots, s))
<1> DEFINE n == Len(read) + 1
<1> DEFINE after == Append(read, l)
<1> DEFINE taken == Append(snapshots, s)
<1>1. /\ n \in Nat /\ Len(after) = n /\ DOMAIN after = DOMAIN read \cup {n}
      /\ \A i \in DOMAIN read : after[i] = read[i]
      /\ after[n] = l
  BY AppendFacts
<1>6. \A record : InOnePlace(pending, snapshots, record) => InOnePlace(<<>>, taken, record)
  BY TakeKeeps
<1>7. \A record : Nowhere(pending, snapshots, record) => Nowhere(<<>>, taken, record)
  BY TakeKeeps
<1> HIDE DEF after, taken
<1>8. \A i \in DOMAIN after : Unreadable(after[i]) => InOnePlace(<<>>, taken, <<"line", i>>)
  BY <1>1, <1>6 DEF ContextKept
<1>9. \A i \in Nat : i > Len(after) => Nowhere(<<>>, taken, <<"line", i>>)
  <2>1. \A i \in Nat : i > n => i > Len(read)
    BY <1>1
  <2> QED BY <1>1, <1>7, <2>1 DEF ContextKept
<1> QED
  BY <1>8, <1>9 DEF ContextKept, after, taken

(* What a step other than an event does.                                     *)
Gathers(l, new) ==
    /\ OfLine(new, Len(codexRead) + 1)
    /\ Unreadable(l) => At(new, <<"line", Len(codexRead) + 1>>) = {1}
    /\ DOMAIN codex' = DOMAIN codex
    /\ codex'.pending = codex.pending \o new
    /\ codex'.snapshots = codex.snapshots /\ codex'.usage = codex.usage

(* A component of a line, and of a response item that has a name.            *)
LEMMA OneComponent ==
    ASSUME NEW n \in Nat, NEW e, e.record = <<"line", n>> \/ \E x : e.record = <<"item", x>>
    PROVE  /\ OfLine(<<e>>, n)
           /\ e.record = <<"line", n>> => At(<<e>>, <<"line", n>>) = {1}
<1>1. <<e>> \in Seq({e}) /\ Len(<<e>>) = 1 /\ DOMAIN <<e>> = {1} /\ <<e>>[1] = e
  OBVIOUS
<1>2. \A m \in Nat : e.record = <<"line", m>> => m = n
  OBVIOUS
<1> QED
  BY <1>1, <1>2 DEF OfLine, IsSequence, At

(* A line without components.                                               *)
LEMMA NoComponent == \A n \in Nat : OfLine(<<>>, n)
<1>1. <<>> \in Seq({}) /\ DOMAIN <<>> = {}
  OBVIOUS
<1> QED
  BY <1>1 DEF OfLine, IsSequence

(* Joining nothing, and joining one.                                        *)
LEMMA JoinsOfOne ==
    ASSUME NEW s, IsSequence(s), NEW e
    PROVE  s \o <<>> = s /\ Append(s, e) = s \o <<e>>
<1>1. PICK A : s \in Seq(A)
  BY DEF IsSequence
<1> DEFINE B == A \cup {e}
<1>2. s \in Seq(B) /\ e \in B
  BY <1>1
<1> HIDE DEF B
<1>3. s \o <<>> = s
  BY <1>2
<1>4. Append(s, e) = s \o <<e>>
  BY <1>2
<1> QED
  BY <1>3, <1>4

(* A response item is not named like another line.                          *)
LEMMA ItemNames ==
    ASSUME NEW l, Len(codexRead) \in Nat
    PROVE  ItemRecord(l) = <<"line", Len(codexRead) + 1>> \/ \E x : ItemRecord(l) = <<"item", x>>
BY DEF ItemRecord, LineRecord

(* A name of three parts is none of two.                                    *)
LEMMA LongerNames ==
    ASSUME NEW a, NEW b, NEW c, NEW d, NEW e
    PROVE  <<a, b>> \o <<c>> # <<d, e>>
<1>1. <<a, b>> \in Seq({a, b}) /\ <<c>> \in Seq({c}) /\ Len(<<a, b>>) = 2 /\ Len(<<c>>) = 1
  OBVIOUS
<1>2. IsSequence(<<a, b>>) /\ IsSequence(<<c>>)
  BY <1>1 DEF IsSequence
<1>3. Len(<<a, b>> \o <<c>>) = 2 + 1
  BY <1>1, <1>2, JoinedSequence
<1>4. Len(<<d, e>>) = 2
  OBVIOUS
<1> QED
  BY <1>3, <1>4

(* The files that a command names are not named like a line.                *)
LEMMA FileNames ==
    ASSUME NEW l \in CodexLines, Len(codexRead) \in Nat
    PROVE  OfLine(FileComponents(l), Len(codexRead) + 1)
<1>1. CASE l.name \notin {"exec_command", "functions.exec_command"}
  BY <1>1, NoComponent DEF FileComponents
<1>2. CASE l.name \in {"exec_command", "functions.exec_command"}
  <2> DEFINE fs == FileComponents(l)
  <2>1. l.paths \in Seq(STRING)
    BY CodexAssumption DEF CodexLine
  <2>2. Len(l.paths) \in Nat /\ DOMAIN l.paths = 1..Len(l.paths)
    BY <2>1
  <2>3. fs = [i \in 1..Len(l.paths) |->
                [Component("file", ItemRecord(l) \o <<i>>, 0) EXCEPT !.path = l.paths[i]]]
    BY <1>2, <2>2 DEF FileComponents
  <2>4. DOMAIN fs = 1..Len(l.paths) /\ fs = [i \in 1..Len(l.paths) |-> fs[i]]
    BY <2>3
  <2>5. ASSUME NEW i \in DOMAIN fs PROVE fs[i].record = ItemRecord(l) \o <<i>>
    <3> DEFINE e == Component("file", ItemRecord(l) \o <<i>>, 0)
    <3>1. e.record = ItemRecord(l) \o <<i>> /\ {"record", "path"} \subseteq DOMAIN e
      BY DEF Component
    <3>2. fs[i] = [e EXCEPT !.path = l.paths[i]]
      BY <2>3, <2>4
    <3> HIDE DEF e, fs
    <3> QED BY <3>1, <3>2
  <2>6. ASSUME NEW i \in DOMAIN fs, NEW m \in Nat PROVE fs[i].record # <<"line", m>>
    <3>1. fs[i].record = ItemRecord(l) \o <<i>>
      BY <2>5
    <3> HIDE DEF fs
    <3>2. CASE ItemRecord(l) = <<"line", Len(codexRead) + 1>>
      BY <3>1, <3>2, LongerNames
    <3>3. CASE \E x : ItemRecord(l) = <<"item", x>>
      BY <3>1, <3>3, LongerNames
    <3> QED BY <3>2, <3>3, ItemNames
  <2> HIDE DEF fs
  <2>7. IsSequence(fs)
    BY <2>2, <2>4, MappingIsSequence
  <2>8. OfLine(fs, Len(codexRead) + 1)
    BY <2>6, <2>7 DEF OfLine
  <2> QED BY <2>8 DEF fs
<1> QED
  BY <1>1, <1>2

(* What With does to the fields that matter.                                *)
LEMMA WithFacts ==
    ASSUME CodexType, NEW l, NEW new, OfLine(new, Len(codexRead) + 1),
           Unreadable(l) => At(new, <<"line", Len(codexRead) + 1>>) = {1},
           codex' = With(l, new)
    PROVE  Gathers(l, new)
BY DEF Gathers, With, Stamped, CodexType

(* What Stamped does to them.                                               *)
LEMMA StampedFacts ==
    ASSUME CodexType, NEW l
    PROVE  LET c == Stamped(l)
           IN  /\ DOMAIN c = DOMAIN codex /\ c.pending = codex.pending
               /\ c.snapshots = codex.snapshots /\ c.usage = codex.usage
BY DEF Stamped, CodexType

(* Every line but an event's adds its components to what is pending.        *)
LEMMA StepGathers ==
    ASSUME CodexType, NEW l \in CodexLines,
           \/ ReadUnreadableLine(l) \/ ReadBadPayload(l) \/ ReadEmptyLine(l) \/ ReadIgnored(l)
           \/ ReadSessionMeta(l) \/ ReadTurnContext(l) \/ ReadItemMessage(l) \/ ReadCall(l)
           \/ ReadOutput(l) \/ ReadUserMessage(l)
    PROVE  \E new : Gathers(l, new)
<1> DEFINE n == Len(codexRead) + 1
<1>1. n \in Nat /\ Len(codexRead) \in Nat /\ IsSequence(codex.pending)
  BY DEF CodexType
<1>2. CodexLine(l)
  BY CodexAssumption
<1>3. l.line \in {"blank", "malformed", "oversized", "entry"} /\ (l.line # "entry" => l.kind = "")
  BY <1>2 DEF CodexLine
<1>4. OfLine(<<>>, n) /\ codex.pending \o <<>> = codex.pending
  BY <1>1, NoComponent, JoinsOfOne
<1>5. CASE ReadUnreadableLine(l)
  <2> DEFINE e == UnreadableRecord(n, IF l.line = "oversized" THEN "truncated" ELSE "unavailable")
  <2>1. e.record = <<"line", n>>
    BY DEF UnreadableRecord, Component
  <2>2. codex' = [codex EXCEPT !.pending = Append(@, e)]
    BY <1>5 DEF ReadUnreadableLine
  <2> HIDE DEF e
  <2>3. Append(codex.pending, e) = codex.pending \o <<e>>
    BY <1>1, JoinsOfOne
  <2>4. OfLine(<<e>>, n) /\ At(<<e>>, <<"line", n>>) = {1}
    BY <1>1, <2>1, OneComponent
  <2>5. Gathers(l, <<e>>)
    <3>1. /\ DOMAIN codex' = DOMAIN codex /\ codex'.pending = codex.pending \o <<e>>
          /\ codex'.snapshots = codex.snapshots /\ codex'.usage = codex.usage
      BY <2>2, <2>3 DEF CodexType
    <3> QED BY <2>4, <3>1 DEF Gathers
  <2> QED BY <2>5
<1>6. CASE ReadBadPayload(l)
  <2> DEFINE e == UnreadableRecord(n, "unavailable")
  <2>1. e.record = <<"line", n>>
    BY DEF UnreadableRecord, Component
  <2>2. codex' = With(l, <<e>>)
    BY <1>6 DEF ReadBadPayload
  <2> HIDE DEF e
  <2>3. OfLine(<<e>>, n) /\ At(<<e>>, <<"line", n>>) = {1}
    BY <1>1, <2>1, OneComponent
  <2>4. Gathers(l, <<e>>)
    BY <2>2, <2>3, WithFacts
  <2> QED BY <2>4
<1>7. CASE ReadEmptyLine(l)
  <2>1. l.line = "blank" /\ codex' = codex
    BY <1>7 DEF ReadEmptyLine
  <2>2. ~ Unreadable(l)
    BY <1>3, <2>1 DEF Unreadable
  <2>3. Gathers(l, <<>>)
    BY <1>4, <2>1, <2>2 DEF Gathers
  <2> QED BY <2>3
<1>8. ASSUME l.kind \notin {"", "bad"} PROVE ~ Unreadable(l)
  BY <1>3, <1>8 DEF Unreadable
<1>9. CASE ReadIgnored(l) \/ ReadSessionMeta(l) \/ ReadTurnContext(l)
  <2>1. l.kind \notin {"", "bad"}
    BY <1>9 DEF ReadIgnored, ReadSessionMeta, ReadTurnContext
  <2>2. /\ DOMAIN codex' = DOMAIN codex /\ codex'.pending = codex.pending
        /\ codex'.snapshots = codex.snapshots /\ codex'.usage = codex.usage
    <3> DEFINE c == Stamped(l)
    <3>1. /\ DOMAIN c = DOMAIN codex /\ c.pending = codex.pending
          /\ c.snapshots = codex.snapshots /\ c.usage = codex.usage
      BY StampedFacts
    <3>2. DOMAIN codex = {"id", "model", "snapshots", "pending", "calls", "usage", "started", "updated"}
      BY DEF CodexType
    <3>3. \/ codex' = c
          \/ \E v : codex' = [c EXCEPT !.id = v]
          \/ \E v : codex' = [c EXCEPT !.model = v]
      BY <1>9 DEF ReadIgnored, ReadSessionMeta, ReadTurnContext
    <3> HIDE DEF c
    <3> QED BY <3>1, <3>2, <3>3
  <2>3. Gathers(l, <<>>)
    BY <1>4, <1>8, <2>1, <2>2 DEF Gathers
  <2> QED BY <2>3
<1>10. CASE ReadItemMessage(l)
  <2> DEFINE e == Component(MessageKind(l.role), ItemRecord(l), l.text)
  <2>1. ~ Unreadable(l)
    BY <1>8, <1>10 DEF ReadItemMessage
  <2>2. codex' = With(l, <<>>) \/ codex' = With(l, <<e>>)
    BY <1>10 DEF ReadItemMessage
  <2>3. e.record = ItemRecord(l)
    BY DEF Component
  <2> HIDE DEF e
  <2>4. OfLine(<<e>>, n)
    BY <1>1, <2>3, ItemNames, OneComponent
  <2>5. Gathers(l, <<>>) \/ Gathers(l, <<e>>)
    BY <1>4, <2>1, <2>2, <2>4, WithFacts
  <2> QED BY <2>5
<1>11. CASE ReadCall(l)
  <2>1. ~ Unreadable(l)
    BY <1>8, <1>11 DEF ReadCall
  <2> DEFINE new == FileComponents(l)
  <2>2. OfLine(new, n)
    BY <1>1, FileNames
  <2>3. /\ DOMAIN codex' = DOMAIN codex /\ codex'.pending = codex.pending \o new
        /\ codex'.snapshots = codex.snapshots /\ codex'.usage = codex.usage
    <3> HIDE DEF new
    <3> QED BY <1>11 DEF ReadCall, With, Stamped, CodexType, new
  <2>4. Gathers(l, new)
    BY <2>1, <2>2, <2>3 DEF Gathers
  <2> QED BY <2>4
<1>12. CASE ReadOutput(l)
  <2> DEFINE e == OutputComponent(l)
  <2>1. ~ Unreadable(l)
    BY <1>8, <1>12 DEF ReadOutput
  <2>2. codex' = With(l, <<e>>)
    BY <1>12 DEF ReadOutput
  <2>3. e.record = ItemRecord(l)
    BY DEF OutputComponent, ToolResult, Component
  <2> HIDE DEF e
  <2>4. OfLine(<<e>>, n)
    BY <1>1, <2>3, ItemNames, OneComponent
  <2>5. Gathers(l, <<e>>)
    BY <2>1, <2>2, <2>4, WithFacts
  <2> QED BY <2>5
<1>13. CASE ReadUserMessage(l)
  <2> DEFINE e == Component("user_prompt", LineRecord, l.text)
  <2>1. ~ Unreadable(l)
    BY <1>8, <1>13 DEF ReadUserMessage
  <2>2. codex' = With(l, <<e>>)
    BY <1>13 DEF ReadUserMessage
  <2>3. e.record = <<"line", n>>
    BY DEF Component, LineRecord
  <2> HIDE DEF e
  <2>4. OfLine(<<e>>, n)
    BY <1>1, <2>3, OneComponent
  <2>5. Gathers(l, <<e>>)
    BY <2>1, <2>2, <2>4, WithFacts
  <2> QED BY <2>5
<1> QED
  BY <1>5, <1>6, <1>7, <1>9, <1>10, <1>11, <1>12, <1>13

(* The counters of an event are numbers, and none but reasoning is missing.  *)
LEMMA EventCounters ==
    ASSUME NEW l \in CodexLines
    PROVE  IsSnap(SnapshotFromEvent(l))
<1>1. DOMAIN l.counts \subseteq CodexCounters /\ \A c \in DOMAIN l.counts : l.counts[c] \in Int
  BY CodexAssumption DEF CodexLine
<1>2. DOMAIN ZeroCounters = CodexCounters \ {"reasoning"}
      /\ \A c \in DOMAIN ZeroCounters : ZeroCounters[c] = 0
  BY DEF ZeroCounters
<1> DEFINE s == SnapshotFromEvent(l)
<1>3. DOMAIN s = DOMAIN l.counts \cup DOMAIN ZeroCounters
  BY DEF SnapshotFromEvent
<1>4. \A c \in DOMAIN s : s[c] = IF c \in DOMAIN l.counts THEN l.counts[c] ELSE ZeroCounters[c]
  BY DEF SnapshotFromEvent
<1> HIDE DEF s
<1>5. \A c \in DOMAIN s : s[c] \in Int
  BY <1>1, <1>2, <1>3, <1>4
<1> QED
  BY <1>1, <1>2, <1>3, <1>5 DEF IsSnap, s

(* What a counter of an event is.                                           *)
LEMMA TotalIsNumber == \A s : IsSnap(s) => s["total"] \in Int /\ s # <<>>
<1>1. DOMAIN <<>> = {}
  OBVIOUS
<1> QED
  BY <1>1 DEF IsSnap, CodexCounters

(* An event's counters become the usage where their total is not below it.   *)
LEMMA LargestIsKept ==
    ASSUME NEW snapshots, IsSequence(snapshots), NEW usage, NEW s, IsSnap(s.snap),
           \A i \in DOMAIN snapshots : IsSnap(snapshots[i].snap),
           UsageIsLargest(usage, snapshots), NEW next,
           next = IF s.snap["total"] >= (IF usage = <<>> THEN 0 ELSE usage["total"])
                  THEN s.snap ELSE usage
    PROVE  UsageIsLargest(next, Append(snapshots, s))
<1> DEFINE after == Append(snapshots, s)
<1> DEFINE n == Len(snapshots) + 1
<1>1. /\ Len(snapshots) \in Nat /\ DOMAIN snapshots = 1..Len(snapshots)
      /\ Len(after) = n /\ DOMAIN after = DOMAIN snapshots \cup {n}
      /\ \A i \in DOMAIN snapshots : after[i] = snapshots[i]
      /\ after[n] = s
  BY SequenceFacts, AppendSequence
<1>2. n \in Nat /\ n # 0 /\ \A i \in DOMAIN snapshots : i \in Nat /\ i < n
  BY <1>1
<1>3. /\ s.snap["total"] \in Int /\ s.snap # <<>>
      /\ \A i \in DOMAIN snapshots : snapshots[i].snap["total"] \in Int
  BY TotalIsNumber
<1> HIDE DEF after, n
<1>4. CASE usage = <<>>
  <2>1. \A j \in DOMAIN snapshots : snapshots[j].snap["total"] < 0
    BY <1>4 DEF UsageIsLargest
  <2>2. CASE s.snap["total"] >= 0
    <3>1. next = s.snap
      BY <1>4, <2>2
    <3>2. ASSUME NEW j \in DOMAIN after
          PROVE  after[j].snap["total"] <= next["total"] /\ ~ (n < j)
      <4>1. CASE j = n
        BY <1>1, <1>2, <1>3, <3>1, <4>1
      <4>2. CASE j \in DOMAIN snapshots
        BY <1>1, <1>2, <1>3, <2>1, <2>2, <3>1, <4>2
      <4> QED BY <1>1, <4>1, <4>2
    <3>3. IsLargest(n, next, after)
      BY <1>1, <3>1, <3>2 DEF IsLargest
    <3> QED BY <1>1, <1>3, <2>2, <3>1, <3>3 DEF UsageIsLargest, after
  <2>3. CASE ~ (s.snap["total"] >= 0)
    <3>1. next = <<>> /\ s.snap["total"] < 0
      BY <1>3, <1>4, <2>3
    <3>2. \A j \in DOMAIN after : after[j].snap["total"] < 0
      BY <1>1, <2>1, <3>1
    <3> QED BY <3>1, <3>2 DEF UsageIsLargest, after
  <2> QED BY <2>2, <2>3
<1>5. CASE usage # <<>>
  <2>1. PICK m \in DOMAIN snapshots : IsLargest(m, usage, snapshots)
    BY <1>5 DEF UsageIsLargest
  <2>2. usage = snapshots[m].snap /\ usage # <<>> /\ usage["total"] \in Int /\ usage["total"] >= 0
    BY <1>3, <1>5, <2>1 DEF IsLargest, UsageIsLargest
  <2>3. CASE s.snap["total"] >= usage["total"]
    <3>1. next = s.snap
      BY <2>2, <2>3
    <3>2. ASSUME NEW j \in DOMAIN after
          PROVE  after[j].snap["total"] <= next["total"] /\ ~ (n < j)
      <4>1. CASE j = n
        BY <1>1, <1>2, <1>3, <3>1, <4>1
      <4>2. CASE j \in DOMAIN snapshots
        <5>1. snapshots[j].snap["total"] <= usage["total"] /\ snapshots[j].snap["total"] \in Int
          BY <1>3, <2>1, <4>2 DEF IsLargest
        <5> QED BY <1>1, <1>2, <1>3, <2>2, <2>3, <3>1, <4>2, <5>1
      <4> QED BY <1>1, <4>1, <4>2
    <3>3. IsLargest(n, next, after)
      BY <1>1, <3>1, <3>2 DEF IsLargest
    <3> QED BY <1>1, <1>3, <2>2, <2>3, <3>1, <3>3 DEF UsageIsLargest, after
  <2>4. CASE ~ (s.snap["total"] >= usage["total"])
    <3>1. next = usage /\ s.snap["total"] < usage["total"]
      BY <1>3, <2>2, <2>4
    <3>2. ASSUME NEW j \in DOMAIN after
          PROVE  /\ after[j].snap["total"] <= next["total"]
                 /\ m < j => after[j].snap["total"] < next["total"]
      <4>1. CASE j = n
        BY <1>1, <1>3, <2>2, <3>1, <4>1
      <4>2. CASE j \in DOMAIN snapshots
        BY <1>1, <2>1, <3>1, <4>2 DEF IsLargest
      <4> QED BY <1>1, <4>1, <4>2
    <3>3. next = after[m].snap /\ m \in DOMAIN after
      BY <1>1, <2>2, <3>1
    <3>4. IsLargest(m, next, after)
      BY <3>2, <3>3 DEF IsLargest
    <3> QED BY <2>2, <3>1, <3>3, <3>4 DEF UsageIsLargest, after
  <2> QED BY <2>3, <2>4
<1> QED
  BY <1>4, <1>5

(* Nothing has been read at first.                                          *)
LEMMA CodexInvInit == CodexInit => CodexInv
<1> SUFFICES ASSUME CodexInit PROVE CodexInv
  OBVIOUS
<1>1. /\ codexRead = <<>>
      /\ DOMAIN codex = {"id", "model", "snapshots", "pending", "calls", "usage", "started", "updated"}
      /\ codex.pending = <<>> /\ codex.snapshots = <<>> /\ codex.usage = <<>>
  BY DEF CodexInit
<1>2. <<>> \in Seq(CodexLines) /\ DOMAIN <<>> = {} /\ Len(<<>>) = 0 /\ IsSequence(<<>>)
  <2>1. <<>> \in Seq({})
    OBVIOUS
  <2> QED BY <2>1 DEF IsSequence
<1>3. CodexType
  BY <1>1, <1>2 DEF CodexType
<1>4. UsageIsLargest(codex.usage, codex.snapshots)
  BY <1>1, <1>2 DEF UsageIsLargest
<1>5. ContextKept(codexRead, codex.pending, codex.snapshots)
  BY <1>1, <1>2 DEF ContextKept, Nowhere, At
<1> QED
  BY <1>3, <1>4, <1>5 DEF CodexInv

(* Every line keeps the invariant.                                          *)
LEMMA CodexInvNext == CodexInv /\ [CodexNext]_<<codexRead, codex>> => CodexInv'
<1> SUFFICES ASSUME CodexInv, [CodexNext]_<<codexRead, codex>> PROVE CodexInv'
  OBVIOUS
<1>1. CASE UNCHANGED <<codexRead, codex>>
  BY <1>1 DEF CodexInv, CodexType, UsageIsLargest, IsLargest, ContextKept
<1>2. ASSUME NEW l \in CodexLines, codexRead' = Append(codexRead, l),
             \/ ReadUnreadableLine(l) \/ ReadBadPayload(l) \/ ReadEmptyLine(l) \/ ReadIgnored(l)
             \/ ReadSessionMeta(l) \/ ReadTurnContext(l) \/ ReadItemMessage(l) \/ ReadCall(l)
             \/ ReadOutput(l) \/ ReadUserMessage(l)
      PROVE  CodexInv'
  <2>0. CodexType
    BY DEF CodexInv
  <2>1. PICK new : Gathers(l, new)
    BY <1>2, <2>0, StepGathers
  <2>2. /\ codex'.pending = codex.pending \o new /\ DOMAIN codex' = DOMAIN codex
        /\ codex'.snapshots = codex.snapshots /\ codex'.usage = codex.usage
        /\ OfLine(new, Len(codexRead) + 1)
        /\ Unreadable(l) => At(new, <<"line", Len(codexRead) + 1>>) = {1}
    BY <2>1 DEF Gathers
  <2>3. /\ codexRead \in Seq(CodexLines) /\ IsSequence(codex.pending)
        /\ ContextKept(codexRead, codex.pending, codex.snapshots)
        /\ UsageIsLargest(codex.usage, codex.snapshots)
    BY DEF CodexInv, CodexType
  <2>4. codexRead' \in Seq(CodexLines)
    BY <1>2, <2>3
  <2>5. IsSequence(codex'.pending)
    BY <2>2, <2>3, JoinedSequence DEF OfLine
  <2>6. CodexType'
    BY <2>0, <2>2, <2>4, <2>5 DEF CodexType
  <2>7. ContextKept(codexRead', codex'.pending, codex'.snapshots)
    <3>1. ContextKept(Append(codexRead, l), codex.pending \o new, codex.snapshots)
      BY <2>2, <2>3, GatheredIsKept
    <3> QED BY <1>2, <2>2, <3>1
  <2>8. UsageIsLargest(codex'.usage, codex'.snapshots)
    BY <2>2, <2>3
  <2> QED BY <2>6, <2>7, <2>8 DEF CodexInv
<1>3. ASSUME NEW l \in CodexLines, codexRead' = Append(codexRead, l), ReadTokenCount(l)
      PROVE  CodexInv'
  <2> DEFINE s == [snap |-> SnapshotFromEvent(l), at |-> l.at, context |-> DedupeContext(codex.pending)]
  <2> DEFINE c == Stamped(l)
  <2>0. CodexType
    BY DEF CodexInv
  <2>1. /\ DOMAIN c = DOMAIN codex /\ c.snapshots = codex.snapshots /\ c.usage = codex.usage
        /\ DOMAIN codex = {"id", "model", "snapshots", "pending", "calls", "usage", "started", "updated"}
    BY <2>0, StampedFacts DEF CodexType
  <2>2. s.snap = SnapshotFromEvent(l) /\ s.context = DedupeContext(codex.pending)
    OBVIOUS
  <2>3. codex' = [c EXCEPT !.snapshots = Append(c.snapshots, s), !.pending = <<>>,
                     !.usage = IF s.snap["total"] >= TotalSoFar THEN s.snap ELSE c.usage]
    BY <1>3 DEF ReadTokenCount
  <2> HIDE DEF s, c
  <2>4. /\ DOMAIN codex' = DOMAIN codex
        /\ codex'.snapshots = Append(codex.snapshots, s) /\ codex'.pending = <<>>
        /\ codex'.usage = IF s.snap["total"] >= TotalSoFar THEN s.snap ELSE codex.usage
    BY <2>1, <2>3
  <2>5. /\ codexRead \in Seq(CodexLines) /\ IsSequence(codex.pending) /\ IsSequence(codex.snapshots)
        /\ \A i \in DOMAIN codex.snapshots :
             IsSnap(codex.snapshots[i].snap) /\ IsSequence(codex.snapshots[i].context)
        /\ ContextKept(codexRead, codex.pending, codex.snapshots)
        /\ UsageIsLargest(codex.usage, codex.snapshots)
    BY DEF CodexInv, CodexType
  <2>6. codexRead' \in Seq(CodexLines)
    BY <1>3, <2>5
  <2>7. IsSnap(s.snap)
    BY <2>2, EventCounters
  <2>8. IsSequence(s.context)
    <3>1. Len(codex.pending) \in Nat /\ DOMAIN codex.pending = 1..Len(codex.pending)
      BY <2>5, SequenceFacts
    <3>2. PICK m \in Nat : DOMAIN DedupeContext(codex.pending) = 1..m
      BY <3>1, DedupeKeeps
    <3>3. DedupeContext(codex.pending) = [k \in 1..m |-> DedupeContext(codex.pending)[k]]
      BY <3>2 DEF DedupeContext
    <3> QED BY <2>2, <3>3, MappingIsSequence
  <2>9. CodexType'
    <3> DEFINE after == Append(codex.snapshots, s)
    <3>1. /\ IsSequence(after) /\ DOMAIN after = DOMAIN codex.snapshots \cup {Len(codex.snapshots) + 1}
          /\ \A i \in DOMAIN codex.snapshots : after[i] = codex.snapshots[i]
          /\ after[Len(codex.snapshots) + 1] = s
      BY <2>5, AppendSequence
    <3> HIDE DEF after
    <3>2. \A i \in DOMAIN after : IsSnap(after[i].snap) /\ IsSequence(after[i].context)
      BY <2>5, <2>7, <2>8, <3>1
    <3>3. IsSequence(<<>>)
      <4>1. <<>> \in Seq({})
        OBVIOUS
      <4> QED BY <4>1 DEF IsSequence
    <3>4. codex'.snapshots = after
      BY <2>4 DEF after
    <3> QED BY <2>1, <2>4, <2>6, <3>1, <3>2, <3>3, <3>4 DEF CodexType
  <2>10. UsageIsLargest(codex'.usage, codex'.snapshots)
    <3>1. codex'.usage = IF s.snap["total"] >= (IF codex.usage = <<>> THEN 0 ELSE codex.usage["total"])
                         THEN s.snap ELSE codex.usage
      BY <2>4 DEF TotalSoFar
    <3>2. UsageIsLargest(codex'.usage, Append(codex.snapshots, s))
      BY <2>5, <2>7, <3>1, LargestIsKept
    <3> QED BY <2>4, <3>2
  <2>11. ContextKept(codexRead', codex'.pending, codex'.snapshots)
    <3>1. ~ Unreadable(l)
      <4>1. l.kind = "token_count"
        BY <1>3 DEF ReadTokenCount
      <4>2. l.line \in {"blank", "malformed", "oversized", "entry"} /\ (l.line # "entry" => l.kind = "")
        BY CodexAssumption DEF CodexLine
      <4> QED BY <4>1, <4>2 DEF Unreadable
    <3>2. ContextKept(Append(codexRead, l), <<>>, Append(codex.snapshots, s))
      BY <2>2, <2>5, <3>1, TakenIsKept
    <3> QED BY <1>3, <2>4, <3>2
  <2> QED BY <2>9, <2>10, <2>11 DEF CodexInv
<1> QED
  BY <1>1, <1>2, <1>3 DEF CodexNext

(* The invariant holds of every reading.                                    *)
LEMMA CodexInvHolds == CodexSpec => []CodexInv
<1>1. CodexInit => CodexInv
  BY CodexInvInit
<1>2. CodexInv /\ [CodexNext]_<<codexRead, codex>> => CodexInv'
  BY CodexInvNext
<1> QED
  BY <1>1, <1>2, PTL DEF CodexSpec

-----------------------------------------------------------------------------
(* Turns. *)

(* A counter's measurement.                                                 *)
LEMMA CounterMeasured ==
    ASSUME NEW snap, NEW kind, NEW f \in CodexCounters
    PROVE  CodexUsage(snap, kind)[f]
             = IF f \in DOMAIN snap THEN Measured(snap[f], kind) ELSE NoMeasurement
<1>1. CASE f = "input" BY <1>1 DEF CodexUsage
<1>2. CASE f = "cached" BY <1>2 DEF CodexUsage
<1>3. CASE f = "output" BY <1>3 DEF CodexUsage
<1>4. CASE f = "reasoning" BY <1>4 DEF CodexUsage
<1>5. CASE f = "total" BY <1>5 DEF CodexUsage
<1> QED
  BY <1>1, <1>2, <1>3, <1>4, <1>5 DEF CodexCounters

(* The counters of a turn: those of its event less those of the one before.  *)
TurnCounters(i) ==
    IF Falls(PrevSnapshot(i), codex.snapshots[i].snap) THEN <<>>
    ELSE Delta(PrevSnapshot(i), codex.snapshots[i].snap)

(* Each event makes a turn.                                                 *)
LEMMA TurnsOfEvents ==
    ASSUME CodexType
    PROVE  /\ Len(codex.snapshots) \in Nat
           /\ DOMAIN codex.snapshots = 1..Len(codex.snapshots)
           /\ DOMAIN CodexTurns = 1..Len(codex.snapshots)
           /\ CodexTurns = [i \in 1..Len(codex.snapshots) |-> CodexTurns[i]]
           /\ \A i \in 1..Len(codex.snapshots) :
                /\ CodexTurns[i].usage = CodexUsage(TurnCounters(i), "derived")
                /\ CodexTurns[i].id = <<codex.id, i>>
                /\ CodexTurns[i].context = codex.snapshots[i].context
<1>1. Len(codex.snapshots) \in Nat /\ DOMAIN codex.snapshots = 1..Len(codex.snapshots)
  BY SequenceFacts DEF CodexType
<1>2. DOMAIN CodexTurns = 1..Len(codex.snapshots)
  BY <1>1 DEF CodexTurns
<1>3. CodexTurns = [i \in 1..Len(codex.snapshots) |-> CodexTurns[i]]
  BY <1>1 DEF CodexTurns
<1>4. ASSUME NEW i \in 1..Len(codex.snapshots)
      PROVE  /\ CodexTurns[i].usage = CodexUsage(TurnCounters(i), "derived")
             /\ CodexTurns[i].id = <<codex.id, i>>
             /\ CodexTurns[i].context = codex.snapshots[i].context
  BY <1>1, <1>4 DEF CodexTurns, TurnCounters
<1> QED
  BY <1>1, <1>2, <1>3, <1>4

(* The counters that a turn is held against.                                *)
LEMMA CountersBefore ==
    ASSUME CodexType, NEW i \in 1..Len(codex.snapshots)
    PROVE  /\ IsSnap(PrevSnapshot(i))
           /\ PrevSnapshot(i) = IF i = 1 THEN ZeroCounters ELSE codex.snapshots[i - 1].snap
           /\ i # 1 => i - 1 \in 1..Len(codex.snapshots)
<1>1. Len(codex.snapshots) \in Nat /\ DOMAIN codex.snapshots = 1..Len(codex.snapshots)
  BY TurnsOfEvents
<1>2. i # 1 => i - 1 \in 1..Len(codex.snapshots)
  BY <1>1
<1>3. IsSnap(ZeroCounters)
  BY DEF IsSnap, ZeroCounters
<1>4. \A j \in 1..Len(codex.snapshots) : IsSnap(codex.snapshots[j].snap)
  BY <1>1 DEF CodexType
<1> QED
  BY <1>2, <1>3, <1>4 DEF PrevSnapshot

(* What a turn counted is known, and not negative but for reasoning that was  *)
(* reported as negative, or not known at all.                               *)
LEMMA TurnCounted ==
    ASSUME CodexType, NEW i \in 1..Len(codex.snapshots)
    PROVE  LET before == PrevSnapshot(i)
               after == codex.snapshots[i].snap
               counted == TurnCounters(i)
           IN  /\ DOMAIN counted \subseteq CodexCounters
               /\ \A c \in DOMAIN counted :
                    /\ counted[c] \in Int
                    /\ counted[c] < 0 => c = "reasoning" /\ after[c] < 0 /\ c \in DOMAIN after
               /\ "total" \in DOMAIN counted =>
                    \A c \in CodexCounters \ {"reasoning"} :
                       /\ c \in DOMAIN counted
                       /\ counted[c] = after[c] - before[c]
                       /\ before[c] <= after[c]
                       /\ before[c] \in Int /\ after[c] \in Int
<1> DEFINE before == PrevSnapshot(i)
<1> DEFINE after == codex.snapshots[i].snap
<1> DEFINE counted == TurnCounters(i)
<1>1. IsSnap(before) /\ IsSnap(after)
  BY CountersBefore, TurnsOfEvents DEF CodexType
<1>2. counted = IF Falls(before, after) THEN <<>> ELSE Delta(before, after)
  BY DEF TurnCounters
<1>3. DOMAIN <<>> = {}
  OBVIOUS
<1> HIDE DEF before, after, counted
<1>4. CASE Falls(before, after)
  <2>1. DOMAIN counted = {}
    BY <1>2, <1>3, <1>4
  <2> QED BY <2>1 DEF before, after, counted
<1>5. CASE ~ Falls(before, after)
  <2>1. /\ DOMAIN counted = DOMAIN after
        /\ \A c \in DOMAIN after :
             counted[c] = after[c] - (IF c \in DOMAIN before THEN before[c] ELSE 0)
    BY <1>2, <1>5 DEF Delta
  <2>2. \A c \in CodexCounters \ {"reasoning"} :
           /\ c \in DOMAIN before /\ c \in DOMAIN after
           /\ before[c] \in Int /\ after[c] \in Int
           /\ before[c] <= after[c]
    <3> TAKE c \in CodexCounters \ {"reasoning"}
    <3>1. c \in DOMAIN before /\ c \in DOMAIN after
      BY <1>1 DEF IsSnap
    <3>2. before[c] \in Int /\ after[c] \in Int
      BY <1>1, <3>1 DEF IsSnap
    <3>3. ~ (after[c] < before[c])
      BY <1>5 DEF Falls
    <3> QED BY <3>1, <3>2, <3>3
  <2>3. ASSUME NEW c \in DOMAIN after
        PROVE  /\ counted[c] \in Int
               /\ counted[c] < 0 => c = "reasoning" /\ after[c] < 0 /\ c \in DOMAIN after
    <3>1. after[c] \in Int /\ (c \in DOMAIN before => before[c] \in Int) /\ c \in CodexCounters
      BY <1>1 DEF IsSnap
    <3>2. counted[c] = after[c] - (IF c \in DOMAIN before THEN before[c] ELSE 0)
      BY <2>1
    <3>3. CASE c \notin DOMAIN before
      <4>1. c = "reasoning"
        BY <2>2, <3>1, <3>3
      <4> QED BY <3>1, <3>2, <3>3, <4>1
    <3>4. CASE c \in DOMAIN before
      <4>1. before[c] <= after[c]
        <5>1. CASE c = "reasoning"
          <6>1. ~ (after[c] < before[c])
            BY <1>5, <3>4, <5>1 DEF Falls
          <6> QED BY <3>1, <3>4, <6>1
        <5>2. CASE c # "reasoning"
          BY <2>2, <3>1, <5>2
        <5> QED BY <5>1, <5>2
      <4> QED BY <3>1, <3>2, <3>4, <4>1
    <3> QED BY <3>3, <3>4
  <2>4. DOMAIN counted \subseteq CodexCounters
    BY <1>1, <2>1 DEF IsSnap
  <2>5. \A c \in CodexCounters \ {"reasoning"} :
           c \in DOMAIN counted /\ counted[c] = after[c] - before[c]
    BY <2>1, <2>2
  <2> QED BY <2>1, <2>2, <2>3, <2>4, <2>5 DEF before, after, counted
<1> QED
  BY <1>4, <1>5

(* A turn is known where its event's total is counted.                       *)
LEMMA KnownTurn ==
    ASSUME CodexType, NEW i \in 1..Len(codex.snapshots)
    PROVE  Available(CodexTurns[i].usage.total) <=> "total" \in DOMAIN TurnCounters(i)
<1>1. CodexTurns[i].usage = CodexUsage(TurnCounters(i), "derived")
  BY TurnsOfEvents
<1>2. CodexUsage(TurnCounters(i), "derived")["total"]
        = IF "total" \in DOMAIN TurnCounters(i) THEN Measured(TurnCounters(i)["total"], "derived")
          ELSE NoMeasurement
  BY CounterMeasured DEF CodexCounters
<1>3. \A v : Available(Measured(v, "derived"))
  BY DEF Available, Measured
<1>4. ~ Available(NoMeasurement)
  BY DEF Available, NoMeasurement
<1> QED
  BY <1>1, <1>2, <1>3, <1>4
(* The session's usage comes from the event that FinalSnapshot names.       *)
LEMMA FinalIsLargest ==
    ASSUME CodexType, UsageIsLargest(codex.usage, codex.snapshots), codex.usage # <<>>
    PROVE  /\ FinalSnapshot \in 1..Len(codex.snapshots)
           /\ IsLargest(FinalSnapshot, codex.usage, codex.snapshots)
           /\ TotalSoFar = codex.usage["total"]
<1> DEFINE n == Len(codex.snapshots)
<1> DEFINE same == {i \in DOMAIN codex.snapshots : codex.snapshots[i].snap["total"] = TotalSoFar}
<1>1. n \in Nat /\ DOMAIN codex.snapshots = 1..n
  BY TurnsOfEvents
<1>2. PICK m \in 1..n : IsLargest(m, codex.usage, codex.snapshots)
  BY <1>1 DEF UsageIsLargest
<1>3. TotalSoFar = codex.usage["total"]
  BY DEF TotalSoFar
<1>4. \A j \in 1..n : codex.snapshots[j].snap["total"] \in Int
  BY <1>1, TotalIsNumber DEF CodexType
<1>5. m \in same /\ same \subseteq 1..n
  BY <1>1, <1>2, <1>3 DEF IsLargest
<1>6. Max(same) \in same /\ \A j \in same : j <= Max(same)
  <2> HIDE DEF same, n
  <2>1. IsFiniteSet(same) /\ same \subseteq Nat
    BY <1>1, <1>5, FiniteNumbers
  <2> QED BY <1>5, <2>1, GreatestNumber
<1>7. FinalSnapshot = Max(same)
  BY <1>3 DEF FinalSnapshot
<1>8. FinalSnapshot = m
  <2> DEFINE k == FinalSnapshot
  <2>1. k \in same /\ m <= k
    BY <1>5, <1>6, <1>7
  <2>2. k \in 1..n /\ codex.snapshots[k].snap["total"] = codex.usage["total"]
    BY <1>1, <1>3, <2>1
  <2>3. ~ (m < k)
    <3>1. m < k => codex.snapshots[k].snap["total"] < codex.usage["total"]
      BY <1>1, <1>2, <2>2 DEF IsLargest
    <3> QED BY <1>4, <2>2, <3>1
  <2> HIDE DEF k, same
  <2> QED BY <1>1, <2>1, <2>2, <2>3 DEF k
<1> QED
  BY <1>2, <1>3, <1>8

(* Where every turn is known, the last event has the largest total.         *)
LEMMA LastIsLargest ==
    ASSUME CodexType, UsageIsLargest(codex.usage, codex.snapshots), Len(codex.snapshots) # 0,
           \A i \in 1..Len(codex.snapshots) : "total" \in DOMAIN TurnCounters(i)
    PROVE  /\ codex.usage # <<>> /\ FinalSnapshot = Len(codex.snapshots)
           /\ codex.usage = codex.snapshots[Len(codex.snapshots)].snap
<1> DEFINE n == Len(codex.snapshots)
<1> DEFINE t == [i \in 1..n |-> codex.snapshots[i].snap["total"]]
<1>1. n \in Nat /\ n # 0 /\ DOMAIN codex.snapshots = 1..n
  BY TurnsOfEvents
<1>2. \A i \in 1..n : t[i] \in Int
  BY <1>1, TotalIsNumber DEF CodexType
<1>3. \A i \in 1..n : i # 1 => i - 1 \in 1..n /\ t[i - 1] <= t[i]
  <2> SUFFICES ASSUME NEW i \in 1..n, i # 1 PROVE i - 1 \in 1..n /\ t[i - 1] <= t[i]
    OBVIOUS
  <2>1. i - 1 \in 1..n /\ PrevSnapshot(i) = codex.snapshots[i - 1].snap
    BY CountersBefore
  <2>2. "total" \in DOMAIN TurnCounters(i) /\ "total" \in CodexCounters \ {"reasoning"}
    BY DEF CodexCounters
  <2>3. PrevSnapshot(i)["total"] <= codex.snapshots[i].snap["total"]
    BY <2>2, TurnCounted
  <2> QED BY <2>1, <2>3
<1> HIDE DEF t, n
<1> DEFINE S == {k \in Nat : k < n => t[n - k] <= t[n]}
<1>4. 0 \in S
  BY <1>1, <1>2
<1>5. ASSUME NEW k \in Nat, k \in S PROVE k + 1 \in S
  <2> SUFFICES ASSUME k + 1 < n PROVE t[n - (k + 1)] <= t[n]
    OBVIOUS
  <2>1. /\ n - k \in 1..n /\ n - k # 1 /\ (n - k) - 1 = n - (k + 1) /\ k < n /\ n \in 1..n
        /\ n - (k + 1) \in 1..n
    BY <1>1
  <2>2. t[n - (k + 1)] <= t[n - k]
    BY <1>3, <2>1
  <2>3. t[n - k] <= t[n]
    BY <1>5, <2>1
  <2>4. t[n - (k + 1)] \in Int /\ t[n - k] \in Int /\ t[n] \in Int
    BY <1>2, <2>1
  <2> QED BY <2>2, <2>3, <2>4
<1>6. Nat \subseteq S
  <2> HIDE DEF S
  <2> QED BY <1>4, <1>5, NumbersByInduction
<1>7. \A i \in 1..n : t[i] <= t[n]
  <2> TAKE i \in 1..n
  <2>1. n - i \in Nat /\ n - i < n /\ n - (n - i) = i
    BY <1>1
  <2> QED BY <1>6, <2>1
<1>8. codex.usage # <<>>
  <2>1. 1 \in 1..Len(codex.snapshots)
    BY <1>1 DEF n
  <2>2. PrevSnapshot(1) = ZeroCounters /\ ZeroCounters["total"] = 0
    BY <2>1 DEF PrevSnapshot, ZeroCounters, CodexCounters
  <2>3. "total" \in DOMAIN TurnCounters(1) /\ "total" \in CodexCounters \ {"reasoning"}
    BY <2>1 DEF CodexCounters
  <2>4. PrevSnapshot(1)["total"] <= codex.snapshots[1].snap["total"]
        /\ codex.snapshots[1].snap["total"] \in Int
    BY <2>1, <2>3, TurnCounted
  <2>5. ~ (codex.snapshots[1].snap["total"] < 0)
    BY <2>2, <2>4
  <2> QED BY <1>1, <2>1, <2>5 DEF UsageIsLargest, n
<1>9. FinalSnapshot = n
  <2> DEFINE m == FinalSnapshot
  <2>1. m \in 1..n /\ IsLargest(m, codex.usage, codex.snapshots)
    BY <1>8, FinalIsLargest DEF n
  <2>2. n \in 1..n /\ n \in DOMAIN codex.snapshots /\ m \in DOMAIN codex.snapshots
    BY <1>1, <2>1
  <2>3. m < n => t[n] < t[m]
    BY <2>1, <2>2, <1>1 DEF IsLargest, t
  <2>4. t[m] <= t[n] /\ t[m] \in Int /\ t[n] \in Int
    BY <1>2, <1>7, <2>1, <2>2
  <2> HIDE DEF m
  <2> QED BY <1>1, <2>1, <2>3, <2>4 DEF m
<1> QED
  BY <1>8, <1>9, FinalIsLargest DEF IsLargest, n

(* Where no counter ever fell the turns add up to the session, whose usage   *)
(* is the last event's.                                                     *)
THEOREM CodexTurnsAddUp == CodexSpec => []CodexTurnsTelescope
<1>1. CodexInv => CodexTurnsTelescope
  <2> SUFFICES ASSUME CodexInv, KnownTurns # {}, KnownTurns = DOMAIN CodexTurns
               PROVE  /\ \A f \in {"input", "cached", "output", "total"} :
                           SumOfTurns(f, KnownTurns) = CodexSessions[1].usage[f].value
                      /\ CodexSessions[1].final = Len(codex.snapshots)
    BY DEF CodexTurnsTelescope
  <2> DEFINE n == Len(codex.snapshots)
  <2>1. /\ CodexType /\ UsageIsLargest(codex.usage, codex.snapshots)
        /\ n \in Nat /\ DOMAIN codex.snapshots = 1..n /\ KnownTurns = 1..n
    BY TurnsOfEvents DEF CodexInv
  <2>2. \A i \in 1..n : "total" \in DOMAIN TurnCounters(i)
    BY <2>1, KnownTurn DEF KnownTurns
  <2>3. n # 0
    BY <2>1
  <2>4. FinalSnapshot = n /\ codex.usage = codex.snapshots[n].snap
    BY <2>1, <2>2, <2>3, LastIsLargest
  <2>5. /\ CodexSessions[1].final = FinalSnapshot
        /\ CodexSessions[1].usage = CodexUsage(codex.usage, "measured")
    BY DEF CodexSessions
  <2>6. ASSUME NEW f \in {"input", "cached", "output", "total"}
        PROVE  SumOfTurns(f, KnownTurns) = CodexSessions[1].usage[f].value
    <3> DEFINE v == [i \in 1..n |-> CodexTurns[i].usage[f].value]
    <3> DEFINE s == [i \in 0..n |-> IF i = 0 THEN 0 ELSE codex.snapshots[i].snap[f]]
    <3>1. f \in CodexCounters \ {"reasoning"}
      BY DEF CodexCounters
    <3>2. \A i \in 0..n : s[i] \in Int
      <4>1. \A i \in 1..n : codex.snapshots[i].snap[f] \in Int
        BY <2>1, <3>1 DEF CodexType, IsSnap
      <4> QED BY <2>1, <4>1
    <3>3. ASSUME NEW i \in 1..n PROVE v[i] = s[i] - s[i - 1]
      <4>1. /\ f \in DOMAIN TurnCounters(i)
            /\ TurnCounters(i)[f] = codex.snapshots[i].snap[f] - PrevSnapshot(i)[f]
        BY <2>1, <2>2, <3>1, TurnCounted
      <4>2. CodexTurns[i].usage = CodexUsage(TurnCounters(i), "derived")
        BY <2>1, TurnsOfEvents
      <4>3. CodexUsage(TurnCounters(i), "derived")[f] = Measured(TurnCounters(i)[f], "derived")
        BY <3>1, <4>1, CounterMeasured
      <4>4. v[i] = TurnCounters(i)[f]
        BY <4>2, <4>3 DEF Measured
      <4>5. PrevSnapshot(i)[f] = s[i - 1]
        <5>1. PrevSnapshot(i) = IF i = 1 THEN ZeroCounters ELSE codex.snapshots[i - 1].snap
          BY <2>1, CountersBefore
        <5>2. ZeroCounters[f] = 0
          BY <3>1 DEF ZeroCounters
        <5>3. i - 1 \in 0..n /\ (i - 1 = 0 <=> i = 1)
          BY <2>1
        <5> HIDE DEF n
        <5> QED BY <5>1, <5>2, <5>3
      <4>6. s[i] = codex.snapshots[i].snap[f]
        BY <2>1
      <4> HIDE DEF v, s
      <4> QED BY <4>1, <4>4, <4>5, <4>6
    <3>4. 0 \in 0..n /\ n \in 0..n /\ s[0] = 0 /\ s[n] = codex.usage[f]
      BY <2>1, <2>3, <2>4
    <3>5. SumOfTurns(f, KnownTurns) = SumFunctionOnSet(v, 1..n)
      BY <2>1 DEF SumOfTurns
    <3> HIDE DEF v, s, n
    <3>6. Differences(v, s, n)
      BY <3>2, <3>3, <3>4 DEF Differences
    <3>7. SumFunctionOnSet(v, 1..n) = s[n]
      BY <2>1, <3>6, DifferencesAddUp
    <3>8. CodexUsage(codex.usage, "measured")[f].value = codex.usage[f]
      <4>1. f \in DOMAIN codex.usage /\ f \in CodexCounters
        <5>1. n \in 1..n
          BY <2>1, <2>3
        <5> QED BY <2>1, <2>4, <3>1, <5>1 DEF CodexType, IsSnap
      <4>2. CodexUsage(codex.usage, "measured")[f] = Measured(codex.usage[f], "measured")
        BY <4>1, CounterMeasured
      <4> QED BY <4>2 DEF Measured
    <3> QED BY <2>5, <3>4, <3>5, <3>7, <3>8
  <2> QED BY <2>4, <2>5, <2>6
<1>2. CodexSpec => []CodexInv
  BY CodexInvHolds
<1> QED
  BY <1>1, <1>2, PTL
-----------------------------------------------------------------------------
(* What is projected, and where records end up. *)

(* A measurement that is valid, and negative only where a counter of snap is. *)
CountedFrom(m, c, snap) ==
    /\ ValidMeasurement(m) /\ m.value \in Int
    /\ m.value < 0 => c \in DOMAIN snap /\ snap[c] < 0

(* Counters make measurements that are valid, and negative only where the    *)
(* counter is.                                                              *)
LEMMA CountersAreObserved ==
    ASSUME NEW snap, DOMAIN snap \subseteq CodexCounters, \A c \in DOMAIN snap : snap[c] \in Int,
           NEW kind \in {"measured", "derived"}, NEW f \in UsageFields
    PROVE  LET m == CodexObservationUsage(CodexUsage(snap, kind))[f]
           IN  /\ ValidMeasurement(m)
               /\ m.value < 0 => /\ \E c \in DOMAIN snap : snap[c] < 0
                                 /\ (\A c \in DOMAIN snap : snap[c] < 0 => c = "reasoning")
                                      => f = "reasoning"
<1> DEFINE u == CodexUsage(snap, kind)
<1>1. /\ ValidMeasurement(NoMeasurement) /\ NoMeasurement.value = 0
      /\ ValidMeasurement(Unknown) /\ Unknown.value = 0
  BY DEF NoMeasurement, Unknown, ValidMeasurement, Kinds
<1>2. \A n : /\ ValidMeasurement(Measured(n, kind)) /\ Measured(n, kind).value = n
             /\ ValidMeasurement(Measured(n, "derived")) /\ Measured(n, "derived").value = n
  BY DEF Measured, ValidMeasurement, Kinds
<1>3. ASSUME NEW c \in CodexCounters PROVE CountedFrom(u[c], c, snap)
  <2>1. u[c] = IF c \in DOMAIN snap THEN Measured(snap[c], kind) ELSE NoMeasurement
    BY CounterMeasured
  <2>2. CASE c \in DOMAIN snap
    BY <1>2, <2>1, <2>2 DEF CountedFrom
  <2>3. CASE c \notin DOMAIN snap
    BY <1>1, <2>1, <2>3 DEF CountedFrom
  <2> QED BY <2>2, <2>3
<1>4. /\ CountedFrom(u.input, "input", snap) /\ CountedFrom(u.cached, "cached", snap)
      /\ CountedFrom(u.output, "output", snap) /\ CountedFrom(u.reasoning, "reasoning", snap)
      /\ CountedFrom(u.total, "total", snap)
  <2>1. {"input", "cached", "output", "reasoning", "total"} = CodexCounters
    BY DEF CodexCounters
  <2> HIDE DEF u
  <2> QED BY <1>3, <2>1
<1> HIDE DEF u
<1>5. ValidMeasurement(DerivedFreshInput(u)) /\ ~ (DerivedFreshInput(u).value < 0)
  <2>1. CASE ~ (Available(u.input) /\ Available(u.cached))
    BY <1>1, <2>1 DEF DerivedFreshInput
  <2>2. CASE Available(u.input) /\ Available(u.cached)
    <3>1. u.input.value \in Int /\ u.cached.value \in Int
      BY <1>4 DEF CountedFrom
    <3>2. CASE u.input.value < u.cached.value
      BY <1>1, <2>2, <3>2 DEF DerivedFreshInput
    <3>3. CASE ~ (u.input.value < u.cached.value)
      <4>1. ~ (u.input.value - u.cached.value < 0)
        BY <3>1, <3>3
      <4>2. DerivedFreshInput(u) = Measured(u.input.value - u.cached.value, "derived")
        BY <2>2, <3>3 DEF DerivedFreshInput
      <4> QED BY <1>2, <4>1, <4>2
    <3> QED BY <3>2, <3>3
  <2> QED BY <2>1, <2>2
<1> DEFINE o == CodexObservationUsage(u)
<1>6. /\ o["freshInput"] = DerivedFreshInput(u) /\ o["cachedInput"] = u.cached
      /\ o["totalInput"] = u.input /\ o["output"] = u.output /\ o["reasoning"] = u.reasoning
      /\ o["total"] = u.total /\ o["cacheCreation"] = NoMeasurement
  BY DEF CodexObservationUsage, NoUsage, UsageFields
<1> HIDE DEF o
<1>7. CASE f \in {"freshInput", "cacheCreation"}
  <2>1. ValidMeasurement(o[f]) /\ ~ (o[f].value < 0)
    BY <1>1, <1>5, <1>6, <1>7
  <2> QED BY <2>1 DEF o, u
<1>8. CASE f \in UsageFields \ {"freshInput", "cacheCreation"}
  <2>1. \E c : CountedFrom(o[f], c, snap) /\ (c = "reasoning" => f = "reasoning")
    BY <1>4, <1>6, <1>8 DEF UsageFields
  <2> QED BY <2>1 DEF CountedFrom, o, u
<1> QED
  BY <1>7, <1>8

(* A projection of counters is valid, and negative only where these are.    *)
LEMMA ObservationIsSound ==
    ASSUME NEW snap, DOMAIN snap \subseteq CodexCounters, \A c \in DOMAIN snap : snap[c] \in Int,
           NEW kind \in {"measured", "derived"}, NEW id, NEW at, NEW model, NEW o,
           o = CodexObservation(id, at, model, CodexUsage(snap, kind))
    PROVE  /\ ValidObservation(o) /\ o.id = id
           /\ \A f \in UsageFields :
                o.usage[f].value < 0 => /\ \E c \in DOMAIN snap : snap[c] < 0
                                        /\ (\A c \in DOMAIN snap : snap[c] < 0 => c = "reasoning")
                                             => f = "reasoning"
<1> DEFINE usage == CodexObservationUsage(CodexUsage(snap, kind))
<1>1. \A f \in UsageFields :
         /\ ValidMeasurement(usage[f])
         /\ usage[f].value < 0 => /\ \E c \in DOMAIN snap : snap[c] < 0
                                  /\ (\A c \in DOMAIN snap : snap[c] < 0 => c = "reasoning")
                                       => f = "reasoning"
  BY CountersAreObserved
<1> HIDE DEF usage
<1>2. /\ o.id = id /\ o.finished = 0 /\ o.usage = usage /\ o.outcome = "unknown"
      /\ o.completeness = ObservationCompleteness(usage, {"totalInput", "output", "total"})
  BY DEF CodexObservation, usage
<1>3. o.completeness \in Completeness /\ o.outcome \in Outcomes
  <2>1. ObservationCompleteness(usage, {"totalInput", "output", "total"}) \in Completeness
    BY DEF ObservationCompleteness, Completeness
  <2> QED BY <1>2, <2>1 DEF Outcomes
<1>4. ~ (0 < o.finished)
  BY <1>2
<1>5. ValidObservation(o)
  BY <1>1, <1>2, <1>3, <1>4 DEF ValidObservation
<1> QED
  BY <1>1, <1>2, <1>5

(* The observations of the session and of its turns.                        *)
LEMMA ObservationsAreSound ==
    ASSUME CodexInv, NEW obs, obs = CodexObservations(CodexSessions[1])
    PROVE  /\ \A i \in DOMAIN obs : ValidObservation(obs[i])
           /\ \A i, j \in DOMAIN obs : i # j => obs[i].id # obs[j].id
           /\ \A i \in DOMAIN obs : \A f \in UsageFields :
                obs[i].usage[f].value < 0 => NegativeEvents # {} /\ (i = 1 \/ f = "reasoning")
<1> DEFINE n == Len(codex.snapshots)
<1> DEFINE s == CodexSessions[1]
<1> DEFINE turn == [i \in 1..n |->
                      CodexObservation(CodexTurns[i].id, CodexTurns[i].at,
                                       IF CodexTurns[i].model = "" THEN codex.model ELSE CodexTurns[i].model,
                                       CodexTurns[i].usage)]
<1> DEFINE whole == CodexObservation(<<"session">>, codex.started, codex.model,
                                     CodexUsage(codex.usage, "measured"))
<1>0. CodexType /\ UsageIsLargest(codex.usage, codex.snapshots) /\ n \in Nat
  BY TurnsOfEvents DEF CodexInv
<1>1. obs = <<whole>> \o turn
  <2>1. /\ s.turns = CodexTurns /\ s.started = codex.started /\ s.model = codex.model
        /\ s.usage = CodexUsage(codex.usage, "measured")
    BY DEF CodexSessions
  <2>2. DOMAIN CodexTurns = 1..n
    BY <1>0, TurnsOfEvents
  <2> HIDE DEF s
  <2> QED BY <2>1, <2>2 DEF CodexObservations, s
<1> DEFINE Negative(o, fields) == \A f \in UsageFields :
                                   o.usage[f].value < 0 => NegativeEvents # {} /\ f \in fields
<1>2. ValidObservation(whole) /\ Negative(whole, UsageFields) /\ whole.id = <<"session">>
  <2>1. /\ DOMAIN codex.usage \subseteq CodexCounters
        /\ \A c \in DOMAIN codex.usage : codex.usage[c] \in Int
        /\ (\E c \in DOMAIN codex.usage : codex.usage[c] < 0) => NegativeEvents # {}
    <3>1. CASE codex.usage = <<>>
      <4>1. DOMAIN <<>> = {}
        OBVIOUS
      <4> QED BY <3>1, <4>1
    <3>2. CASE codex.usage # <<>>
      <4>1. FinalSnapshot \in 1..n /\ codex.usage = codex.snapshots[FinalSnapshot].snap
        BY <1>0, <3>2, FinalIsLargest DEF IsLargest
      <4>2. DOMAIN codex.snapshots = 1..n
        BY <1>0, TurnsOfEvents
      <4> QED BY <1>0, <4>1, <4>2 DEF CodexType, IsSnap, NegativeEvents
    <3> QED BY <3>1, <3>2
  <2> DEFINE o == whole
  <2>2. o = CodexObservation(<<"session">>, codex.started, codex.model,
                             CodexUsage(codex.usage, "measured"))
    OBVIOUS
  <2> HIDE DEF o
  <2>3. /\ ValidObservation(o) /\ o.id = <<"session">>
        /\ \A f \in UsageFields : o.usage[f].value < 0 => \E c \in DOMAIN codex.usage : codex.usage[c] < 0
    BY <2>1, <2>2, ObservationIsSound
  <2> QED BY <2>1, <2>3 DEF o
<1>3. ASSUME NEW i \in 1..n
      PROVE  ValidObservation(turn[i]) /\ Negative(turn[i], {"reasoning"}) /\ turn[i].id = <<codex.id, i>>
  <2>1. CodexTurns[i].usage = CodexUsage(TurnCounters(i), "derived") /\ CodexTurns[i].id = <<codex.id, i>>
    BY <1>0, TurnsOfEvents
  <2> DEFINE counted == TurnCounters(i)
  <2> DEFINE after == codex.snapshots[i].snap
  <2>2. /\ DOMAIN counted \subseteq CodexCounters
        /\ \A c \in DOMAIN counted :
             /\ counted[c] \in Int
             /\ counted[c] < 0 => c = "reasoning" /\ after[c] < 0 /\ c \in DOMAIN after
    BY <1>0, TurnCounted
  <2>3. (\E c \in DOMAIN counted : counted[c] < 0) => NegativeEvents # {}
    <3>1. i \in DOMAIN codex.snapshots
      BY <1>0, TurnsOfEvents
    <3> HIDE DEF counted
    <3> QED BY <2>2, <3>1 DEF NegativeEvents
  <2> DEFINE o == turn[i]
  <2> DEFINE model == IF CodexTurns[i].model = "" THEN codex.model ELSE CodexTurns[i].model
  <2>4. o = CodexObservation(<<codex.id, i>>, CodexTurns[i].at, model,
                             CodexUsage(counted, "derived"))
    BY <2>1
  <2> HIDE DEF o, model, turn, Negative, whole, counted, after
  <2>5. /\ ValidObservation(o) /\ o.id = <<codex.id, i>>
        /\ \A f \in UsageFields :
             o.usage[f].value < 0 => (\E c \in DOMAIN counted : counted[c] < 0) /\ f = "reasoning"
    BY <2>2, <2>4, ObservationIsSound
  <2> QED BY <2>3, <2>5 DEF o, Negative
<1>4. /\ DOMAIN obs = 1..(n + 1) /\ obs[1] = whole
      /\ \A i \in 1..n : obs[1 + i] = turn[i]
  <2> HIDE DEF turn, whole, n
  <2>1. turn = [i \in 1..n |-> turn[i]]
    BY DEF turn
  <2>2. IsSequence(turn) /\ Len(turn) = n
    BY <1>0, <2>1, MappingIsSequence
  <2>3. <<whole>> \in Seq({whole}) /\ Len(<<whole>>) = 1 /\ <<whole>>[1] = whole
    OBVIOUS
  <2>4. IsSequence(<<whole>>)
    BY <2>3 DEF IsSequence
  <2>5. /\ IsSequence(obs) /\ Len(obs) = 1 + n
        /\ \A i \in 1..1 : obs[i] = <<whole>>[i]
        /\ \A i \in 1..n : obs[1 + i] = turn[i]
    BY <1>1, <2>2, <2>3, <2>4, JoinedSequence
  <2>6. DOMAIN obs = 1..(n + 1)
    <3>1. DOMAIN obs = 1..Len(obs)
      BY <2>5, SequenceFacts
    <3> QED BY <1>0, <2>5, <3>1
  <2> QED BY <2>3, <2>5, <2>6
<1> HIDE DEF turn, whole, n, s
<1>5. \A i \in 1..(n + 1) : i = 1 \/ (i - 1 \in 1..n /\ i = 1 + (i - 1))
  BY <1>0
<1>6. ASSUME NEW i \in DOMAIN obs
      PROVE  /\ ValidObservation(obs[i])
             /\ Negative(obs[i], IF i = 1 THEN UsageFields ELSE {"reasoning"})
             /\ i = 1 => obs[i].id = <<"session">>
             /\ i # 1 => obs[i].id = <<codex.id, i - 1>>
  <2>1. CASE i = 1
    <3> HIDE DEF Negative
    <3> QED BY <1>2, <1>4, <2>1
  <2>2. CASE i # 1
    <3>1. i - 1 \in 1..n /\ i = 1 + (i - 1)
      BY <1>4, <1>5, <2>2
    <3>2. obs[i] = turn[i - 1]
      BY <1>4, <3>1
    <3> HIDE DEF Negative
    <3> QED BY <1>3, <2>2, <3>1, <3>2
  <2> QED BY <2>1, <2>2
<1>7. ASSUME NEW i \in DOMAIN obs, NEW j \in DOMAIN obs, obs[i].id = obs[j].id PROVE i = j
  <2>1. i \in Int /\ j \in Int
    BY <1>0, <1>4
  <2>2. CASE i = 1 /\ j = 1
    BY <2>2
  <2>3. CASE i # 1 /\ j # 1
    <3>1. <<codex.id, i - 1>> = <<codex.id, j - 1>>
      BY <1>6, <1>7, <2>3
    <3>2. i - 1 = j - 1
      BY <3>1
    <3> QED BY <2>1, <3>2
  <2>4. \A k : <<"session">> # <<codex.id, k>>
    OBVIOUS
  <2>5. CASE i = 1 /\ j # 1
    BY <1>6, <1>7, <2>4, <2>5
  <2>6. CASE i # 1 /\ j = 1
    BY <1>6, <1>7, <2>4, <2>6
  <2> QED BY <2>2, <2>3, <2>5, <2>6
<1> QED
  BY <1>6, <1>7

(* A record in one context, once, is in one place.                          *)
LEMMA OnePlace ==
    ASSUME NEW contexts, NEW record, NEW t \in DOMAIN contexts, NEW p, At(contexts[t], record) = {p},
           \A u \in DOMAIN contexts \ {t} : At(contexts[u], record) = {}
    PROVE  Cardinality(Places(contexts, record)) = 1
<1>1. Places(contexts, record) = UNION {{<<u, q>> : q \in At(contexts[u], record)} : u \in DOMAIN contexts}
  BY DEF Places, At
<1>2. Places(contexts, record) = {<<t, p>>}
  BY <1>1
<1> QED
  BY <1>2, FS_Singleton

(* A record in one place of what is kept is in one place of what is shown:   *)
(* the contexts of the turns, and then what no turn has taken.               *)
LEMMA OnePlaceIsShown ==
    ASSUME NEW pending, IsSequence(pending), NEW snapshots, IsSequence(snapshots),
           NEW record, InOnePlace(pending, snapshots, record)
    PROVE  Cardinality(Places(Append([t \in DOMAIN snapshots |-> snapshots[t].context],
                                     DedupeContext(pending)), record)) = 1
<1> DEFINE n == Len(snapshots)
<1> DEFINE trailing == DedupeContext(pending)
<1> DEFINE taken == [t \in DOMAIN snapshots |-> snapshots[t].context]
<1> DEFINE contexts == Append(taken, trailing)
<1>1. n \in Nat /\ DOMAIN snapshots = 1..n
  BY SequenceFacts
<1> HIDE DEF n
<1>2. /\ DOMAIN contexts = 1..(n + 1) /\ contexts[n + 1] = trailing
      /\ \A t \in 1..n : contexts[t] = snapshots[t].context
  <2>1. IsSequence(taken) /\ Len(taken) = n
    <3>1. taken = [t \in 1..n |-> taken[t]]
      BY <1>1
    <3> HIDE DEF taken
    <3> QED BY <1>1, <3>1, MappingIsSequence
  <2>2. DOMAIN taken = 1..n /\ \A t \in 1..n : taken[t] = snapshots[t].context
    BY <1>1
  <2> HIDE DEF taken, trailing
  <2>3. /\ DOMAIN contexts = DOMAIN taken \cup {n + 1} /\ contexts[n + 1] = trailing
        /\ \A t \in DOMAIN taken : contexts[t] = taken[t]
    BY <2>1, AppendSequence
  <2>4. (1..n) \cup {n + 1} = 1..(n + 1)
    BY <1>1
  <2> QED BY <2>2, <2>3, <2>4
<1>3. /\ At(pending, record) = {} => At(trailing, record) = {}
      /\ \A p : At(pending, record) = {p} => \E q : At(trailing, record) = {q}
  <2>1. PICK m \in Nat : DOMAIN pending = 1..m
    BY SequenceFacts
  <2> QED BY <2>1, DedupeKeeps
<1> HIDE DEF contexts, trailing, taken
<1>4. n + 1 \in 1..(n + 1) /\ (1..(n + 1)) \ {n + 1} = 1..n /\ 1..n \subseteq 1..(n + 1)
  BY <1>1
<1>5. CASE /\ \E p : At(pending, record) = {p}
           /\ \A t \in 1..n : At(snapshots[t].context, record) = {}
  <2>1. PICK q : At(contexts[n + 1], record) = {q}
    BY <1>2, <1>3, <1>5
  <2>2. \A u \in DOMAIN contexts \ {n + 1} : At(contexts[u], record) = {}
    BY <1>2, <1>4, <1>5
  <2>3. n + 1 \in DOMAIN contexts
    BY <1>2, <1>4
  <2>4. Cardinality(Places(contexts, record)) = 1
    BY <2>1, <2>2, <2>3, OnePlace
  <2> QED BY <2>4 DEF contexts, taken, trailing
<1>6. CASE /\ At(pending, record) = {}
           /\ \E t \in 1..n :
                /\ \E p : At(snapshots[t].context, record) = {p}
                /\ \A u \in (1..n) \ {t} : At(snapshots[u].context, record) = {}
  <2>1. PICK t \in 1..n : /\ \E p : At(snapshots[t].context, record) = {p}
                          /\ \A u \in (1..n) \ {t} : At(snapshots[u].context, record) = {}
    BY <1>6
  <2>2. PICK p : At(contexts[t], record) = {p}
    BY <1>2, <2>1
  <2>3. \A u \in DOMAIN contexts \ {t} : At(contexts[u], record) = {}
    <3>1. At(contexts[n + 1], record) = {}
      BY <1>2, <1>3, <1>6
    <3>2. \A u \in (1..n) \ {t} : At(contexts[u], record) = {}
      BY <1>2, <2>1
    <3> QED BY <1>2, <1>4, <3>1, <3>2
  <2>4. t \in DOMAIN contexts
    BY <1>2, <1>4
  <2>5. Cardinality(Places(contexts, record)) = 1
    BY <2>2, <2>3, <2>4, OnePlace
  <2> QED BY <2>5 DEF contexts, taken, trailing
<1> QED
  BY <1>1, <1>5, <1>6 DEF InOnePlace

(* An unreadable line's record is in one place of what the session shows.   *)
LEMMA UnreadableIsShown ==
    ASSUME CodexInv, NEW i \in DOMAIN codexRead, Unreadable(codexRead[i])
    PROVE  Cardinality(Places(SessionContexts(CodexSessions[1]), <<"line", i>>)) = 1
<1> DEFINE record == <<"line", i>>
<1> DEFINE trailing == DedupeContext(codex.pending)
<1> DEFINE taken == [t \in DOMAIN codex.snapshots |-> codex.snapshots[t].context]
<1>1. IsSequence(codex.pending) /\ IsSequence(codex.snapshots) /\ CodexType
  BY DEF CodexInv, CodexType
<1>2. InOnePlace(codex.pending, codex.snapshots, record)
  BY DEF CodexInv, ContextKept
<1>3. SessionContexts(CodexSessions[1]) = Append(taken, trailing)
  <2>1. CodexSessions[1].turns = CodexTurns /\ CodexSessions[1].trailing = trailing
    BY DEF CodexSessions
  <2>2. DOMAIN CodexTurns = DOMAIN codex.snapshots
        /\ \A t \in DOMAIN codex.snapshots : CodexTurns[t].context = codex.snapshots[t].context
    BY <1>1, SequenceFacts, TurnsOfEvents
  <2> HIDE DEF trailing
  <2> QED BY <2>1, <2>2 DEF SessionContexts
<1> HIDE DEF record
<1>4. Cardinality(Places(Append(taken, trailing), record)) = 1
  BY <1>1, <1>2, OnePlaceIsShown
<1> QED
  BY <1>3, <1>4 DEF record

(* Whatever the counters do, every observation is valid and has a name of    *)
(* its own, and is negative only where an event is; the session's usage is   *)
(* an event's, no smaller than any; every unreadable line is in exactly one  *)
(* context.                                                                 *)
THEOREM CodexReadingIsSound == CodexSpec => []CodexSessionIsSound
<1>1. CodexInv => CodexSessionIsSound
  <2> SUFFICES ASSUME CodexInv PROVE CodexSessionIsSound
    OBVIOUS
  <2>1. DOMAIN CodexSessions = {1}
    BY DEF CodexSessions
  <2>2. CodexType /\ UsageIsLargest(codex.usage, codex.snapshots)
    BY DEF CodexInv
  <2>3. \A n \in DOMAIN CodexSessions :
           LET obs == CodexObservations(CodexSessions[n]) IN
           /\ \A i \in DOMAIN obs : ValidObservation(obs[i])
           /\ \A i, j \in DOMAIN obs : i # j => obs[i].id # obs[j].id
           /\ \A i \in DOMAIN obs : \A f \in UsageFields :
                obs[i].usage[f].value < 0 => NegativeEvents # {} /\ (i = 1 \/ f = "reasoning")
    <3> SUFFICES ASSUME NEW n \in DOMAIN CodexSessions
                 PROVE  LET obs == CodexObservations(CodexSessions[n]) IN
                        /\ \A i \in DOMAIN obs : ValidObservation(obs[i])
                        /\ \A i, j \in DOMAIN obs : i # j => obs[i].id # obs[j].id
                        /\ \A i \in DOMAIN obs : \A f \in UsageFields :
                             obs[i].usage[f].value < 0 => NegativeEvents # {} /\ (i = 1 \/ f = "reasoning")
      OBVIOUS
    <3> DEFINE obs == CodexObservations(CodexSessions[n])
    <3>1. obs = CodexObservations(CodexSessions[1])
      BY <2>1
    <3> HIDE DEF obs
    <3>2. /\ \A i \in DOMAIN obs : ValidObservation(obs[i])
          /\ \A i, j \in DOMAIN obs : i # j => obs[i].id # obs[j].id
          /\ \A i \in DOMAIN obs : \A f \in UsageFields :
               obs[i].usage[f].value < 0 => NegativeEvents # {} /\ (i = 1 \/ f = "reasoning")
      BY <3>1, ObservationsAreSound
    <3> QED BY <3>2 DEF obs
  <2>4. \A i \in DOMAIN codex.snapshots : codex.snapshots[i].snap["total"] <= TotalSoFar
    <3>1. CASE codex.usage = <<>>
      <4>1. \A i \in DOMAIN codex.snapshots :
              codex.snapshots[i].snap["total"] < 0 /\ codex.snapshots[i].snap["total"] \in Int
        BY <2>2, <3>1, TotalIsNumber DEF UsageIsLargest, CodexType
      <4>2. TotalSoFar = 0
        BY <3>1 DEF TotalSoFar
      <4> QED BY <4>1, <4>2
    <3>2. CASE codex.usage # <<>>
      BY <2>2, <3>2, FinalIsLargest DEF IsLargest
    <3> QED BY <3>1, <3>2
  <2>5. codex.usage # <<>> => codex.usage = codex.snapshots[FinalSnapshot].snap
    BY <2>2, FinalIsLargest DEF IsLargest
  <2>6. \A i \in DOMAIN codexRead :
          (codexRead[i].line \in {"oversized", "malformed"} \/ codexRead[i].kind = "bad")
            => Cardinality(Places(SessionContexts(CodexSessions[1]), <<"line", i>>)) = 1
    BY UnreadableIsShown DEF Unreadable
  <2> QED BY <2>3, <2>4, <2>5, <2>6 DEF CodexSessionIsSound
<1>2. CodexSpec => []CodexInv
  BY CodexInvHolds
<1> QED
  BY <1>1, <1>2, PTL

-----------------------------------------------------------------------------
(* Configuration. *)

(* What a configuration should say of an entry that was given a value.     *)
Holds(e, value, config) ==
    IF value = Removed \/ (value = "" /\ e[1] # "gateway")
    THEN e \notin DOMAIN config
    ELSE e \in DOMAIN config /\ config[e] = value

Steps == {"idle", "loaded", "truncated"}

(* An edit gives its entry what it was asked to.                          *)
LEMMA EditHolds ==
    ASSUME NEW e, NEW value, NEW config
    PROVE  Holds(e, value, Saved(Edited(config, e, value)))
<1> DEFINE text == Saved(Edited(config, e, value))
<1>1. CASE value = Removed
  BY <1>1 DEF Holds, Saved, Edited
<1>2. CASE value # Removed
  <2>1. /\ e \in DOMAIN Edited(config, e, value)
        /\ Edited(config, e, value)[e] = value
    BY <1>2 DEF Edited, Over, Only
  <2> QED
    BY <1>2, <2>1 DEF Holds, Saved
<1> QED
  BY <1>1, <1>2

(* An edit leaves every other entry as it was loaded.                      *)
LEMMA OtherHolds ==
    ASSUME NEW e, NEW value, NEW config, NEW f, NEW new, f # e, Holds(e, value, config)
    PROVE  Holds(e, value, Saved(Edited(config, f, new)))
<1>1. /\ e \in DOMAIN Edited(config, f, new) <=> e \in DOMAIN config
      /\ e \in DOMAIN config => Edited(config, f, new)[e] = config[e]
  BY DEF Edited, Over, Only
<1> QED
  BY <1>1 DEF Holds, Saved

-----------------------------------------------------------------------------
(* Type correctness. *)

Configs == UNION {[D -> Settings] : D \in SUBSET Entries}

ConfigTypeOK ==
    /\ configFile \in [text : Configs, under : Configs]
    /\ editor \in [Editors -> [step : Steps, entry : Entries \cup {<<>>},
                               value : Settings \cup {Removed, ""}, config : Configs,
                               alone : BOOLEAN]]
    /\ \A c \in Editors : editor[c].step # "idle" =>
         editor[c].entry \in Entries /\ editor[c].value \in Settings \cup {Removed}

(* A configuration is a function from some entries to settings.             *)
LEMMA ConfigsAre ==
    ASSUME NEW f
    PROVE  f \in Configs <=> DOMAIN f \subseteq Entries /\ f \in [DOMAIN f -> Settings]
BY DEF Configs

(* The empty configuration is one.                                          *)
LEMMA EmptyType == Empty \in Configs
<1>1. DOMAIN Empty = {} /\ Empty \in [{} -> Settings]
  BY DEF Empty
<1> QED
  BY <1>1 DEF Configs

(* One text over the end of another reads as a configuration.               *)
LEMMA OverType ==
    ASSUME NEW f \in Configs, NEW g \in Configs
    PROVE  Over(f, g) \in Configs
<1> DEFINE D == DOMAIN f \cup DOMAIN g
<1>1. /\ DOMAIN f \subseteq Entries /\ f \in [DOMAIN f -> Settings]
      /\ DOMAIN g \subseteq Entries /\ g \in [DOMAIN g -> Settings]
  BY ConfigsAre
<1>2. Over(f, g) \in [D -> Settings]
  BY <1>1 DEF Over
<1> QED
  BY <1>1, <1>2 DEF Configs

(* Whatever a file is read as is a configuration.                           *)
LEMMA LoadsType ==
    ASSUME NEW f \in [text : Configs, under : Configs], NEW config \in Loads(f)
    PROVE  config \in Configs
<1>1. CASE f.under = Empty
  BY <1>1 DEF Loads
<1>2. CASE f.under # Empty
  <2>1. PICK g \in UNION {[D -> Settings] : D \in SUBSET (DOMAIN f.text \cup DOMAIN f.under)} :
           config = Over(g, f.text)
    BY <1>2 DEF Loads
  <2>2. PICK D \in SUBSET (DOMAIN f.text \cup DOMAIN f.under) : g \in [D -> Settings]
    BY <2>1
  <2>3. DOMAIN f.text \subseteq Entries /\ DOMAIN f.under \subseteq Entries
    BY ConfigsAre
  <2>4. g \in Configs
    BY <2>2, <2>3 DEF Configs
  <2> QED
    BY <2>1, <2>4, OverType
<1> QED
  BY <1>1, <1>2

(* What Save writes of a configuration is one.                              *)
LEMMA SavedType == ASSUME NEW config \in Configs PROVE Saved(config) \in Configs
<1> DEFINE said == {e \in DOMAIN config : e[1] = "gateway" \/ config[e] # ""}
<1>1. DOMAIN config \subseteq Entries /\ config \in [DOMAIN config -> Settings]
  BY ConfigsAre
<1>2. Saved(config) \in [said -> Settings]
  BY <1>1 DEF Saved
<1>3. said \in SUBSET Entries
  BY <1>1
<1> QED
  BY <1>2, <1>3 DEF Configs

(* What a command saves is a configuration.                                 *)
LEMMA EditType ==
    ASSUME NEW config \in Configs, NEW e \in Entries, NEW value \in Settings \cup {Removed}
    PROVE  Saved(Edited(config, e, value)) \in Configs
<1> DEFINE edited == Edited(config, e, value)
<1>1. DOMAIN config \subseteq Entries /\ config \in [DOMAIN config -> Settings]
  BY ConfigsAre
<1>2. CASE value = Removed
  <2>1. edited \in [DOMAIN config \ {e} -> Settings] /\ DOMAIN config \ {e} \in SUBSET Entries
    BY <1>1, <1>2 DEF Edited
  <2>2. edited \in Configs
    BY <2>1 DEF Configs
  <2> QED
    BY <2>2, SavedType
<1>3. CASE value # Removed
  <2>1. edited \in [DOMAIN config \cup {e} -> Settings]
        /\ DOMAIN config \cup {e} \in SUBSET Entries
    BY <1>1, <1>3 DEF Edited, Over, Only
  <2>2. edited \in Configs
    BY <2>1 DEF Configs
  <2> QED
    BY <2>2, SavedType
<1> QED
  BY <1>2, <1>3

(* Every step keeps the types.                                              *)
LEMMA ConfigTypeStep == ConfigTypeOK /\ [ConfigNext]_configVars => ConfigTypeOK'
<1> SUFFICES ASSUME ConfigTypeOK, [ConfigNext]_configVars PROVE ConfigTypeOK'
  OBVIOUS
<1>1. CASE UNCHANGED configVars
  BY <1>1 DEF ConfigTypeOK, configVars
<1>2. ASSUME NEW c \in Editors, NEW entry \in Entries, NEW value \in Settings \cup {Removed},
             Load(c, entry, value)
      PROVE  ConfigTypeOK'
  <2>1. PICK config \in Loads(configFile) :
          editor' = [d \in Editors |->
            IF d = c THEN [step |-> "loaded", entry |-> entry, value |-> value,
                           config |-> config, alone |-> Others(c) = {}]
            ELSE [editor[d] EXCEPT !.alone = @ /\ editor[d].step = "idle"]]
    BY <1>2 DEF Load
  <2>2. config \in Configs
    BY LoadsType DEF ConfigTypeOK
  <2>3. (Others(c) = {}) \in BOOLEAN
    OBVIOUS
  <2>4. ASSUME NEW d \in Editors, d # c
        PROVE  /\ editor'[d] = [editor[d] EXCEPT !.alone = @ /\ editor[d].step = "idle"]
               /\ editor'[d] \in [step : Steps, entry : Entries \cup {<<>>},
                                  value : Settings \cup {Removed, ""}, config : Configs,
                                  alone : BOOLEAN]
    BY <2>1, <2>4 DEF ConfigTypeOK
  <2>5. /\ editor'[c].step = "loaded" /\ editor'[c].entry = entry /\ editor'[c].value = value
        /\ editor'[c] \in [step : Steps, entry : Entries \cup {<<>>},
                           value : Settings \cup {Removed, ""}, config : Configs,
                           alone : BOOLEAN]
    BY <2>1, <2>2, <2>3 DEF Steps
  <2>6. \A d \in Editors : editor'[d].step # "idle" =>
           editor'[d].entry \in Entries /\ editor'[d].value \in Settings \cup {Removed}
    <3>1. ASSUME NEW d \in Editors, d # c, editor'[d].step # "idle"
          PROVE  editor'[d].entry \in Entries /\ editor'[d].value \in Settings \cup {Removed}
      <4>1. /\ editor'[d].step = editor[d].step /\ editor'[d].entry = editor[d].entry
            /\ editor'[d].value = editor[d].value
        BY <2>4, <3>1 DEF ConfigTypeOK
      <4> QED
        BY <3>1, <4>1 DEF ConfigTypeOK
    <3> QED
      BY <2>5, <3>1
  <2>7. editor' = [d \in Editors |-> editor'[d]]
    BY <2>1
  <2> QED
    BY <1>2, <2>4, <2>5, <2>6, <2>7 DEF ConfigTypeOK, Load
<1>3. ASSUME NEW c \in Editors, LoadFails(c) PROVE ConfigTypeOK'
  BY <1>3 DEF ConfigTypeOK, LoadFails
<1>4. ASSUME NEW c \in Editors, Truncate(c) PROVE ConfigTypeOK'
  BY <1>4, EmptyType DEF ConfigTypeOK, Truncate, Steps
<1>5. ASSUME NEW c \in Editors, Write(c) PROVE ConfigTypeOK'
  <2> DEFINE text == Saved(Edited(editor[c].config, editor[c].entry, editor[c].value))
  <2>1. text \in Configs
    BY <1>5, EditType DEF ConfigTypeOK, Write
  <2>2. PICK under \in {Empty, configFile.text} : configFile' = [text |-> text, under |-> under]
    BY <1>5 DEF Write
  <2>3. configFile' \in [text : Configs, under : Configs]
    BY <2>1, <2>2, EmptyType DEF ConfigTypeOK
  <2> QED
    BY <1>5, <2>3, EmptyType DEF ConfigTypeOK, Write, Idle, Steps
<1>6. ASSUME NEW c \in Editors, Die(c) PROVE ConfigTypeOK'
  BY <1>6, EmptyType DEF ConfigTypeOK, Die, Idle, Steps
<1> QED
  BY <1>1, <1>2, <1>3, <1>4, <1>5, <1>6 DEF ConfigNext

-----------------------------------------------------------------------------
(* Edits that ran alone. *)

\* An edit that is alone so far has no other beside it.
AloneOK == \A c \in Editors : editor[c].step # "idle" /\ editor[c].alone => Others(c) = {}

\* What an edit that ran alone has settled is in the file, and in what every edit of
\* another entry has loaded and is about to write.
SettledOK ==
    ~ damaged => \A e \in DOMAIN settled : settled[e].alone =>
        /\ Writing = {} /\ configFile.under = Empty => Holds(e, settled[e].value, configFile.text)
        /\ \A c \in Editors : editor[c].step # "idle" /\ editor[c].entry # e =>
             Holds(e, settled[e].value, editor[c].config)

ConfigInv == ConfigTypeOK /\ AloneOK /\ SettledOK

(* The invariant holds before any command.                                  *)
LEMMA InitConfigInv == ConfigInit => ConfigInv
<1> SUFFICES ASSUME ConfigInit PROVE ConfigInv
  OBVIOUS
<1>1. ConfigTypeOK
  BY EmptyType DEF ConfigInit, ConfigTypeOK, Idle, Steps
<1>2. AloneOK
  BY DEF ConfigInit, AloneOK, Idle
<1>3. DOMAIN settled = {}
  BY DEF ConfigInit
<1> QED
  BY <1>1, <1>2, <1>3 DEF ConfigInv, SettledOK

(* Every step keeps that an edit that is alone has no other beside it.      *)
LEMMA AloneStep == ConfigInv /\ [ConfigNext]_configVars => AloneOK'
<1> SUFFICES ASSUME ConfigInv, [ConfigNext]_configVars PROVE AloneOK'
  OBVIOUS
<1> USE DEF ConfigInv
<1>1. CASE UNCHANGED configVars
  BY <1>1 DEF AloneOK, Others, configVars
<1>2. ASSUME NEW c \in Editors, NEW entry \in Entries, NEW value \in Settings \cup {Removed},
             Load(c, entry, value)
      PROVE  AloneOK'
  <2>1. PICK config \in Loads(configFile) :
          editor' = [d \in Editors |->
            IF d = c THEN [step |-> "loaded", entry |-> entry, value |-> value,
                           config |-> config, alone |-> Others(c) = {}]
            ELSE [editor[d] EXCEPT !.alone = @ /\ editor[d].step = "idle"]]
    BY <1>2 DEF Load
  <2>2. \A d \in Editors \ {c} :
           editor'[d].step = editor[d].step /\ (editor'[d].alone => editor[d].step = "idle")
    BY <2>1 DEF ConfigTypeOK
  <2>3. editor'[c].alone <=> Others(c) = {}
    BY <2>1
  <2>4. Others(c)' = Others(c)
    BY <2>2 DEF Others
  <2> QED
    BY <2>2, <2>3, <2>4 DEF AloneOK
<1>3. ASSUME NEW c \in Editors, LoadFails(c) PROVE AloneOK'
  BY <1>3 DEF AloneOK, Others, LoadFails
<1>4. ASSUME NEW c \in Editors, Truncate(c) PROVE AloneOK'
  <2>1. \A d \in Editors : /\ editor'[d].alone = editor[d].alone
                           /\ editor'[d].step = "idle" <=> editor[d].step = "idle"
    BY <1>4 DEF Truncate, ConfigTypeOK
  <2>2. \A d \in Editors : Others(d)' = Others(d)
    BY <2>1 DEF Others
  <2> QED
    BY <2>1, <2>2 DEF AloneOK
<1>5. ASSUME NEW c \in Editors, Write(c) \/ Die(c) PROVE AloneOK'
  <2>1. editor' = [editor EXCEPT ![c] = Idle]
    BY <1>5 DEF Write, Die
  <2>2. /\ editor'[c].step = "idle"
        /\ \A d \in Editors \ {c} : editor'[d] = editor[d]
    BY <2>1 DEF ConfigTypeOK, Idle
  <2>3. \A d \in Editors : Others(d)' \subseteq Others(d)
    BY <2>2 DEF Others
  <2> QED
    BY <2>2, <2>3 DEF AloneOK
<1> QED
  BY <1>1, <1>2, <1>3, <1>4, <1>5 DEF ConfigNext

(* Every step keeps what the edits that ran alone have settled.             *)
LEMMA SettledStep == ConfigInv /\ [ConfigNext]_configVars => SettledOK'
<1> SUFFICES ASSUME ConfigInv, [ConfigNext]_configVars, ~ damaged',
                    NEW e \in DOMAIN settled', settled'[e].alone
             PROVE  /\ Writing' = {} /\ configFile'.under = Empty =>
                         Holds(e, settled'[e].value, configFile'.text)
                    /\ \A c \in Editors : editor'[c].step # "idle" /\ editor'[c].entry # e =>
                         Holds(e, settled'[e].value, editor'[c].config)
  BY DEF SettledOK
<1> USE DEF ConfigInv
<1>1. CASE UNCHANGED configVars
  BY <1>1 DEF SettledOK, Writing, configVars
<1>2. ASSUME NEW c \in Editors, NEW entry \in Entries, NEW value \in Settings \cup {Removed},
             Load(c, entry, value)
      PROVE  /\ Writing' = {} /\ configFile'.under = Empty =>
                  Holds(e, settled'[e].value, configFile'.text)
             /\ \A d \in Editors : editor'[d].step # "idle" /\ editor'[d].entry # e =>
                  Holds(e, settled'[e].value, editor'[d].config)
  <2>1. PICK config \in Loads(configFile) :
          editor' = [d \in Editors |->
            IF d = c THEN [step |-> "loaded", entry |-> entry, value |-> value,
                           config |-> config, alone |-> Others(c) = {}]
            ELSE [editor[d] EXCEPT !.alone = @ /\ editor[d].step = "idle"]]
    BY <1>2 DEF Load
  <2>2. ~ damaged /\ Writing = {} /\ configFile.under = Empty
        /\ configFile' = configFile /\ settled' = settled
    BY <1>2 DEF Load
  <2>3. config = configFile.text
    BY <2>1, <2>2 DEF Loads
  <2>4. Holds(e, settled[e].value, configFile.text)
    BY <2>2 DEF SettledOK
  <2>5. \A d \in Editors \ {c} : /\ editor'[d].step = editor[d].step
                                 /\ editor'[d].entry = editor[d].entry
                                 /\ editor'[d].config = editor[d].config
    BY <2>1 DEF ConfigTypeOK
  <2>6. editor'[c].config = configFile.text
    BY <2>1, <2>3
  <2> QED
    BY <2>2, <2>4, <2>5, <2>6 DEF SettledOK
<1>3. ASSUME NEW c \in Editors, LoadFails(c)
      PROVE  /\ Writing' = {} /\ configFile'.under = Empty =>
                  Holds(e, settled'[e].value, configFile'.text)
             /\ \A d \in Editors : editor'[d].step # "idle" /\ editor'[d].entry # e =>
                  Holds(e, settled'[e].value, editor'[d].config)
  BY <1>3 DEF SettledOK, Writing, LoadFails
<1>4. ASSUME NEW c \in Editors, Truncate(c)
      PROVE  /\ Writing' = {} /\ configFile'.under = Empty =>
                  Holds(e, settled'[e].value, configFile'.text)
             /\ \A d \in Editors : editor'[d].step # "idle" /\ editor'[d].entry # e =>
                  Holds(e, settled'[e].value, editor'[d].config)
  <2>1. /\ editor'[c].step = "truncated"
        /\ \A d \in Editors : /\ editor'[d].step = "idle" <=> editor[d].step = "idle"
                              /\ editor'[d].entry = editor[d].entry
                              /\ editor'[d].config = editor[d].config
    BY <1>4 DEF Truncate, ConfigTypeOK
  <2>2. Writing' # {}
    BY <2>1 DEF Writing
  <2> QED
    BY <1>4, <2>1, <2>2 DEF SettledOK, Truncate
<1>5. ASSUME NEW c \in Editors, Write(c)
      PROVE  /\ Writing' = {} /\ configFile'.under = Empty =>
                  Holds(e, settled'[e].value, configFile'.text)
             /\ \A d \in Editors : editor'[d].step # "idle" /\ editor'[d].entry # e =>
                  Holds(e, settled'[e].value, editor'[d].config)
  <2> DEFINE mine == editor[c].entry
             text == Saved(Edited(editor[c].config, mine, editor[c].value))
  <2>1. /\ ~ damaged /\ configFile'.text = text /\ editor[c].step = "truncated"
        /\ settled' = Over(Only(mine, [value |-> editor[c].value, alone |-> editor[c].alone]), settled)
    BY <1>5 DEF Write
  <2>2. /\ editor'[c].step = "idle"
        /\ \A d \in Editors \ {c} : editor'[d] = editor[d]
    BY <1>5 DEF Write, ConfigTypeOK, Idle
  <2>3. CASE e = mine
    <3>1. settled'[e] = [value |-> editor[c].value, alone |-> editor[c].alone]
      BY <2>1, <2>3 DEF Over, Only
    <3>2. Holds(e, settled'[e].value, configFile'.text)
      BY <2>1, <2>3, <3>1, EditHolds
    <3>3. \A d \in Editors \ {c} : editor[d].step = "idle"
      BY <2>1, <3>1 DEF AloneOK, Others
    <3> QED
      BY <2>2, <3>2, <3>3
  <2>4. CASE e # mine
    <3>1. e \in DOMAIN settled /\ settled'[e] = settled[e]
      BY <2>1, <2>4 DEF Over, Only
    <3>2. Holds(e, settled[e].value, editor[c].config)
      BY <2>1, <2>4, <3>1 DEF SettledOK
    <3>3. Holds(e, settled'[e].value, configFile'.text)
      BY <2>1, <2>4, <3>1, <3>2, OtherHolds
    <3> QED
      BY <2>1, <2>2, <3>1, <3>3 DEF SettledOK
  <2> QED
    BY <2>3, <2>4
<1>6. ASSUME NEW c \in Editors, Die(c)
      PROVE  /\ Writing' = {} /\ configFile'.under = Empty =>
                  Holds(e, settled'[e].value, configFile'.text)
             /\ \A d \in Editors : editor'[d].step # "idle" /\ editor'[d].entry # e =>
                  Holds(e, settled'[e].value, editor'[d].config)
  <2>1. /\ ~ damaged /\ editor[c].step = "loaded"
        /\ configFile' = configFile /\ settled' = settled
    BY <1>6 DEF Die
  <2>2. /\ editor'[c].step = "idle"
        /\ \A d \in Editors \ {c} : editor'[d] = editor[d]
    BY <1>6 DEF Die, ConfigTypeOK, Idle
  <2>3. Writing' = Writing
    BY <2>1, <2>2 DEF Writing
  <2> QED
    BY <2>1, <2>2, <2>3 DEF SettledOK
<1> QED
  BY <1>1, <1>2, <1>3, <1>4, <1>5, <1>6 DEF ConfigNext

(* The invariant holds in every behaviour.                                  *)
LEMMA ConfigInvHolds == ConfigSpec => []ConfigInv
<1>1. ConfigInv /\ [ConfigNext]_configVars => ConfigInv'
  BY ConfigTypeStep, AloneStep, SettledStep DEF ConfigInv
<1> QED
  BY <1>1, InitConfigInv, PTL DEF ConfigSpec

\* An edit of the configuration that ran alone is kept by every later edit, whatever
\* its entry and however the later ones overlap, until a command dies in its write or
\* reads a file in the middle of another's.
(* An edit of the configuration that ran alone is in the file until another *)
(* edit of the same entry, or a write that was cut off or overlapped.       *)
THEOREM LoneEditsKept == ConfigSpec => []LoneEditsAreKept
<1>1. ConfigInv => LoneEditsAreKept
  BY DEF ConfigInv, SettledOK, LoneEditsAreKept, Holds
<1> QED
  BY <1>1, ConfigInvHolds, PTL
===============================================================================
