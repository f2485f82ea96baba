-------------------------------- MODULE CaptureProofs --------------------------------
(***************************************************************************)
(* Proofs about ExchangeCapture and GatewayReport, for any set of          *)
(* exchanges, both protocols and, unless a property says otherwise, a      *)
(* failure journal that may not be written: what a capture holds of every  *)
(* exchange, and that what a report calls complete is complete.            *)
(***************************************************************************)
EXTENDS GatewayReport, TLAPS

-----------------------------------------------------------------------------
(* Captures: the inductive invariant. *)

Unrecorded == {"new", "refused", "waiting", "reading", "streaming", "closing"}
RecordedOneTime == {"failing", "copying", "closed", "done"}

(* How often an exchange was recorded follows from its step, except for one *)
(* a crash took.                                                            *)
TriesFollowStep ==
    \A x \in Exchanges :
        /\ step[x] \in Unrecorded => tries[x] = 0
        /\ step[x] \in RecordedOneTime => tries[x] = 1

(* No line is there before its exchange was recorded.                       *)
NoLineBefore ==
    \A e \in capture \cup journal : tries[e.id] # 0

(* A single call of Record left a single line, if the journal works.        *)
OneLineForOneTry ==
    ~JournalMayFail =>
        /\ ~journalTorn
        /\ \A x \in Exchanges :
              tries[x] = 1 => \E e \in Entries(x) : Entries(x) = {e}

(* The observer saw what was sent, up to where it overran.                  *)
NotedWasSent ==
    \A x \in Exchanges : /\ noted[x] \subseteq sent[x]
                         /\ ~overran[x] => noted[x] = sent[x]

(* What also a purge keeps, and what it does not.                           *)
CInv == /\ TypeOK
        /\ TriesFollowStep
        /\ NoLineBefore
        /\ NotedWasSent
        /\ StreamRecordIsWhole

IInv == CInv /\ OneLineForOneTry

-----------------------------------------------------------------------------
(* Lemmas about recording. *)

(* The initial state satisfies the invariant.                               *)
LEMMA InitIInv == Init => IInv
<1> SUFFICES ASSUME Init
             PROVE  IInv
  OBVIOUS
<1> USE DEF Init, RecorderInit
<1>1. TypeOK
  <2>1. /\ capture \subseteq LineType
        /\ journal \subseteq [id : Exchanges, try : 1..2]
        /\ {captureTorn, journalTorn, journalErr, up} \subseteq BOOLEAN
    OBVIOUS
  <2>2. /\ step \in [Exchanges -> Steps]
        /\ status \in [Exchanges -> Statuses]
        /\ tries \in [Exchanges -> 0..2]
    BY DEF Steps, Statuses
  <2>3. /\ large \in [Exchanges -> BOOLEAN]
        /\ forwarded \in [Exchanges -> BOOLEAN]
        /\ overran \in [Exchanges -> BOOLEAN]
    OBVIOUS
  <2>4. /\ sent \in [Exchanges -> SUBSET Marks]
        /\ noted \in [Exchanges -> SUBSET Marks]
    OBVIOUS
  <2> QED BY <2>1, <2>2, <2>3, <2>4 DEF TypeOK
<1>2. TriesFollowStep
  BY DEF TriesFollowStep, Unrecorded, RecordedOneTime
<1>3. NoLineBefore
  BY DEF NoLineBefore
<1>4. OneLineForOneTry
  BY DEF OneLineForOneTry
<1>5. NotedWasSent
  BY DEF NotedWasSent
<1>6. StreamRecordIsWhole
  BY DEF StreamRecordIsWhole
<1> QED
  BY <1>1, <1>2, <1>3, <1>4, <1>5, <1>6 DEF IInv, CInv

(* Record adds at most the line to the capture, and at most its entry to    *)
(* the journal.                                                             *)
LEMMA RecordAdds ==
    ASSUME TypeOK, NEW line \in LineType, Record(line)
    PROVE  /\ capture' \subseteq capture \cup {line}
           /\ capture \subseteq capture'
           /\ journal' \subseteq journal \cup {JournalEntry(line)}
           /\ journal \subseteq journal'
           /\ JournalEntry(line) \in [id : Exchanges, try : 1..2]
           /\ JournalEntry(line).id = line.id
           /\ {captureTorn', journalTorn', journalErr'} \subseteq BOOLEAN
<1>1. /\ JournalEntry(line) \in [id : Exchanges, try : 1..2]
      /\ JournalEntry(line).id = line.id
  BY DEF JournalEntry, LineType
<1>2. CASE /\ capture' = capture \cup {line}
           /\ UNCHANGED <<captureTorn, journal, journalTorn, journalErr>>
  BY <1>1, <1>2 DEF TypeOK
<1>3. CASE /\ captureTorn' \in {captureTorn, TRUE}
           /\ Journal(line)
           /\ UNCHANGED capture
  BY <1>1, <1>3 DEF Journal, TypeOK
<1> QED
  BY <1>2, <1>3 DEF Record

(* With a journal that works, Record adds one of the two, and leaves no     *)
(* fragment in the journal.                                                 *)
LEMMA RecordAddsOne ==
    ASSUME ~JournalMayFail, ~journalTorn, NEW line, Record(line)
    PROVE  /\ ~journalTorn'
           /\ \/ /\ capture' = capture \cup {line}
                 /\ journal' = journal
              \/ /\ capture' = capture
                 /\ journal' = journal \cup {JournalEntry(line)}
<1>1. CASE /\ capture' = capture \cup {line}
           /\ UNCHANGED <<captureTorn, journal, journalTorn, journalErr>>
  <2>1. journalTorn' = journalTorn /\ journal' = journal
    BY <1>1
  <2>2. ~journalTorn'
    BY <2>1, Zenon
  <2> QED BY <1>1, <2>1, <2>2
<1>2. CASE /\ captureTorn' \in {captureTorn, TRUE}
           /\ Journal(line)
           /\ UNCHANGED capture
  <2>1. /\ journal' = IF journalTorn THEN journal
                                     ELSE journal \cup {JournalEntry(line)}
        /\ journalTorn' = FALSE
    BY <1>2, Zenon DEF Journal
  <2>2. journal' = journal \cup {JournalEntry(line)}
    BY <2>1
  <2>3. ~journalTorn'
    BY <2>1
  <2>4. capture' = capture
    BY <1>2
  <2> QED BY <2>2, <2>3, <2>4
<1> QED
  BY <1>1, <1>2, Zenon DEF Record

(* A call of Record for an exchange that was recorded at most once keeps    *)
(* the recorder's part of the invariant.                                    *)
LEMMA BookKeeps ==
    ASSUME CInv, NEW x \in Exchanges, NEW line \in LineType, line.id = x,
           tries[x] \in {0, 1}, Book(x, line)
    PROVE  /\ capture' \subseteq LineType
           /\ journal' \subseteq [id : Exchanges, try : 1..2]
           /\ {captureTorn', journalTorn', journalErr'} \subseteq BOOLEAN
           /\ tries' \in [Exchanges -> 0..2]
           /\ tries'[x] = tries[x] + 1
           /\ \A y \in Exchanges : y # x => tries'[y] = tries[y]
           /\ capture' \subseteq capture \cup {line}
           /\ NoLineBefore'
<1> USE DEF CInv
<1>1. Record(line) /\ tries' = [tries EXCEPT ![x] = @ + 1]
  BY DEF Book
<1>2. /\ tries' \in [Exchanges -> 0..2]
      /\ tries'[x] = tries[x] + 1
      /\ tries'[x] # 0
      /\ \A y \in Exchanges : y # x => tries'[y] = tries[y]
  BY <1>1 DEF TypeOK
<1>3. /\ capture' \subseteq capture \cup {line}
      /\ journal' \subseteq journal \cup {JournalEntry(line)}
      /\ JournalEntry(line) \in [id : Exchanges, try : 1..2]
      /\ JournalEntry(line).id = x
      /\ {captureTorn', journalTorn', journalErr'} \subseteq BOOLEAN
  BY <1>1, RecordAdds
<1>4. /\ capture' \subseteq LineType
      /\ journal' \subseteq [id : Exchanges, try : 1..2]
  BY <1>3 DEF TypeOK
<1>5. NoLineBefore'
  <2> SUFFICES ASSUME NEW e \in capture' \cup journal'
               PROVE  tries'[e.id] # 0
    BY DEF NoLineBefore
  <2>1. CASE e \in capture \cup journal
    <3>1. e.id \in Exchanges /\ tries[e.id] # 0
      BY <2>1 DEF TypeOK, LineType, NoLineBefore
    <3> QED BY <3>1, <1>2
  <2>2. CASE e \in {line, JournalEntry(line)}
    BY <2>2, <1>2, <1>3
  <2> QED BY <2>1, <2>2, <1>3
<1> QED
  BY <1>2, <1>3, <1>4, <1>5

(* A stream's line made from what its observer noted says what was sent.    *)
LEMMA StreamLineIsWhole ==
    ASSUME CInv, NEW x \in Exchanges, BookStream(x), tries[x] = 0,
           UNCHANGED <<sent, overran>>
    PROVE  StreamRecordIsWhole'
<1> DEFINE outcome == IF RequiresTerminal /\ "terminal" \notin noted[x]
                        THEN "stream_truncated" ELSE "upstream_ok"
           line == Line(x, TRUE, status[x], outcome, "usage" \in noted[x],
                        ~large[x])
<1>1. line \in LineType /\ line.id = x
  BY DEF CInv, TypeOK, Line, LineType, Outcomes
<1>2. Book(x, line)
  BY DEF BookStream
<1>3. capture' \subseteq capture \cup {line}
  BY <1>1, <1>2, BookKeeps
<1>4. /\ line.stream = TRUE
      /\ line.usage = ("usage" \in noted[x])
      /\ line.outcome = outcome
  BY DEF Line
<1>5. /\ noted[x] \subseteq sent[x]
      /\ ~overran[x] => noted[x] = sent[x]
  BY DEF CInv, NotedWasSent
<1> HIDE DEF line
<1> SUFFICES ASSUME NEW r \in capture', r.stream
             PROVE  /\ r.usage => "usage" \in sent[r.id]
                    /\ RequiresTerminal /\ r.outcome = "upstream_ok"
                          => "terminal" \in sent[r.id]
                    /\ ~overran[r.id] =>
                          /\ "usage" \in sent[r.id] => r.usage
                          /\ "terminal" \in sent[r.id]
                                => r.outcome = "upstream_ok"
  BY DEF StreamRecordIsWhole
<1>6. CASE r \in capture
  BY <1>6 DEF CInv, StreamRecordIsWhole
<1>7. CASE r = line
  BY <1>1, <1>4, <1>5, <1>7
<1> QED BY <1>3, <1>6, <1>7

(* A line of another kind says nothing of streams.                          *)
LEMMA OtherLineIsWhole ==
    ASSUME StreamRecordIsWhole, UNCHANGED <<sent, overran>>, NEW line,
           ~line.stream, capture' \subseteq capture \cup {line}
    PROVE  StreamRecordIsWhole'
BY DEF StreamRecordIsWhole

-----------------------------------------------------------------------------
(* The steps of an exchange. *)

(* A step that moves the exchange and records nothing.                      *)
LEMMA MoveKeeps ==
    ASSUME CInv, NEW x \in Exchanges, NEW to \in Steps, Move(x, to),
           to \in Unrecorded => tries[x] = 0,
           to \in RecordedOneTime => tries[x] = 1,
           UNCHANGED <<recorderVars, up, sent, noted, overran, tries>>,
           large' \in [Exchanges -> BOOLEAN],
           forwarded' \in [Exchanges -> BOOLEAN],
           status' \in [Exchanges -> Statuses]
    PROVE  CInv'
<1>1. TypeOK'
  BY DEF CInv, TypeOK, Move, recorderVars
<1>2. TriesFollowStep'
  BY DEF CInv, TypeOK, TriesFollowStep, Move
<1>3. NoLineBefore'
  BY DEF CInv, NoLineBefore, recorderVars
<1>4. NotedWasSent' /\ StreamRecordIsWhole'
  BY DEF CInv, NotedWasSent, StreamRecordIsWhole, recorderVars
<1> QED BY <1>1, <1>2, <1>3, <1>4 DEF CInv

(* A step that moves it and records it.                                     *)
LEMMA RecordingKeeps ==
    ASSUME CInv, NEW x \in Exchanges, NEW to \in Steps, Move(x, to),
           NEW line \in LineType, line.id = x, Book(x, line),
           tries[x] \in {0, 1},
           to \notin Unrecorded,
           to \in RecordedOneTime => tries[x] = 0,
           StreamRecordIsWhole',
           UNCHANGED <<up, large, forwarded, sent, noted, overran>>,
           status' \in [Exchanges -> Statuses]
    PROVE  CInv'
<1>1. /\ capture' \subseteq LineType
      /\ journal' \subseteq [id : Exchanges, try : 1..2]
      /\ {captureTorn', journalTorn', journalErr'} \subseteq BOOLEAN
      /\ tries' \in [Exchanges -> 0..2]
      /\ tries'[x] = tries[x] + 1
      /\ \A y \in Exchanges : y # x => tries'[y] = tries[y]
      /\ NoLineBefore'
     
  BY BookKeeps
<1>2. TypeOK'
  BY <1>1 DEF CInv, TypeOK, Move
<1>3. TriesFollowStep'
  <2> SUFFICES ASSUME NEW y \in Exchanges
               PROVE  /\ step'[y] \in Unrecorded => tries'[y] = 0
                      /\ step'[y] \in RecordedOneTime => tries'[y] = 1
    BY DEF TriesFollowStep
  <2>1. CASE y = x
    BY <1>1, <2>1 DEF CInv, TypeOK, Move
  <2>2. CASE y # x
    BY <1>1, <2>2 DEF CInv, TypeOK, Move, TriesFollowStep
  <2> QED BY <2>1, <2>2
<1>4. NotedWasSent'
  BY DEF CInv, NotedWasSent
<1> QED BY <1>1, <1>2, <1>3, <1>4 DEF CInv

(* A step that records it outside a stream: recordExchange.                 *)
LEMMA MeasuredKeeps ==
    ASSUME CInv, NEW x \in Exchanges, NEW to \in Steps, Move(x, to),
           NEW code \in Statuses, NEW outcome \in Outcomes,
           NEW usage \in BOOLEAN, BookMeasured(x, code, outcome, usage),
           tries[x] \in {0, 1},
           to \notin Unrecorded,
           to \in RecordedOneTime => tries[x] = 0,
           UNCHANGED <<up, large, forwarded, sent, noted, overran>>,
           status' \in [Exchanges -> Statuses]
    PROVE  CInv'
<1> DEFINE line == Line(x, FALSE, code, outcome, usage,
                        ~large[x] \/ forwarded[x])
<1>1. /\ line \in LineType
      /\ line.id = x
      /\ line.stream = FALSE
  BY DEF CInv, TypeOK, Line, LineType
<1>2. Book(x, line)
  BY DEF BookMeasured
<1> HIDE DEF line
<1>3. capture' \subseteq capture \cup {line}
  BY <1>1, <1>2, BookKeeps
<1>4. StreamRecordIsWhole'
  BY <1>1, <1>3, OtherLineIsWhole DEF CInv
<1> QED BY <1>1, <1>2, <1>4, RecordingKeeps

(* A step that records a stream: streamObserver.finalize.                   *)
LEMMA StreamKeeps ==
    ASSUME CInv, NEW x \in Exchanges, NEW to \in Steps, Move(x, to),
           BookStream(x),
           tries[x] = 0,
           to \notin Unrecorded,
           UNCHANGED <<up, large, forwarded, status, sent, noted, overran>>
    PROVE  CInv'
<1> DEFINE outcome == IF RequiresTerminal /\ "terminal" \notin noted[x]
                        THEN "stream_truncated" ELSE "upstream_ok"
           line == Line(x, TRUE, status[x], outcome, "usage" \in noted[x],
                        ~large[x])
<1>1. line \in LineType /\ line.id = x
  BY DEF CInv, TypeOK, Line, LineType, Outcomes
<1>2. Book(x, line)
  BY DEF BookStream
<1> HIDE DEF line
<1>3. StreamRecordIsWhole'
  BY StreamLineIsWhole
<1>4. status' \in [Exchanges -> Statuses]
  BY DEF CInv, TypeOK
<1> QED BY <1>1, <1>2, <1>3, <1>4, RecordingKeeps

(* Every step of an exchange keeps the invariant.                           *)
LEMMA ExchangeKeeps ==
    ASSUME CInv, NEW x \in Exchanges, ExchangeStep(x)
    PROVE  CInv'
<1>0. /\ TypeOK
      /\ step[x] \in Unrecorded => tries[x] = 0
      /\ step[x] \in RecordedOneTime => tries[x] = 1
  BY DEF CInv, TriesFollowStep
<1> USE DEF Unrecorded, RecordedOneTime
<1>1. CASE Accept(x)
  <2>1. large' \in [Exchanges -> BOOLEAN]
    BY <1>0, <1>1 DEF Accept, TypeOK
  <2> QED
    BY <1>0, <1>1, <2>1, MoveKeeps DEF Accept, Steps, TypeOK
<1>2. CASE Refuse(x)
  BY <1>0, <1>2, MoveKeeps DEF Refuse, Steps, TypeOK
<1>3. CASE SendBody(x)
  <2>1. TypeOK'
    BY <1>0, <1>3 DEF SendBody, TypeOK, recorderVars
  <2>2. NoLineBefore'
    BY <1>3 DEF SendBody, CInv, NoLineBefore, recorderVars
  <2> QED
    BY <1>3, <2>1, <2>2 DEF SendBody, CInv, TriesFollowStep, NotedWasSent,
                            StreamRecordIsWhole, recorderVars
<1>4. ASSUME NEW to \in {"done", "aborted"}, HandleError(x, to),
             tries[x] \in {0, 1},
             to = "done" => tries[x] = 0
      PROVE  CInv'
  <2>1. PICK o \in {"client_canceled", "transport_failure"} :
          BookMeasured(x, "error", o, FALSE)
    BY <1>4 DEF HandleError
  <2>2. /\ status' \in [Exchanges -> Statuses]
        /\ o \in Outcomes
        /\ "error" \in Statuses
    BY <1>0, <1>4 DEF HandleError, TypeOK, Statuses, Outcomes
  <2> QED
    BY <1>4, <2>1, <2>2, MeasuredKeeps DEF HandleError, Steps
<1>5. CASE RoundTripFails(x)
  BY <1>0, <1>4, <1>5 DEF RoundTripFails
<1>6. ASSUME NEW code \in {"ok", "error"}, NEW to \in {"reading", "streaming"},
             Answer(x, code, to)
      PROVE  CInv'
  <2>1. status' \in [Exchanges -> Statuses]
    BY <1>0, <1>6 DEF Answer, TypeOK, Statuses
  <2> QED
    BY <1>0, <1>6, <2>1, MoveKeeps DEF Answer, Steps, TypeOK
<1>7. CASE AnswerWhole(x) \/ AnswerStream(x)
  BY <1>6, <1>7 DEF AnswerWhole, AnswerStream
<1>8. CASE ReadResponse(x)
  <2>1. PICK usage \in BOOLEAN :
          BookMeasured(x, status[x], OutcomeFromStatus(status[x]), usage)
    BY <1>8 DEF ReadResponse
  <2>2. /\ status[x] \in Statuses
        /\ OutcomeFromStatus(status[x]) \in Outcomes
        /\ status' \in [Exchanges -> Statuses]
    BY <1>0, <1>8 DEF ReadResponse, TypeOK, OutcomeFromStatus, Outcomes
  <2> QED
    BY <1>0, <1>8, <2>1, <2>2, MeasuredKeeps DEF ReadResponse, Steps
<1>9. CASE ResponseBreaks(x)
  <2>1. /\ status[x] \in Statuses
        /\ "transport_failure" \in Outcomes
        /\ status' \in [Exchanges -> Statuses]
    BY <1>0, <1>9 DEF ResponseBreaks, TypeOK, Outcomes
  <2> QED
    BY <1>0, <1>9, <2>1, MeasuredKeeps DEF ResponseBreaks, Steps
<1>10. CASE HandleBreak(x)
  BY <1>0, <1>4, <1>10 DEF HandleBreak
<1>11. CASE CopyEnds(x) \/ StreamBreaks(x) \/ CloseEnded(x)
  BY <1>0, <1>11, MoveKeeps
  DEF CopyEnds, StreamBreaks, CloseEnded, Steps, TypeOK
<1>12. CASE StreamEnds(x) \/ CloseStream(x)
  BY <1>0, <1>12, StreamKeeps DEF StreamEnds, CloseStream, Steps
<1>13. ASSUME NEW mark \in Marks, Frame(x, mark)
       PROVE  CInv'
  <2>1. TypeOK'
    BY <1>0, <1>13 DEF Frame, TypeOK, recorderVars
  <2>2. NoLineBefore'
    BY <1>13 DEF Frame, CInv, NoLineBefore, recorderVars
  <2>3. NotedWasSent'
    BY <1>0, <1>13 DEF Frame, TypeOK, CInv, NotedWasSent
  <2>4. StreamRecordIsWhole'
    <3>1. \A r \in capture : r.id \in Exchanges /\ r.id # x
      BY <1>0, <1>13 DEF Frame, CInv, NoLineBefore, TypeOK, LineType
    <3> QED
      BY <1>0, <1>13, <3>1
      DEF Frame, CInv, TypeOK, StreamRecordIsWhole, recorderVars
  <2>5. TriesFollowStep'
    BY <1>13 DEF Frame, CInv, TriesFollowStep
  <2> QED BY <2>1, <2>2, <2>3, <2>4, <2>5 DEF CInv
<1>14. CASE Overrun(x)
  <2>1. TypeOK'
    BY <1>0, <1>14 DEF Overrun, TypeOK, recorderVars
  <2>2. NoLineBefore'
    BY <1>14 DEF Overrun, CInv, NoLineBefore, recorderVars
  <2>3. NotedWasSent' /\ StreamRecordIsWhole'
    BY <1>0, <1>14 DEF Overrun, TypeOK, CInv, NotedWasSent,
                       StreamRecordIsWhole, recorderVars
  <2>4. TriesFollowStep'
    BY <1>14 DEF Overrun, CInv, TriesFollowStep
  <2> QED BY <2>1, <2>2, <2>3, <2>4 DEF CInv
<1> QED
  BY <1>1, <1>2, <1>3, <1>5, <1>7, <1>8, <1>9, <1>10, <1>11, <1>12, <1>13,
     <1>14 DEF ExchangeStep, Handle

(* So does every step of the daemon, and stuttering.                        *)
LEMMA NextKeeps ==
    ASSUME CInv, [Next]_vars
    PROVE  CInv'
<1> USE DEF CInv, recorderVars, exchangeVars
<1>1. CASE Stop \/ Start \/ UNCHANGED vars
  <2>1. /\ UNCHANGED <<capture, captureTorn, journal, journalTorn, step, large,
                       forwarded, status, sent, noted, overran, tries>>
        /\ up' \in BOOLEAN
        /\ journalErr' \in BOOLEAN
    BY <1>1 DEF Stop, Start, Reopen, vars, TypeOK
  <2>2. TypeOK'
    BY <2>1 DEF TypeOK
  <2>3. TriesFollowStep' /\ NotedWasSent' /\ StreamRecordIsWhole'
    BY <2>1 DEF TriesFollowStep, NotedWasSent, StreamRecordIsWhole
  <2>4. NoLineBefore'
    BY <2>1 DEF NoLineBefore
  <2> QED BY <2>2, <2>3, <2>4
<1>2. CASE Crash
  <2>1. UNCHANGED <<capture, captureTorn, journal, journalTorn, large,
                    forwarded, status, sent, noted, overran, tries>>
    BY <1>2 DEF Crash, Reopen
  <2>2. TypeOK'
    BY <1>2, <2>1 DEF Crash, Reopen, TypeOK, Steps
  <2>3. TriesFollowStep'
    BY <1>2, <2>1 DEF Crash, TypeOK, TriesFollowStep, Unrecorded,
                      RecordedOneTime
  <2>4. NotedWasSent' /\ StreamRecordIsWhole'
    BY <2>1 DEF NotedWasSent, StreamRecordIsWhole
  <2>5. NoLineBefore'
    BY <2>1 DEF NoLineBefore
  <2> QED BY <2>2, <2>3, <2>4, <2>5
<1>3. ASSUME NEW x \in Exchanges, ExchangeStep(x)
      PROVE  CInv'
  BY <1>3, ExchangeKeeps
<1> QED BY <1>1, <1>2, <1>3 DEF Next

-----------------------------------------------------------------------------
(* One line for one call of Record. *)

(* A step of an exchange calls Record once or not at all.                   *)
LEMMA BooksOnceOrNot ==
    ASSUME CInv, NEW x \in Exchanges, ExchangeStep(x)
    PROVE  \/ UNCHANGED <<capture, journal, journalTorn, tries>>
           \/ /\ tries[x] \in {0, 1}
              /\ \E line : /\ line.id = x
                           /\ Book(x, line)
<1>0. /\ step[x] \in Unrecorded => tries[x] = 0
      /\ step[x] \in RecordedOneTime => tries[x] = 1
  BY DEF CInv, TriesFollowStep
<1> USE DEF Unrecorded, RecordedOneTime
<1>1. CASE \/ Accept(x) \/ Refuse(x) \/ SendBody(x) \/ AnswerWhole(x)
           \/ AnswerStream(x) \/ Overrun(x) \/ StreamBreaks(x) \/ CopyEnds(x)
           \/ CloseEnded(x) \/ \E mark \in Marks : Frame(x, mark)
  BY <1>1 DEF Accept, Refuse, SendBody, AnswerWhole, AnswerStream, Answer,
              Overrun, StreamBreaks, CopyEnds, CloseEnded, Frame, recorderVars
<1>2. ASSUME NEW to, HandleError(x, to)
      PROVE  \E line : line.id = x /\ Book(x, line)
  BY <1>2 DEF HandleError, BookMeasured, Line
<1>3. CASE RoundTripFails(x) \/ HandleBreak(x)
  BY <1>0, <1>2, <1>3 DEF RoundTripFails, HandleBreak
<1>4. CASE ReadResponse(x) \/ ResponseBreaks(x)
  BY <1>0, <1>4 DEF ReadResponse, ResponseBreaks, BookMeasured, Line
<1>5. CASE StreamEnds(x) \/ CloseStream(x)
  BY <1>0, <1>5 DEF StreamEnds, CloseStream, BookStream, Line
<1> QED
  BY <1>1, <1>3, <1>4, <1>5 DEF ExchangeStep, Handle

(* With a journal that works, the call adds one entry, of the exchange.     *)
LEMMA BookAddsOne ==
    ASSUME ~JournalMayFail, ~journalTorn, NEW x, NEW line, line.id = x,
           Book(x, line)
    PROVE  /\ ~journalTorn'
           /\ capture \subseteq capture' /\ journal \subseteq journal'
           /\ \E e : /\ e.id = x
                     /\ capture' \cup journal' = (capture \cup journal) \cup {e}
<1>1. /\ ~journalTorn'
      /\ \/ /\ capture' = capture \cup {line}
            /\ journal' = journal
         \/ /\ capture' = capture
            /\ journal' = journal \cup {JournalEntry(line)}
  BY RecordAddsOne DEF Book
<1>2. JournalEntry(line).id = x
  BY DEF JournalEntry
<1>3. CASE /\ capture' = capture \cup {line}
           /\ journal' = journal
  BY <1>1, <1>3
<1>4. CASE /\ capture' = capture
           /\ journal' = journal \cup {JournalEntry(line)}
  BY <1>1, <1>2, <1>4
<1> QED BY <1>1, <1>3, <1>4

(* So a single call leaves a single line, of that exchange.                 *)
LEMMA NextOneLine ==
    ASSUME IInv, [Next]_vars
    PROVE  OneLineForOneTry'
<1>1. CASE UNCHANGED <<capture, journal, journalTorn, tries>>
  BY <1>1 DEF IInv, OneLineForOneTry, Entries
<1>2. ASSUME NEW x \in Exchanges, tries[x] \in {0, 1},
             NEW line, line.id = x, Book(x, line)
      PROVE  OneLineForOneTry'
  <2> SUFFICES ASSUME ~JournalMayFail
               PROVE  /\ ~journalTorn'
                      /\ \A y \in Exchanges : tries'[y] = 1 =>
                            \E e \in Entries(y)' : Entries(y)' = {e}
    BY DEF OneLineForOneTry
  <2>1. ~journalTorn
    BY DEF IInv, OneLineForOneTry
  <2>2. PICK e : /\ e.id = x
                 /\ capture' \cup journal' = (capture \cup journal) \cup {e}
    BY <1>2, <2>1, BookAddsOne
  <2>3. /\ tries'[x] = tries[x] + 1
        /\ \A y \in Exchanges : y # x => tries'[y] = tries[y]
    BY <1>2 DEF Book, IInv, CInv, TypeOK
  <2>4. ASSUME NEW y \in Exchanges, y # x, tries'[y] = 1
        PROVE  \E f \in Entries(y)' : Entries(y)' = {f}
    <3>1. Entries(y)' = Entries(y)
      BY <2>2, <2>4 DEF Entries
    <3>2. tries[y] = 1
      BY <2>3, <2>4
    <3> QED BY <3>1, <3>2 DEF IInv, OneLineForOneTry
  <2>5. ASSUME tries'[x] = 1
        PROVE  \E f \in Entries(x)' : Entries(x)' = {f}
    <3>1. tries[x] = 0
      BY <1>2, <2>3, <2>5
    <3>2. Entries(x) = {}
      BY <3>1 DEF Entries, IInv, CInv, NoLineBefore
    <3>3. Entries(x)' = {e}
      BY <3>2, <2>2 DEF Entries
    <3> QED BY <3>3
  <2>6. ~journalTorn'
    BY <1>2, <2>1, BookAddsOne
  <2> QED BY <2>4, <2>5, <2>6
<1>3. CASE Stop \/ Start \/ Crash \/ UNCHANGED vars
  BY <1>1, <1>3
  DEF Stop, Start, Crash, Reopen, vars, recorderVars, exchangeVars
<1>4. ASSUME NEW x \in Exchanges, ExchangeStep(x)
      PROVE  OneLineForOneTry'
  BY <1>1, <1>2, <1>4, BooksOnceOrNot DEF IInv
<1> QED BY <1>3, <1>4 DEF Next

(* The invariant holds in every state.                                      *)
THEOREM InductiveInvariant == Spec => []IInv
<1>1. Init => IInv
  BY InitIInv
<1>2. IInv /\ [Next]_vars => IInv'
  BY NextKeeps, NextOneLine DEF IInv
<1> QED BY <1>1, <1>2, PTL DEF Spec

-----------------------------------------------------------------------------
(* The theorems. *)

(* The model's variables keep their types.                                  *)
THEOREM CaptureTypeCorrect == Spec => []TypeOK
<1>1. IInv => TypeOK
  BY DEF IInv, CInv
<1> QED BY <1>1, InductiveInvariant, PTL

(* Whatever order streams end, break and close in, and whatever the         *)
(* recorder could not write, an exchange that ended leaves one line in the  *)
(* capture or the journal, and one that did not leaves none (finalize's     *)
(* sync.Once, and the single call of Record on every other path).           *)
THEOREM EveryExchangeIsAccountedOnce == Spec => []AccountedOnce
<1>1. IInv => AccountedOnce
  <2> SUFFICES ASSUME IInv, ~JournalMayFail, NEW x \in Exchanges
               PROVE  /\ step[x] = "done" => \E e \in Entries(x) :
                                                Entries(x) = {e}
                      /\ step[x] \in Unrecorded => Entries(x) = {}
    BY DEF AccountedOnce, Unrecorded
  <2>1. CASE step[x] = "done"
    BY <2>1 DEF IInv, CInv, TriesFollowStep, RecordedOneTime, Unrecorded,
                OneLineForOneTry
  <2>2. CASE step[x] \in Unrecorded
    <3>1. tries[x] = 0
      BY <2>2 DEF IInv, CInv, TriesFollowStep
    <3>2. Entries(x) = {}
      BY <3>1 DEF IInv, CInv, NoLineBefore, Entries
    <3> QED BY <2>2, <3>2 DEF Unrecorded
  <2>3. CASE step[x] # "done" /\ step[x] \notin Unrecorded
    BY <2>3
  <2> QED BY <2>1, <2>2, <2>3
<1> QED BY <1>1, InductiveInvariant, PTL

(* The line of a stream says of its usage and its end what the frames sent  *)
(* to the client said, unless an oversized event stopped the observer       *)
(* (streamObserver.observe before finalize, in Read as in Close).           *)
THEOREM StreamRecordsAreWhole == Spec => []StreamRecordIsWhole
<1>1. IInv => StreamRecordIsWhole
  BY DEF IInv, CInv
<1> QED BY <1>1, InductiveInvariant, PTL

-----------------------------------------------------------------------------
(* Reports: the inductive invariant. *)

Known(x) == \E e \in capture \cup journal : e.id = x

(* What was recorded, and not purged since, has a line or an entry.         *)
RecordedIsKnown ==
    \A x \in Exchanges :
        step[x] \in RecordedOneTime => Known(x) \/ x \in purged

(* A purge runs without a daemon, which is without exchanges; it takes what *)
(* had ended, and nothing ends until it is over.                            *)
PurgeIsAlone ==
    /\ ~up => \A x \in Exchanges : step[x] \notin InFlight
    /\ purging => ~up /\ Ended \subseteq purged
    /\ purged \subseteq Ended

(* Between its two reads, a report has a line, or will find an entry, of    *)
(* every exchange that had ended when it began.                             *)
ReplayedIsKnown ==
    /\ due \subseteq Ended
    /\ reportStep = "replayed" =>
          \A x \in due \ purged : \/ \E r \in replayed : r.id = x
                                  \/ \E e \in journal : e.id = x

RInv == /\ ReportTypeOK
        /\ CInv
        /\ ~journalTorn
        /\ RecordedIsKnown
        /\ PurgeIsAlone
        /\ ReplayedIsKnown
        /\ reportStep # "told" => verdict = "none"
        /\ CompleteIsComplete

-----------------------------------------------------------------------------
(* The steps of the daemon and of its exchanges. *)

(* An exchange that comes to be recorded is known from then on, or was      *)
(* already; one that ended stays so.                                        *)
LEMMA StepRecords ==
    ASSUME CInv, ~JournalMayFail, ~journalTorn,
           NEW x \in Exchanges, ExchangeStep(x)
    PROVE  /\ \A y \in Exchanges : y # x => step'[y] = step[y]
           /\ step[x] # "done"
           /\ step'[x] \in RecordedOneTime =>
                 step[x] \in RecordedOneTime \/ Known(x)'
<1>0. step \in [Exchanges -> Steps]
  BY DEF CInv, TypeOK
<1> USE DEF RecordedOneTime
<1>1. ASSUME NEW line, line.id = x, Book(x, line)
      PROVE  Known(x)'
  BY <1>1, BookAddsOne DEF Known
<1>2. CASE \/ Accept(x) \/ Refuse(x) \/ SendBody(x) \/ AnswerWhole(x)
           \/ AnswerStream(x) \/ Overrun(x) \/ StreamBreaks(x) \/ CopyEnds(x)
           \/ CloseEnded(x) \/ \E mark \in Marks : Frame(x, mark)
  BY <1>0, <1>2
  DEF Accept, Refuse, SendBody, AnswerWhole, AnswerStream, Answer, Overrun,
      StreamBreaks, CopyEnds, CloseEnded, Frame, Move
<1>3. ASSUME NEW to, HandleError(x, to)
      PROVE  Known(x)' /\ step' = [step EXCEPT ![x] = to]
  BY <1>1, <1>3 DEF HandleError, BookMeasured, Line, Move
<1>4. CASE RoundTripFails(x) \/ HandleBreak(x)
  BY <1>0, <1>3, <1>4 DEF RoundTripFails, HandleBreak
<1>5. CASE ReadResponse(x) \/ ResponseBreaks(x)
  BY <1>0, <1>1, <1>5
  DEF ReadResponse, ResponseBreaks, BookMeasured, Line, Move
<1>6. CASE StreamEnds(x) \/ CloseStream(x)
  BY <1>0, <1>1, <1>6
  DEF StreamEnds, CloseStream, BookStream, Line, Move
<1> QED
  BY <1>2, <1>4, <1>5, <1>6 DEF ExchangeStep, Handle

(* The files only grow, and no fragment gets into the journal.              *)
LEMMA FilesGrow ==
    ASSUME CInv, ~JournalMayFail, ~journalTorn, Next
    PROVE  /\ ~journalTorn'
           /\ capture \subseteq capture'
           /\ journal \subseteq journal'
<1>1. CASE Stop \/ Start \/ Crash
  <2>1. UNCHANGED <<capture, journal, journalTorn>>
    BY <1>1 DEF Stop, Start, Crash, Reopen, recorderVars
  <2>2. ~journalTorn'
    BY <2>1, Zenon
  <2> QED BY <2>1, <2>2
<1>2. ASSUME NEW x \in Exchanges, ExchangeStep(x)
      PROVE  /\ ~journalTorn'
             /\ capture \subseteq capture'
             /\ journal \subseteq journal'
  <2>1. CASE UNCHANGED <<capture, journal, journalTorn, tries>>
    <3>1. ~journalTorn'
      BY <2>1, Zenon
    <3> QED BY <2>1, <3>1
  <2>2. CASE \E line : line.id = x /\ Book(x, line)
    BY <2>2, BookAddsOne
  <2> QED BY <1>2, <2>1, <2>2, BooksOnceOrNot
<1> QED BY <1>1, <1>2 DEF Next

(* Only a daemon that runs has steps of exchanges, and they leave it up.    *)
LEMMA ExchangesNeedDaemon ==
    ASSUME CInv, PurgeIsAlone, NEW x \in Exchanges, ExchangeStep(x)
    PROVE  up /\ up'
<1>1. up' = up
  BY DEF ExchangeStep, Handle, Accept, Refuse, SendBody, RoundTripFails,
         AnswerWhole, AnswerStream, Answer, ReadResponse, ResponseBreaks,
         HandleBreak, HandleError, CopyEnds, Frame, Overrun, StreamEnds,
         StreamBreaks, CloseStream, CloseEnded
<1>2. up \/ step[x] \in InFlight
  BY DEF ExchangeStep, Handle, Accept, Refuse, SendBody, RoundTripFails,
         AnswerWhole, AnswerStream, Answer, ReadResponse, ResponseBreaks,
         HandleBreak, CopyEnds, Frame, Overrun, StreamEnds,
         StreamBreaks, CloseStream, CloseEnded, InFlight
<1>3. up
  BY <1>2 DEF PurgeIsAlone
<1> QED BY <1>1, <1>3, Zenon

(* Capturing keeps the invariant.                                           *)
LEMMA CapturingKeeps ==
    ASSUME RInv, ~JournalMayFail, Capturing
    PROVE  RInv'
<1> USE DEF RInv
<1>1. /\ Next
      /\ up \/ ~purging
      /\ UNCHANGED <<reportStep, replayed, due, verdict, purging, purged>>
  BY DEF Capturing, reportVars, purgeVars
<1>2. ~purging /\ ~purging'
  <2>1. ~purging
    BY <1>1 DEF PurgeIsAlone
  <2> QED BY <1>1, <2>1, Zenon
<1>3. CInv'
  BY <1>1, NextKeeps
<1>4. /\ ~journalTorn'
      /\ capture \subseteq capture'
      /\ journal \subseteq journal'
  BY <1>1, FilesGrow
<1> DEFINE EndsWell(x) ==
               /\ step[x] = "done" => step'[x] = "done"
               /\ step'[x] \in RecordedOneTime =>
                     step[x] \in RecordedOneTime \/ Known(x)'
<1>5. \A x \in Exchanges : EndsWell(x)
  <2>1. CASE Stop \/ Start
    BY <2>1 DEF Stop, Start, exchangeVars
  <2>2. CASE Crash
    BY <2>2 DEF Crash, CInv, TypeOK, InFlight, RecordedOneTime
  <2>3. ASSUME NEW x \in Exchanges, ExchangeStep(x)
        PROVE  \A y \in Exchanges : EndsWell(y)
    BY <2>3, StepRecords
  <2> QED BY <1>1, <2>1, <2>2, <2>3 DEF Next
<1>6. RecordedIsKnown'
  BY <1>1, <1>4, <1>5 DEF RecordedIsKnown, Known
<1>7. Ended \subseteq Ended'
  BY <1>5 DEF Ended
<1>8. ~up' => \A x \in Exchanges : step'[x] \notin InFlight
  <2>1. CASE Stop
    BY <2>1 DEF Stop, exchangeVars
  <2>2. CASE Start
    BY <2>2 DEF Start
  <2>3. CASE Crash
    BY <2>3 DEF Crash, CInv, TypeOK, InFlight
  <2>4. ASSUME NEW x \in Exchanges, ExchangeStep(x)
        PROVE  up'
    BY <2>4, ExchangesNeedDaemon
  <2> QED BY <1>1, <2>1, <2>2, <2>3, <2>4 DEF Next
<1>9. PurgeIsAlone'
  BY <1>1, <1>2, <1>7, <1>8 DEF PurgeIsAlone
<1>10. ReplayedIsKnown'
  BY <1>1, <1>4, <1>7 DEF ReplayedIsKnown
<1>11. CompleteIsComplete' /\ ReportTypeOK'
  BY <1>1, <1>3 DEF CompleteIsComplete, ReportTypeOK, CInv
<1>12. reportStep' # "told" => verdict' = "none"
  BY <1>1
<1> QED
  BY <1>3, <1>4, <1>6, <1>9, <1>10, <1>11, <1>12

-----------------------------------------------------------------------------
(* The steps of a report. *)

(* What a step of the report leaves alone stays as it was.                  *)
LEMMA OthersStay ==
    ASSUME CInv, ReportTypeOK, ~journalTorn, RecordedIsKnown, PurgeIsAlone,
           UNCHANGED <<vars, purgeVars>>
    PROVE  CInv' /\ ~journalTorn' /\ RecordedIsKnown' /\ PurgeIsAlone'
<1>1. CInv'
  BY NextKeeps DEF vars
<1>2. ~journalTorn'
  BY Zenon DEF vars, recorderVars
<1>3. RecordedIsKnown' /\ PurgeIsAlone'
  BY DEF vars, recorderVars, exchangeVars, purgeVars, RecordedIsKnown, Known,
         PurgeIsAlone, Ended
<1> QED BY <1>1, <1>2, <1>3

(* The report's reads, its verdict and its next start keep the invariant:   *)
(* it calls complete only what its two reads showed complete.               *)
LEMMA ReportKeeps ==
    ASSUME RInv, ReplayCapture \/ ReplayFails \/ Account \/ ReportAgain
    PROVE  RInv'
<1> USE DEF RInv
<1>1. UNCHANGED <<vars, purgeVars>>
  BY DEF ReplayCapture, ReplayFails, Account, ReportAgain
<1>2. CInv' /\ ~journalTorn' /\ RecordedIsKnown' /\ PurgeIsAlone'
  BY <1>1, OthersStay
<1>3. /\ UNCHANGED <<capture, journal, step, purging, purged>>
      /\ TypeOK'
  BY <1>1, <1>2 DEF vars, recorderVars, exchangeVars, purgeVars, CInv
<1>4. CASE ReplayCapture
  <2>1. ReportTypeOK'
    BY <1>3, <1>4 DEF ReplayCapture, ReportTypeOK, TypeOK, Ended
  <2>2. ReplayedIsKnown'
    BY <1>3, <1>4
    DEF ReplayCapture, ReplayedIsKnown, RecordedIsKnown, RecordedOneTime,
        Known, Ended
  <2> QED
    BY <1>2, <1>4, <2>1, <2>2 DEF ReplayCapture, CompleteIsComplete
<1>5. CASE ReplayFails
  <2>1. ReportTypeOK'
    BY <1>3, <1>5 DEF ReplayFails, ReportTypeOK
  <2>2. ReplayedIsKnown' /\ CompleteIsComplete'
    BY <1>3, <1>5 DEF ReplayFails, ReplayedIsKnown, Ended, CompleteIsComplete
  <2> QED
    BY <1>2, <1>5, <2>1, <2>2 DEF ReplayFails
<1>6. CASE Account
  <2>1. ReportTypeOK'
    BY <1>3, <1>6 DEF Account, AccountProfile, ReportTypeOK
  <2>2. ReplayedIsKnown'
    BY <1>3, <1>6 DEF Account, ReplayedIsKnown, Ended
  <2>3. CompleteIsComplete'
    <3>1. ASSUME verdict' = "complete"
          PROVE  /\ \A r \in replayed : r.usage
                 /\ journal = {}
      BY <1>6, <3>1 DEF Account, AccountProfile
    <3> QED
      BY <1>3, <1>6, <3>1 DEF Account, ReplayedIsKnown, CompleteIsComplete
  <2> QED
    BY <1>2, <1>6, <2>1, <2>2, <2>3 DEF Account
<1>7. CASE ReportAgain
  <2>1. ReportTypeOK'
    BY <1>3, <1>7 DEF ReportAgain, ReportTypeOK
  <2>2. ReplayedIsKnown' /\ CompleteIsComplete'
    BY <1>7 DEF ReportAgain, ReplayedIsKnown, CompleteIsComplete
  <2> QED
    BY <1>2, <1>7, <2>1, <2>2 DEF ReportAgain
<1> QED BY <1>4, <1>5, <1>6, <1>7

-----------------------------------------------------------------------------
(* The steps of a purge. *)

(* A purge removes lines; what is left of the capture is still right.       *)
LEMMA PurgeKeepsCapture ==
    ASSUME CInv, PurgeCapture \/ PurgeJournal, UNCHANGED <<up, exchangeVars>>
    PROVE  CInv'
<1>1. /\ capture' \subseteq capture
      /\ journal' \subseteq journal
      /\ {captureTorn', journalTorn', journalErr', up'} \subseteq BOOLEAN
      /\ UNCHANGED <<step, large, forwarded, status, sent, noted, overran,
                     tries>>
  BY DEF PurgeCapture, PurgeJournal, exchangeVars, CInv, TypeOK
<1>2. TypeOK'
  BY <1>1 DEF CInv, TypeOK
<1>3. TriesFollowStep' /\ NoLineBefore'
  BY <1>1 DEF CInv, TriesFollowStep, NoLineBefore
<1>4. NotedWasSent' /\ StreamRecordIsWhole'
  BY <1>1 DEF CInv, NotedWasSent, StreamRecordIsWhole
<1> QED BY <1>2, <1>3, <1>4 DEF CInv

(* The steps of a purge keep the invariant: what they remove was purged.    *)
LEMMA PurgeKeeps ==
    ASSUME RInv, BeginPurge \/ EndPurge \/ JournalResists
    PROVE  RInv'
<1> USE DEF RInv
<1>1. UNCHANGED <<up, step, reportStep, replayed, due, verdict>>
  BY DEF BeginPurge, EndPurge, JournalResists, reportVars, exchangeVars, vars
<1>2. Ended' = Ended
  BY <1>1 DEF Ended
<1>3. ~up /\ Ended \subseteq purged'
  BY DEF BeginPurge, EndPurge, JournalResists, PurgeIsAlone
<1>4. ~up' /\ (~up => \A x \in Exchanges : step[x] \notin InFlight)
  <2>1. ~up'
    BY <1>1, <1>3, Zenon
  <2> QED BY <2>1 DEF PurgeIsAlone
<1>5. CInv'
  <2>1. CASE BeginPurge \/ EndPurge
    BY <2>1, PurgeKeepsCapture DEF BeginPurge, EndPurge
  <2>2. CASE JournalResists
    BY <2>2, NextKeeps DEF JournalResists, vars
  <2> QED BY <2>1, <2>2
<1>6. ~journalTorn'
  <2>1. CASE BeginPurge \/ JournalResists
    <3>1. journalTorn' = journalTorn
      BY <2>1 DEF BeginPurge, JournalResists, PurgeCapture, vars, recorderVars
    <3> QED BY <3>1, Zenon
  <2>2. CASE EndPurge
    BY <2>2 DEF EndPurge, PurgeJournal
  <2> QED BY <2>1, <2>2
<1>7. purged' \subseteq Ended /\ (purging' => ~up')
  <2>1. CASE BeginPurge
    BY <1>4, <2>1 DEF BeginPurge
  <2>2. CASE EndPurge \/ JournalResists
    BY <2>2 DEF EndPurge, JournalResists, PurgeIsAlone
  <2> QED BY <2>1, <2>2
<1>8. PurgeIsAlone'
  BY <1>1, <1>2, <1>3, <1>4, <1>7 DEF PurgeIsAlone
<1>9. RecordedIsKnown'
  <2> SUFFICES ASSUME NEW x \in Exchanges, step[x] \in RecordedOneTime
               PROVE  x \in purged'
    BY <1>1 DEF RecordedIsKnown
  <2>1. step[x] \notin InFlight
    BY <1>3, <1>4
  <2>2. x \in Ended
    BY <2>1 DEF RecordedOneTime, InFlight, Ended
  <2> QED BY <1>3, <2>2
<1>10. due \subseteq purged'
  BY <1>3 DEF ReplayedIsKnown
<1>11. ReplayedIsKnown' /\ CompleteIsComplete'
  BY <1>1, <1>2, <1>10 DEF ReplayedIsKnown, CompleteIsComplete
<1>12. ReportTypeOK'
  <2>1. purged' \subseteq Exchanges /\ purging' \in BOOLEAN
    BY DEF BeginPurge, EndPurge, JournalResists, Ended, ReportTypeOK
  <2> QED BY <1>1, <1>5, <2>1 DEF ReportTypeOK, CInv
<1>13. reportStep' # "told" => verdict' = "none"
  BY <1>1
<1> QED
  BY <1>5, <1>6, <1>8, <1>9, <1>11, <1>12, <1>13

-----------------------------------------------------------------------------
(* The theorems. *)

(* The initial state satisfies the invariant.                               *)
LEMMA InitRInv == ReportInit => RInv
<1> SUFFICES ASSUME ReportInit
             PROVE  RInv
  OBVIOUS
<1>1. CInv
  BY InitIInv DEF ReportInit, IInv
<1>2. ~journalTorn /\ up = TRUE /\ \A x \in Exchanges : step[x] = "new"
  BY DEF ReportInit, Init, RecorderInit
<1>3. RecordedIsKnown /\ PurgeIsAlone
  BY <1>2 DEF RecordedIsKnown, RecordedOneTime, PurgeIsAlone, ReportInit, Ended
<1>4. ReplayedIsKnown /\ CompleteIsComplete /\ ReportTypeOK
  BY <1>1 DEF ReportInit, ReplayedIsKnown, CompleteIsComplete, ReportTypeOK,
              CInv
<1> QED BY <1>1, <1>2, <1>3, <1>4 DEF RInv, ReportInit

(* The invariant holds in every state.                                      *)
THEOREM ReportInvariant ==
    ASSUME ~JournalMayFail
    PROVE  ReportSpec => []RInv
<1>1. ReportInit => RInv
  BY InitRInv
<1>2. RInv /\ [ReportNext]_allVars => RInv'
  <2> SUFFICES ASSUME RInv, [ReportNext]_allVars
               PROVE  RInv'
    OBVIOUS
  <2>1. CASE Capturing
    BY <2>1, CapturingKeeps
  <2>2. CASE ReplayCapture \/ ReplayFails \/ Account \/ ReportAgain
    BY <2>2, ReportKeeps
  <2>3. CASE BeginPurge \/ EndPurge \/ JournalResists
    BY <2>3, PurgeKeeps
  <2>4. CASE UNCHANGED allVars
    <3>1. UNCHANGED <<vars, reportVars, purgeVars>>
      BY <2>4 DEF allVars
    <3>2. CInv' /\ ~journalTorn' /\ RecordedIsKnown' /\ PurgeIsAlone'
      BY <3>1, OthersStay DEF RInv
    <3>3. /\ UNCHANGED <<journal, step, reportStep, replayed, due, verdict,
                         purging, purged>>
      BY <3>1 DEF vars, recorderVars, exchangeVars, reportVars, purgeVars
    <3>4. ReportTypeOK'
      BY <3>2, <3>3 DEF RInv, ReportTypeOK, CInv
    <3>5. ReplayedIsKnown' /\ CompleteIsComplete'
      BY <3>3 DEF RInv, ReplayedIsKnown, CompleteIsComplete, Ended
    <3> QED BY <3>2, <3>3, <3>4, <3>5 DEF RInv
  <2> QED BY <2>1, <2>2, <2>3, <2>4 DEF ReportNext
<1> QED BY <1>1, <1>2, PTL DEF ReportSpec

(* The variables of reports and purges keep their types, and so do those of *)
(* the exchanges, with purges among the steps.                              *)
THEOREM ReportTypeCorrect ==
    ASSUME ~JournalMayFail
    PROVE  ReportSpec => []ReportTypeOK
<1>1. RInv => ReportTypeOK
  BY DEF RInv
<1> QED BY <1>1, ReportInvariant, PTL

(* A report that says its account is complete is right: also with           *)
(* exchanges that end, fail to be recorded, are purged or are lost to a     *)
(* crash between its two reads (App.GatewayReport reads the capture first   *)
(* and the journal after it).                                               *)
THEOREM ReportIsSound ==
    ASSUME ~JournalMayFail
    PROVE  ReportSpec => []CompleteIsComplete
<1>1. RInv => CompleteIsComplete
  BY DEF RInv
<1> QED BY <1>1, ReportInvariant, PTL
==============================================================================
