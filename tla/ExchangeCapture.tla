--------------------------- MODULE ExchangeCapture ---------------------------
(***************************************************************************)
(* One daemon's proxy for one profile: what it does with every exchange    *)
(* between a client and the provider, until the exchange is recorded.      *)
(*                                                                         *)
(* Exchanges run concurrently.  Each has a handler goroutine, which reads  *)
(* the request, waits for the provider, and copies the response to the     *)
(* client, and a goroutine of the transport, which writes the request body *)
(* upstream and may still do so when the response arrives.  A response is  *)
(* either read before it is forwarded, up to the capture limit, or, when   *)
(* it is an event stream, observed frame by frame as it passes.            *)
(*                                                                         *)
(* Every exchange is a model call.  Of its usage the model keeps whether   *)
(* the provider reported it.                                               *)
(***************************************************************************)
EXTENDS FileRecorder, Naturals

CONSTANTS
    Exchanges,          \* the requests clients send
    Marks,              \* what the frames of a stream tell its observer
    RequiresTerminal    \* must a stream of the profile's protocol end in a
                        \* terminal event (Anthropic) or not (OpenAI)

ASSUME MarkAssumption == Marks \subseteq {"usage", "terminal"}
ASSUME ProtocolAssumption == RequiresTerminal \in BOOLEAN

VARIABLES
    up,          \* does the daemon run
    step,        \* step[x]: how far exchange x is
    large,       \* large[x]: is its request body above the capture limit
    forwarded,   \* forwarded[x]: the handler sees it wholly sent upstream
    status,      \* status[x]: the kind of HTTP status recorded for it
    sent,        \* sent[x]: what the client's stream has carried so far
    noted,       \* noted[x]: what the stream's observer has seen of it
    overran,     \* overran[x]: an oversized event stopped the observer
    tries        \* tries[x]: how often Record was called for it

exchangeVars == <<step, large, forwarded, status, sent, noted, overran, tries>>
vars == <<recorderVars, up, exchangeVars>>

(* "waiting" is the round trip, "reading" a response read before it is      *)
(* forwarded, "failing" one that broke off, "copying" one being forwarded,  *)
(* "closing" a stream whose end or failure was seen, "closed" one that was  *)
(* finalized at its end and is still to be closed.                          *)
Steps == {"new", "waiting", "reading", "failing", "copying", "streaming",
          "closing", "closed", "refused", "done", "aborted", "lost"}

(* The steps at which the server holds the exchange.                        *)
InFlight == {"waiting", "reading", "failing", "copying", "streaming",
             "closing", "closed"}

Statuses == {"none", "ok", "error"}
Outcomes == {"upstream_ok", "upstream_http_error", "transport_failure",
             "client_canceled", "stream_truncated"}

Init ==
    /\ RecorderInit
    /\ up = TRUE
    /\ step = [x \in Exchanges |-> "new"]
    /\ large = [x \in Exchanges |-> FALSE]
    /\ forwarded = [x \in Exchanges |-> FALSE]
    /\ status = [x \in Exchanges |-> "none"]
    /\ sent = [x \in Exchanges |-> {}]
    /\ noted = [x \in Exchanges |-> {}]
    /\ overran = [x \in Exchanges |-> FALSE]
    /\ tries = [x \in Exchanges |-> 0]

-----------------------------------------------------------------------------
(* Recording an exchange. *)

Line(x, stream, code, outcome, usage, measured) ==
    [id |-> x, try |-> tries[x] + 1, stream |-> stream, status |-> code,
     outcome |-> outcome, usage |-> usage, measured |-> measured]

Book(x, line) ==
    /\ Record(line)
    /\ tries' = [tries EXCEPT ![x] = @ + 1]

(* Proxy.recordExchange: the size and hash of a body above the capture      *)
(* limit are those of the body sent, if it was sent to its end.             *)
BookMeasured(x, code, outcome, usage) ==
    Book(x, Line(x, FALSE, code, outcome, usage, ~large[x] \/ forwarded[x]))

(* streamObserver.record does not look at the body sent.                    *)
BookStream(x) ==
    LET outcome == IF RequiresTerminal /\ "terminal" \notin noted[x]
                     THEN "stream_truncated" ELSE "upstream_ok"
    IN Book(x, Line(x, TRUE, status[x], outcome, "usage" \in noted[x],
                    ~large[x]))

Move(x, to) == step' = [step EXCEPT ![x] = to]

-----------------------------------------------------------------------------
(* The handler. *)

(* captureMiddleware: the request body is read to its end or to the limit;  *)
(* one that cannot be read is refused, and nothing goes upstream.           *)
Accept(x) ==
    /\ up
    /\ step[x] = "new"
    /\ Move(x, "waiting")
    /\ \E b \in BOOLEAN : large' = [large EXCEPT ![x] = b]
    /\ UNCHANGED <<recorderVars, up, forwarded, status, sent, noted, overran,
                   tries>>

Refuse(x) ==
    /\ up
    /\ step[x] = "new"
    /\ Move(x, "refused")
    /\ UNCHANGED <<recorderVars, up, large, forwarded, status, sent, noted,
                   overran, tries>>

(* The transport has sent the body to its end.                              *)
SendBody(x) ==
    /\ step[x] \in {"waiting", "reading", "copying", "streaming"}
    /\ ~forwarded[x]
    /\ forwarded' = [forwarded EXCEPT ![x] = TRUE]
    /\ UNCHANGED <<recorderVars, up, step, large, status, sent, noted,
                   overran, tries>>

(* Proxy.errorHandler, after a round trip that failed or was canceled, or   *)
(* after observeResponse returned an error.                                 *)
HandleError(x, to) ==
    /\ status' = [status EXCEPT ![x] = "error"]
    /\ \E o \in {"client_canceled", "transport_failure"} :
          BookMeasured(x, "error", o, FALSE)
    /\ Move(x, to)
    /\ UNCHANGED <<up, large, forwarded, sent, noted, overran>>

RoundTripFails(x) ==
    /\ step[x] = "waiting"
    /\ HandleError(x, "done")

(* Proxy.observeResponse, at the response's header.                         *)
Answer(x, code, to) ==
    /\ step[x] = "waiting"
    /\ status' = [status EXCEPT ![x] = code]
    /\ Move(x, to)
    /\ UNCHANGED <<recorderVars, up, large, forwarded, sent, noted, overran,
                   tries>>

AnswerWhole(x) == \E code \in {"ok", "error"} : Answer(x, code, "reading")
AnswerStream(x) == \E code \in {"ok", "error"} : Answer(x, code, "streaming")

(* The response is read, recorded, and then forwarded.                      *)
OutcomeFromStatus(code) ==
    IF code = "ok" THEN "upstream_ok" ELSE "upstream_http_error"

ReadResponse(x) ==
    /\ step[x] = "reading"
    /\ \E usage \in BOOLEAN :
          BookMeasured(x, status[x], OutcomeFromStatus(status[x]), usage)
    /\ Move(x, "copying")
    /\ UNCHANGED <<up, large, forwarded, status, sent, noted, overran>>

(* It breaks off: the exchange is recorded as a transport failure, and      *)
(* observeResponse returns an error to the reverse proxy, which calls the   *)
(* error handler.                                                           *)
ReadsAgain(x) ==
    /\ step[x] = "reading"
    /\ BookMeasured(x, status[x], "transport_failure", FALSE)
    /\ UNCHANGED <<up, step, large, forwarded, status, sent, noted, overran>>

ResponseBreaks(x) ==
    /\ step[x] = "reading"
    /\ BookMeasured(x, status[x], "transport_failure", FALSE)
    /\ Move(x, "failing")
    /\ UNCHANGED <<up, large, forwarded, status, sent, noted, overran>>

HandleBreak(x) ==
    /\ step[x] = "failing"
    /\ HandleError(x, "aborted")

CopyEnds(x) ==
    /\ step[x] = "copying"
    /\ Move(x, "done")
    /\ UNCHANGED <<recorderVars, up, large, forwarded, status, sent, noted,
                   overran, tries>>

-----------------------------------------------------------------------------
(* The stream: streamObserver. *)

(* A frame is forwarded to the client; the observer sees it unless it       *)
(* overran before.  An event above the limit makes it overrun.              *)
Frame(x, mark) ==
    /\ step[x] = "streaming"
    /\ sent' = [sent EXCEPT ![x] = @ \cup {mark}]
    /\ noted' = IF overran[x] THEN noted
                              ELSE [noted EXCEPT ![x] = @ \cup {mark}]
    /\ UNCHANGED <<recorderVars, up, step, large, forwarded, status, overran,
                   tries>>

Overrun(x) ==
    /\ step[x] = "streaming"
    /\ ~overran[x]
    /\ overran' = [overran EXCEPT ![x] = TRUE]
    /\ UNCHANGED <<recorderVars, up, step, large, forwarded, status, sent,
                   noted, tries>>

(* Read returns io.EOF: the stream is finalized, after what it read last    *)
(* was observed.                                                            *)
FinalizesFirst(x) ==
    /\ step[x] = "streaming"
    /\ BookStream(x)
    /\ Move(x, "closed")
    /\ \E mark \in Marks : sent' = [sent EXCEPT ![x] = @ \cup {mark}]
    /\ UNCHANGED <<up, large, forwarded, status, noted, overran>>

StreamEnds(x) ==
    /\ step[x] = "streaming"
    /\ BookStream(x)
    /\ Move(x, "closed")
    /\ UNCHANGED <<up, large, forwarded, status, sent, noted, overran>>

(* The provider's connection or the client's breaks: the copy stops.        *)
StreamBreaks(x) ==
    /\ step[x] = "streaming"
    /\ Move(x, "closing")
    /\ UNCHANGED <<recorderVars, up, large, forwarded, status, sent, noted,
                   overran, tries>>

(* Close finalizes a stream that was not.                                   *)
ClosesOnly(x) ==
    /\ step[x] = "closing"
    /\ Move(x, "done")
    /\ UNCHANGED <<recorderVars, up, large, forwarded, status, sent, noted,
                   overran, tries>>

CloseStream(x) ==
    /\ step[x] = "closing"
    /\ BookStream(x)
    /\ Move(x, "done")
    /\ UNCHANGED <<up, large, forwarded, status, sent, noted, overran>>

FinalizesTwice(x) ==
    /\ step[x] = "closed"
    /\ BookStream(x)
    /\ Move(x, "done")
    /\ UNCHANGED <<up, large, forwarded, status, sent, noted, overran>>

CloseEnded(x) ==
    /\ step[x] = "closed"
    /\ Move(x, "done")
    /\ UNCHANGED <<recorderVars, up, large, forwarded, status, sent, noted,
                   overran, tries>>

-----------------------------------------------------------------------------
(* The daemon's life: GatewayLifecycle, seen from the exchanges.            *)

(* A graceful end waits for the exchanges; a crash takes them with it.      *)
Stop ==
    /\ up
    /\ \A x \in Exchanges : step[x] \notin InFlight
    /\ up' = FALSE
    /\ Reopen
    /\ UNCHANGED exchangeVars

Crash ==
    /\ up
    /\ up' = FALSE
    /\ step' = [x \in Exchanges |->
                  IF step[x] \in InFlight THEN "lost" ELSE step[x]]
    /\ Reopen
    /\ UNCHANGED <<large, forwarded, status, sent, noted, overran, tries>>

Start ==
    /\ ~up
    /\ up' = TRUE
    /\ UNCHANGED <<recorderVars, exchangeVars>>

-----------------------------------------------------------------------------
Handle(x) ==
    \/ HandleBreak(x) \/ CopyEnds(x) \/ CloseStream(x) \/ CloseEnded(x)

ExchangeStep(x) ==
    \/ Accept(x) \/ Refuse(x) \/ SendBody(x) \/ RoundTripFails(x)
    \/ AnswerWhole(x) \/ ReadResponse(x) \/ ResponseBreaks(x)
    \/ AnswerStream(x) \/ Overrun(x) \/ StreamEnds(x) \/ StreamBreaks(x)
    \/ Handle(x)
    \/ \E mark \in Marks : Frame(x, mark)

Next == Stop \/ Crash \/ Start \/ \E x \in Exchanges : ExchangeStep(x)

Spec == Init /\ [][Next]_vars

(* A handler that waits for nobody runs on.                                 *)
Fairness == \A x \in Exchanges : WF_vars(Handle(x))

FairSpec == Spec /\ Fairness

-----------------------------------------------------------------------------
LineType ==
    [id : Exchanges, try : 1..2, stream : BOOLEAN, status : Statuses,
     outcome : Outcomes, usage : BOOLEAN, measured : BOOLEAN]

TypeOK ==
    /\ capture \subseteq LineType
    /\ journal \subseteq [id : Exchanges, try : 1..2]
    /\ {captureTorn, journalTorn, journalErr, up} \subseteq BOOLEAN
    /\ step \in [Exchanges -> Steps]
    /\ large \in [Exchanges -> BOOLEAN]
    /\ forwarded \in [Exchanges -> BOOLEAN]
    /\ status \in [Exchanges -> Statuses]
    /\ sent \in [Exchanges -> SUBSET Marks]
    /\ noted \in [Exchanges -> SUBSET Marks]
    /\ overran \in [Exchanges -> BOOLEAN]
    /\ tries \in [Exchanges -> 0..2]

Entries(x) == {e \in capture \cup journal : e.id = x}

(* An exchange that ended, other than by a response that broke off, has     *)
(* exactly one line in the capture or in the journal, whichever of its end, *)
(* its close and its failure came first, and whatever failed to be written; *)
(* one that never went upstream, or still waits, has none.                  *)
AccountedOnce ==
    ~JournalMayFail =>
        \A x \in Exchanges :
            /\ step[x] = "done" => \E e \in Entries(x) : Entries(x) = {e}
            /\ step[x] \in {"new", "refused", "waiting", "reading", "streaming",
                            "closing"} => Entries(x) = {}

(* The line of a stream tells what the client was sent, to the last frame:  *)
(* usage only if it was sent, a whole Anthropic message only if its last    *)
(* event was; and both whenever they were, unless the observer overran.     *)
StreamRecordIsWhole ==
    \A r \in capture : r.stream =>
        LET s == sent[r.id] IN
        /\ r.usage => "usage" \in s
        /\ RequiresTerminal /\ r.outcome = "upstream_ok" => "terminal" \in s
        /\ ~overran[r.id] =>
              /\ "usage" \in s => r.usage
              /\ "terminal" \in s => r.outcome = "upstream_ok"

(* An exchange that went upstream is accounted for in the end, or lost to   *)
(* a crash, provided providers and clients end their side of it.            *)
Pending(x) == step[x] \in {"waiting", "reading", "streaming"}

AccountedInTheEnd ==
    (\A x \in Exchanges : []<>~Pending(x)) =>
        \A x \in Exchanges :
            step[x] = "waiting" ~> Entries(x) # {} \/ step[x] = "lost"

(* Every exchange is recorded exactly once.                                 *)
RecordedOnce ==
    \A x \in Exchanges : step[x] \in {"done", "aborted"} =>
        \E e \in Entries(x) : Entries(x) = {e}

(* An exchange the provider answered with an HTTP error is not recorded as  *)
(* one that went well.                                                      *)
HttpErrorIsNoSuccess ==
    \A r \in capture : r.status = "error" => r.outcome # "upstream_ok"

(* When the body was sent to its end, its measured size replaces the        *)
(* declared one in the record.                                              *)
MeasuredOnceForwarded ==
    [][\A r \in capture' \ capture : forwarded[r.id] => r.measured]_vars
=============================================================================
