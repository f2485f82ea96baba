--------------------------- MODULE SessionInspection ---------------------------
(***************************************************************************)
(* `tok inspect` (internal/app/inspect.go): a session's turns are held     *)
(* against what the gateway recorded of the profiles that may have served  *)
(* it, capture file by capture file, and the pairs are reported.           *)
(***************************************************************************)
EXTENDS Matching, TLC

CONSTANTS
    TurnPool,        \* turn observations a transcript may project
    ExchangePool,    \* exchanges a capture may hold, see Exchange
    Captures,        \* capture profiles that may be selected
    OwnCapture,      \* the one that has the source's name, which always is
    SessionTimes,    \* times a session may have beside its turns'
    MatchWindow,     \* match.DefaultTimeWindow
    InspectTurns,    \* bounds the turns of a session
    InspectExchanges \* bounds the exchanges read

ASSUME MatchWindowAssumption == MatchWindow \in Nat \ {0}

\* A projected observation has a name, and measures that are numbers.
Projected(o, side) ==
    /\ o.side = side /\ o.id # "" /\ o.started \in Nat
    /\ \A f \in UsageFields : o.usage[f].has \in BOOLEAN /\ o.usage[f].value \in Int

\* The names of the two sides begin in two ways (claude:, codex: and gateway:).
ASSUME PoolsAssumption ==
    /\ \A t \in TurnPool : Projected(t, "transcript")
    /\ \A x \in ExchangePool : Projected(x.observation, "gateway")
    /\ \A t \in TurnPool, x \in ExchangePool : t.id # x.observation.id

ASSUME TimesAssumption == IsFiniteSet(SessionTimes) /\ SessionTimes \subseteq Nat \ {0}

\* `stage` holds the capture that is open, or where the gathering has got to.
ASSUME CapturesAssumption ==
    /\ Captures \cap {"turns", "captures", "done", "error"} = {}
    /\ \A x \in ExchangePool : x.profile \in Captures

VARIABLE inspect     \* what reconcileSession has gathered, and its result

\* An exchange is recorded under a profile, with the request kind it was given;
\* `fails` where it cannot be projected or a line of the file cannot be read.
Exchange(x) == DOMAIN x = {"profile", "kind", "fails", "observation"}

\* `times` is what the window is made of; `held` is not in the code: it is what the
\* captures were found to hold, read or passed over.
InspectInit ==
    inspect = [stage |-> "turns", turns |-> <<>>, times |-> {}, profiles |-> {},
               found |-> FALSE, failed |-> FALSE, held |-> {}, read |-> <<>>, reason |-> "",
               report |-> <<>>]

Fail == inspect' = [inspect EXCEPT !.stage = "error"]

\* The projector projects the session itself first, and refuses one without a name,
\* as a transcript has whose file is called ".jsonl".
SessionRefused ==
    /\ inspect.stage = "turns" /\ inspect.turns = <<>>
    /\ Fail

RefusedTurn(o) ==
    \/ ~ ValidObservation(o)
    \/ \E i \in DOMAIN inspect.turns : inspect.turns[i].id = o.id

ProjectionFails(o) ==
    /\ inspect.stage = "turns" /\ RefusedTurn(o)
    /\ Fail

ProjectTurn(o) ==
    /\ inspect.stage = "turns" /\ Len(inspect.turns) < InspectTurns
    /\ ~ RefusedTurn(o)
    /\ inspect' = [inspect EXCEPT !.turns = Append(@, o)]

\* sessionObservationWindow: the session began, was updated (or its file was), and its
\* turns began.
TimesWith(own) == own \cup ({inspect.turns[i].started : i \in DOMAIN inspect.turns} \ {0})

\* Mutant: an exchange at the very edge of the window is outside.
InsideWindow(o) ==
    /\ o.started > 0
    /\ Min(inspect.times) - MatchWindow < o.started
    /\ o.started < Max(inspect.times) + MatchWindow

WithinWindow(o) ==
    /\ o.started > 0
    /\ Min(inspect.times) - MatchWindow <= o.started
    /\ o.started <= Max(inspect.times) + MatchWindow

NoTimes ==
    /\ inspect.stage = "turns" /\ TimesWith({}) = {}
    /\ inspect' = [inspect EXCEPT !.stage = "done",
                                  !.reason = "session has no reliable timestamp"]

\* The configuration is loaded for the profiles, and does not load.
ConfigFails ==
    /\ inspect.stage = "turns" /\ \E own \in SUBSET SessionTimes : TimesWith(own) # {}
    /\ Fail

\* The profiles that are enabled and name the source, and the source itself.
SelectProfiles(own, ps) ==
    /\ inspect.stage = "turns" /\ TimesWith(own) # {}
    /\ inspect' = [inspect EXCEPT !.stage = "captures", !.times = TimesWith(own),
                                  !.profiles = ps]

\* CaptureExists, ListExchanges: the profile has a capture, has none, or has one
\* that cannot be read; the rest are read all the same.
OpenCapture(p) ==
    /\ inspect.stage = "captures" /\ p \in inspect.profiles
    /\ \/ inspect' = [inspect EXCEPT !.profiles = @ \ {p}]
       \/ inspect' = [inspect EXCEPT !.profiles = @ \ {p}, !.failed = TRUE]
       \/ inspect' = [inspect EXCEPT !.found = TRUE, !.stage = p]

\* What has no observation, or one that Validate refuses.
Unprojectable(x) == x.fails \/ ~ ValidObservation(x.observation)

\* Only the model's exchanges are looked at.
ReadExchange(x) ==
    /\ inspect.stage = x.profile /\ Len(inspect.read) < InspectExchanges
    /\ inspect' =
         IF x.kind # "model" THEN inspect
         ELSE [inspect EXCEPT
                 !.held = @ \cup {x},
                 !.failed = @ \/ Unprojectable(x),
                 !.read = IF ~ Unprojectable(x) /\ WithinWindow(x.observation)
                          THEN Append(@, x.observation) ELSE @]

CloseCapture ==
    /\ inspect.stage \in Captures
    /\ inspect' = [inspect EXCEPT !.stage = "captures", !.profiles = @ \ {inspect.stage}]

\* Any capture that could not be read makes the whole of it unavailable.
Unreconciled ==
    /\ inspect.stage = "captures" /\ inspect.profiles = {}
    /\ inspect.failed \/ ~ inspect.found
    /\ inspect' = [inspect EXCEPT !.stage = "done",
                     !.reason = IF inspect.failed THEN "gateway capture could not be read"
                                ELSE "gateway capture not available"]

Gathered == inspect.turns \o inspect.read
Observed == {Gathered[i] : i \in DOMAIN Gathered}

\* validateObservations: valid ones, each under a name of its own.
Matchable ==
    /\ \A i \in DOMAIN Gathered : ValidObservation(Gathered[i])
    /\ \A i, j \in DOMAIN Gathered : Gathered[i].id = Gathered[j].id => i = j

ReportFails ==
    /\ inspect.stage = "captures" /\ inspect.profiles = {}
    /\ ~ inspect.failed /\ inspect.found /\ ~ Matchable
    /\ Fail

Report ==
    /\ inspect.stage = "captures" /\ inspect.profiles = {}
    /\ ~ inspect.failed /\ inspect.found /\ Matchable
    /\ inspect' = [inspect EXCEPT !.stage = "done", !.report = <<BuildReport(Observed, MatchWindow)>>]

InspectNext ==
    \/ SessionRefused
    \/ \E o \in TurnPool : ProjectTurn(o) \/ ProjectionFails(o)
    \/ NoTimes \/ ConfigFails
    \/ \E own \in SUBSET SessionTimes, ps \in SUBSET Captures :
         SelectProfiles(own, ps \cup {OwnCapture})
    \/ \E p \in Captures : OpenCapture(p)
    \/ \E x \in ExchangePool : ReadExchange(x)
    \/ CloseCapture \/ Unreconciled \/ ReportFails \/ Report

InspectSpec == InspectInit /\ [][InspectNext]_inspect

\* What each turn is shown with: a match first, then unmatched, then ambiguous.
TurnReconciliations(report) ==
    LET turns == {inspect.turns[i].id : i \in DOMAIN inspect.turns}
        ofStatus(t, status) ==
            \E m \in report.matches : m.status = status /\ (m.transcript = t \/ t \in m.candidates)
    IN  [t \in {t \in turns : \E s \in {"matched", "unmatched", "ambiguous"} : ofStatus(t, s)} |->
            CASE \E r \in report.results : r.transcript = t -> "matched"
              [] ofStatus(t, "unmatched") -> "unmatched"
              [] OTHER -> "ambiguous"]

------------------------------------------------------------------------------
(* Properties. *)

Reported == {inspect.report[i] : i \in DOMAIN inspect.report}

\* docs/reconciliation-observation.md: "Matching is one-to-one and independent of
\* input order".  Whatever order choosePreference's map comes in, each request has
\* one result, each turn at most one request, a match is mutual and no better
\* partner exists for either side, and a turn nobody took is reported or listed.
MatchingIsMutual ==
    \A report \in Reported :
        LET ms == report.matches
            taken == {m \in ms : m.status = "matched"}
            better(a, b, c) == /\ Relation(a, c, MatchWindow) = Relation(a, b, MatchWindow)
                               /\ ~ Better(Score(a, b), Score(a, c))
        IN  /\ \A o \in Observed :
                 LET others == {c \in Observed : c.side # o.side} IN
                 \A order \in SetToSeqs(Related(o, others, MatchWindow)) :
                    PreferenceInOrder(o, order, MatchWindow) = Preference(o, others, MatchWindow)
            /\ \A g \in Requests(Observed) : Cardinality({m \in ms : m.gateway = g.id}) = 1
            /\ \A t \in Turns(Observed) :
                 /\ Cardinality({m \in taken : m.transcript = t.id}) <= 1
                 /\ \E m \in ms : m.transcript = t.id \/ t.id \in m.candidates
            /\ \A m \in taken :
                 LET g == Named(Observed, m.gateway)
                     t == Named(Observed, m.transcript)
                 IN  /\ \A c \in Turns(Observed) \ {t} : ~ better(g, t, c)
                     /\ \A c \in Requests(Observed) \ {g} : ~ better(t, g, c)

\* The report's counters satisfy what docs/reconciliation-observation.md states of
\* them, every pair that is reported can be reconciled, no difference is made up
\* where a side is silent, and every turn of the session is shown with one status.
ReportAddsUp ==
    \A report \in Reported :
        /\ report.matched = Cardinality(report.results)
        /\ report.matched = report.equal + report.different + report.unavailable
        /\ report.requests = report.matched + report.ambiguousGateways + report.unmatchedGateways
        /\ \A m \in {m \in report.matches : m.status = "matched"} : ValidPair(m, Observed)
        /\ \A r \in report.results : \A f \in UsageFields :
             /\ Available(r.delta[f]) <=> r.fields[f] # "unavailable"
             /\ r.delta[f].value = 0 <=> r.fields[f] # "different"
        /\ DOMAIN TurnReconciliations(report) = {t.id : t \in Turns(Observed)}
        /\ Cardinality({t \in DOMAIN TurnReconciliations(report) :
                          TurnReconciliations(report)[t] = "unmatched"}) = report.unmatchedTranscripts

\* "keeps only exchanges inside the session's time window, and passes the combined slice
\* to the matcher" (docs/architecture.md:209): inspect cuts the captures to one window,
\* and the matcher has another for each pair.  A report is what the matcher would make of
\* everything that the captures hold, with what was cut off as unmatched: no turn is shown
\* unmatched because its request was cut off or could not be read.  Only an identity that
\* the two sides share reaches further than the window.
ReportMissesNoMatch ==
    \A report \in Reported :
        LET requests == {x.observation : x \in inspect.held}
            cut == {g \in requests \ Observed : \A t \in Turns(Observed) : ~ SharesIdentity(g, t)}
        IN  /\ \A x \in inspect.held : ~ Unprojectable(x)
            /\ Match(Observed \cup cut, MatchWindow) =
                 report.matches \cup
                 {[gateway |-> g.id, transcript |-> "", status |-> "unmatched", candidates |-> {},
                   confidence |-> ""] : g \in cut}
===============================================================================
