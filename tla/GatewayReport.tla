---------------------------- MODULE GatewayReport ----------------------------
(***************************************************************************)
(* `tok gateway report` and `tok gateway remove --purge` beside the daemon *)
(* that records the exchanges.  Each is a process of its own, which opens  *)
(* the profile's files by their names and has a FileRecorder of its own:   *)
(* what the daemon's recorder keeps in memory, it does not see.            *)
(*                                                                         *)
(* A report reads the capture, then the journal, and then says whether its *)
(* account of the profile is complete.                                     *)
(***************************************************************************)
EXTENDS ExchangeCapture

VARIABLES
    reportStep,   \* how far the report is
    replayed,     \* the lines it read from the capture
    due,          \* the exchanges that had ended when it read them
    verdict,      \* what it says of the account
    purging,      \* has a purge removed the capture and not yet the journal
    purged        \* the exchanges that had ended at the last purge

reportVars == <<reportStep, replayed, due, verdict>>
purgeVars == <<purging, purged>>
allVars == <<vars, reportVars, purgeVars>>

ReportInit ==
    /\ Init
    /\ reportStep = "idle"
    /\ replayed = {}
    /\ due = {}
    /\ verdict = "none"
    /\ purging = FALSE
    /\ purged = {}

Ended == {x \in Exchanges : step[x] = "done"}

(* Replay fails on a capture with a fragment in it, and the report with it. *)
ReplaysBoth ==
    /\ reportStep = "idle"
    /\ ~captureTorn
    /\ reportStep' = "replayed"
    /\ replayed' = capture \cup journal
    /\ due' = Ended
    /\ UNCHANGED <<vars, verdict, purgeVars>>

ReplayCapture ==
    /\ reportStep = "idle"
    /\ ~captureTorn
    /\ reportStep' = "replayed"
    /\ replayed' = capture
    /\ due' = Ended
    /\ UNCHANGED <<vars, verdict, purgeVars>>

ReplayFails ==
    /\ reportStep = "idle"
    /\ captureTorn
    /\ reportStep' = "told"
    /\ verdict' = "error"
    /\ UNCHANGED <<vars, replayed, due, purgeVars>>

(* RecorderFailures and AccountProfile: the account is complete if every    *)
(* model call has its usage, none is a truncated stream, and the journal    *)
(* has no entry.                                                            *)
IgnoresFailures(lines, failures) ==
    IF \A r \in lines : r.usage /\ r.outcome # "stream_truncated"
      THEN "complete" ELSE "partial"

AccountProfile(lines, failures) ==
    IF /\ \A r \in lines : r.usage /\ r.outcome # "stream_truncated"
       /\ failures = {}
      THEN "complete" ELSE "partial"

Account ==
    /\ reportStep = "replayed"
    /\ reportStep' = "told"
    /\ verdict' = AccountProfile(replayed, journal)
    /\ UNCHANGED <<vars, replayed, due, purgeVars>>

ReportAgain ==
    /\ reportStep = "told"
    /\ reportStep' = "idle"
    /\ replayed' = {}
    /\ due' = {}
    /\ verdict' = "none"
    /\ UNCHANGED <<vars, purgeVars>>

(* remove --purge comes after the stop of the daemon, and the next start is *)
(* taken to come after the purge.  Either file may resist removal: without  *)
(* the capture's, the journal's is not tried.                               *)
BeginPurge ==
    /\ ~up /\ ~purging
    /\ PurgeCapture
    /\ purging' = TRUE
    /\ purged' = Ended
    /\ UNCHANGED <<up, exchangeVars, reportVars>>

EndPurge ==
    /\ purging
    /\ purging' = FALSE
    /\ PurgeJournal
    /\ UNCHANGED <<up, exchangeVars, reportVars, purged>>

JournalResists ==
    /\ purging
    /\ purging' = FALSE
    /\ UNCHANGED <<vars, reportVars, purged>>

Capturing ==
    /\ up \/ ~purging
    /\ Next
    /\ UNCHANGED <<reportVars, purgeVars>>

ReportNext ==
    \/ Capturing
    \/ ReplayCapture \/ ReplayFails \/ Account \/ ReportAgain
    \/ BeginPurge \/ EndPurge \/ JournalResists

ReportSpec == ReportInit /\ [][ReportNext]_allVars

-----------------------------------------------------------------------------
ReportTypeOK ==
    /\ TypeOK
    /\ reportStep \in {"idle", "replayed", "told"}
    /\ replayed \subseteq LineType
    /\ due \subseteq Exchanges
    /\ purged \subseteq Exchanges
    /\ verdict \in {"none", "error", "partial", "complete"}
    /\ purging \in BOOLEAN

(* A report that calls its account complete has read the line of every      *)
(* exchange that had ended when it began, those purged apart, and the line  *)
(* has its usage; also with exchanges ending and failing to be recorded     *)
(* between the report's two reads.                                          *)
CompleteIsComplete ==
    verdict = "complete" =>
        \A x \in due \ purged : \E r \in replayed : r.id = x /\ r.usage
=============================================================================
