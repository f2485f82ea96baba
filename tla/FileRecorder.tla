---------------------------- MODULE FileRecorder ----------------------------
(***************************************************************************)
(* The files a profile's exchanges are recorded in: the capture, one line  *)
(* for every exchange, and the failure journal, one line for every         *)
(* exchange that could not be captured.  The daemon appends to both under  *)
(* FileRecorder.mu, so that one call of Record is one step; a health flag  *)
(* in the daemon's memory says that the journal itself could not be        *)
(* written.                                                                *)
(*                                                                         *)
(* A line is a record of the call that wrote it.  A write that stops short *)
(* leaves a fragment without a newline: it swallows the next line.  In the *)
(* capture it makes every later Replay fail; in the journal, whose reader  *)
(* skips what it cannot parse, only the swallowed line is missing.         *)
(***************************************************************************)

CONSTANT JournalMayFail   \* may the journal's file be unwritable

ASSUME JournalAssumption == JournalMayFail \in BOOLEAN

VARIABLES
    capture,       \* the lines of <profile>.jsonl
    captureTorn,   \* does it hold a fragment
    journal,       \* the lines of <profile>.failures.jsonl
    journalTorn,   \* does it end in a fragment
    journalErr     \* FileRecorder.journalErrs[profile], in the daemon's memory

recorderVars == <<capture, captureTorn, journal, journalTorn, journalErr>>

RecorderInit ==
    /\ capture = {}
    /\ captureTorn = FALSE
    /\ journal = {}
    /\ journalTorn = FALSE
    /\ journalErr = FALSE

(* appendFailureLocked: the entry is on its own line, or swallowed by the   *)
(* fragment before it, or cannot be written, which is noted in memory.      *)
JournalEntry(line) == [id |-> line.id, try |-> line.try]

Journal(line) ==
    \/ /\ journal' = IF journalTorn THEN journal
                                    ELSE journal \cup {JournalEntry(line)}
       /\ journalTorn' = FALSE
       /\ UNCHANGED journalErr
    \/ /\ JournalMayFail
       /\ journalErr' = TRUE
       /\ journalTorn' \in {journalTorn, TRUE}
       /\ UNCHANGED journal

(* FileRecorder.Record: the line is captured, or opening or encoding fails  *)
(* and the failure is journalled once.                                      *)
Record(line) ==
    \/ /\ capture' = capture \cup {line}
       /\ UNCHANGED <<captureTorn, journal, journalTorn, journalErr>>
    \/ /\ captureTorn' \in {captureTorn, TRUE}
       /\ Journal(line)
       /\ UNCHANGED capture

(* A new process has an empty journalErrs.                                  *)
Reopen ==
    /\ journalErr' = FALSE
    /\ UNCHANGED <<capture, captureTorn, journal, journalTorn>>

(* FileRecorder.Purge, by `tok gateway remove --purge`, in two steps: the   *)
(* journal is kept when the capture cannot be removed.                      *)
PurgeCapture ==
    /\ capture' = {}
    /\ captureTorn' = FALSE
    /\ UNCHANGED <<journal, journalTorn, journalErr>>

PurgeJournal ==
    /\ journal' = {}
    /\ journalTorn' = FALSE
    /\ UNCHANGED <<capture, captureTorn, journalErr>>
=============================================================================
