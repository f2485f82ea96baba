----------------------------- MODULE RecordReader -----------------------------
(***************************************************************************)
(* How both transcript readers split a file into records                   *)
(* (internal/source/jsonl.go): a buffer at a time, with a bound on the     *)
(* length of one record.                                                   *)
(***************************************************************************)
EXTENDS Integers, Sequences, SequencesExt

CONSTANTS
    Chunk,          \* bytes in the read buffer, 64 KiB
    Limit,          \* MaxRecordBytes, 64 MiB
    FileBytes       \* bound on the length of a file

ASSUME ReaderAssumption == Chunk \in Nat \ {0} /\ Limit \in Nat /\ FileBytes \in Nat

VARIABLES file, reader

\* All that matters of a byte is whether it ends a line.
Bytes == {"x", "\r", "\n"}

\* NewRecordReader.
Started(f) == [rest |-> f, buf |-> <<>>, line |-> 0, mode |-> "next", out |-> <<>>]

ReaderInit ==
    /\ file \in UNION {[1..n -> Bytes] : n \in 0..FileBytes}
    /\ reader = Started(file)

\* bufio.Reader.ReadSlice: up to and with the first newline, a full buffer without
\* one, or what is left of the file.
Slice ==
    LET newlines == {i \in DOMAIN reader.rest : reader.rest[i] = "\n"}
        upTo == IF newlines = {} THEN Len(reader.rest)
                ELSE CHOOSE i \in newlines : \A j \in newlines : i <= j
    IN  SubSeq(reader.rest, 1, IF upTo < Chunk THEN upTo ELSE Chunk)

\* ErrBufferFull is neither a newline nor the end of the file.
Terminated == Len(Slice) < Chunk \/ (Slice # <<>> /\ Last(Slice) = "\n")

Rest == SubSeq(reader.rest, Len(Slice) + 1, Len(reader.rest))

TrimRecordNewline(raw) ==
    SubSeq(raw, 1, SelectLastInSeq(raw, LAMBDA b : b \notin {"\n", "\r"}))

\* What Next returns: a line's number and its text, or that it is too long.
Returned(text, oversized, mode) ==
    reader' = [reader EXCEPT !.rest = Rest, !.buf = <<>>, !.mode = mode, !.line = @ + 1,
                             !.out = Append(@, [line |-> reader.line + 1, text |-> text,
                                                oversized |-> oversized])]

Buffered == reader.buf \o Slice

\* The buffer holds no end of a line yet.
ReadMore ==
    /\ reader.mode = "next" /\ ~Terminated /\ Len(Buffered) <= Limit
    /\ reader' = [reader EXCEPT !.rest = Rest, !.buf = Buffered]

ReadRecord ==
    /\ reader.mode = "next" /\ Terminated /\ Len(Buffered) <= Limit /\ Buffered # <<>>
    /\ Returned(TrimRecordNewline(Buffered), FALSE, "next")

\* The bound counts the newline.
ReadOversized ==
    /\ reader.mode = "next" /\ Terminated /\ Len(Buffered) > Limit
    /\ Returned(<<>>, TRUE, "next")

\* Mutant: what is left of a line that is too long is read as the next one.
BeginDiscardNothing ==
    /\ reader.mode = "next" /\ ~Terminated /\ Len(Buffered) > Limit
    /\ Returned(<<>>, TRUE, "next")

BeginDiscard ==
    /\ reader.mode = "next" /\ ~Terminated /\ Len(Buffered) > Limit
    /\ reader' = [reader EXCEPT !.rest = Rest, !.buf = <<>>, !.mode = "discard"]

\* The remainder is read and never kept.
DiscardMore ==
    /\ reader.mode = "discard" /\ ~Terminated
    /\ reader' = [reader EXCEPT !.rest = Rest]

EndDiscard ==
    /\ reader.mode = "discard" /\ Terminated
    /\ Returned(<<>>, TRUE, "next")

ReadEnd ==
    /\ reader.mode = "next" /\ Terminated /\ Buffered = <<>>
    /\ reader' = [reader EXCEPT !.mode = "eof"]

\* An error of the file itself ends the reading of a transcript.
ReadFails ==
    /\ reader.mode \in {"next", "discard"}
    /\ reader' = [reader EXCEPT !.mode = "failed"]

ReaderNext ==
    /\ \/ ReadMore \/ ReadRecord \/ ReadOversized
       \/ BeginDiscard \/ DiscardMore \/ EndDiscard
       \/ ReadEnd \/ ReadFails
    /\ UNCHANGED file

ReaderSpec == ReaderInit /\ [][ReaderNext]_<<file, reader>>

------------------------------------------------------------------------------
(* Property. *)

\* A line of a file ends with its newline, or with the file.
LineEnds(f) == {i \in DOMAIN f : f[i] = "\n" \/ i = Len(f)}

\* The line that ends at e begins where the one before it ended; and its number.
LineOf(f, e) == SubSeq(f, Max({0} \cup {i \in LineEnds(f) : i < e}) + 1, e)
NumberOf(f, e) == Cardinality({i \in LineEnds(f) : i <= e})

\* A line beyond the bound, or its text without what ends it.
IsRecordOf(record, line) ==
    /\ record.oversized <=> Len(line) > Limit
    /\ ~record.oversized =>
          /\ IsPrefix(record.text, line)
          /\ record.text # <<>> => Last(record.text) = "x"
          /\ \A i \in (Len(record.text) + 1)..Len(line) : line[i] # "x"

\* Wherever the read buffer happens to end, a reader returns the lines of the file in
\* order and under their own numbers, a line beyond the bound as one oversized record
\* and the lines after it unharmed, and it never keeps more than the bound and one
\* buffer (RecordReader.Next, discard).
RecordsAreTheLines ==
    /\ Len(reader.buf) <= Limit
    /\ reader.mode = "eof" => Len(reader.out) = Cardinality(LineEnds(file))
    /\ \A n \in DOMAIN reader.out :
         /\ reader.out[n].line = n
         /\ \E e \in LineEnds(file) :
              NumberOf(file, e) = n /\ IsRecordOf(reader.out[n], LineOf(file, e))
===============================================================================
