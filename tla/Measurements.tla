----------------------------- MODULE Measurements -----------------------------
(***************************************************************************)
(* A count of tokens as `tok` keeps it: a value that may be absent, and    *)
(* how it came about (internal/model/model.go, context.go).  Absent is not *)
(* zero: every sum and difference below keeps the two apart.               *)
(***************************************************************************)
EXTENDS Integers, Sequences, SequencesExt

\* The same function, that TLC evaluates once and not at each use.
Strict(f) == CHOOSE g \in {f} : g = f

\* The same sequence, that TLC evaluates once and not at each use.
StrictSequence(s) == s \o <<>>

Kinds == {"", "measured", "derived", "counted", "estimated", "unknown"}

\* `has` is whether the Go pointer Value is set; value is 0 where it is not,
\* which is ValueOrZero.
Measured(v, k) == [kind |-> k, has |-> TRUE, value |-> v]
NoMeasurement == [kind |-> "", has |-> FALSE, value |-> 0]
Unknown == [kind |-> "unknown", has |-> FALSE, value |-> 0]

Available(m) == m.has /\ m.kind \notin {"", "unknown"}

Authoritative(m) == Available(m) /\ m.kind \in {"measured", "derived", "counted"}

\* What is available is added, the rest left out; nothing available is no sum.
SumMeasurements(ms) ==
    LET known == {i \in DOMAIN ms : Available(ms[i])}
    IN  IF known = {} THEN NoMeasurement
        ELSE Measured(SumFunctionOnSet([i \in known |-> ms[i].value], known), "derived")

WeakerKind(a, b) ==
    CASE "estimated" \in {a, b} -> "estimated"
      [] "unknown" \in {a, b} -> "unknown"
      [] "derived" \in {a, b} -> "derived"
      [] "counted" \in {a, b} -> "counted"
      [] OTHER -> "measured"

Subtract(left, right) ==
    IF Available(left) /\ Available(right)
    THEN Measured(left.value - right.value, WeakerKind(left.kind, right.kind))
    ELSE Unknown

\* A value needs a kind that can be used, and such a kind needs a value.
ValidMeasurement(m) ==
    /\ m.kind \in Kinds
    /\ m.has <=> m.kind \notin {"", "unknown"}
===============================================================================
