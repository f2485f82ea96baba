----------------------------- MODULE Observations -----------------------------
(***************************************************************************)
(* The canonical observation that every channel is projected to            *)
(* (internal/model/observation.go): the seven usage fields, how complete   *)
(* they are, and what Validate refuses.                                    *)
(***************************************************************************)
EXTENDS Measurements

UsageFields == {"freshInput", "cachedInput", "cacheCreation", "totalInput",
                "output", "reasoning", "total"}

NoUsage == [f \in UsageFields |-> NoMeasurement]

Outcomes == {"unknown", "succeeded", "provider_error", "transport_failure",
             "canceled", "truncated"}

Completeness == {"unknown", "partial", "complete"}

\* Observation.Validate, of what can differ: a name, the times in order, and
\* measurements whose kind and value go together.
ValidObservation(o) ==
    /\ o.outcome \in Outcomes
    /\ o.completeness \in Completeness
    /\ ~ (0 < o.finished /\ o.finished < o.started)
    /\ \A f \in UsageFields : ValidMeasurement(o.usage[f])

\* Nothing recorded is unknown; a field of `needed` that is missing is partial.
ObservationCompleteness(usage, needed) ==
    CASE \A f \in UsageFields : usage[f].kind = "" -> "unknown"
      [] \A f \in needed : Available(usage[f]) -> "complete"
      [] OTHER -> "partial"
===============================================================================
