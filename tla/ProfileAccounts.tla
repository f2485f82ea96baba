---------------------------- MODULE ProfileAccounts ----------------------------
(***************************************************************************)
(* `tok gateway report` of a profile: its requests by kind and outcome,    *)
(* what its model calls used, in chains and outside, and whether that is   *)
(* all of it (internal/gateway/profile_accounting.go).  What the two files *)
(* it reads may hold, and when, is GatewayReport's.                        *)
(***************************************************************************)
EXTENDS RequestChains

RequestOutcomes == {"upstream_ok", "upstream_http_error", "transport_failure",
                    "client_canceled", "stream_truncated"}

\* Mutant: a call that nothing went on from is in no chain.
InLongChains(built) ==
    UNION {{built.chains[i].calls[j].id : j \in DOMAIN built.chains[i].calls} :
             i \in {i \in DOMAIN built.chains : Len(built.chains[i].calls) > 1}}

InChains(built) ==
    UNION {{built.chains[i].calls[j].id : j \in DOMAIN built.chains[i].calls} :
             i \in DOMAIN built.chains}

\* The exchanges whose usage is read are those of the endpoint and the method, the
\* requests that are counted those that were recorded as the model's.
Accounted(exchanges, chained) ==
    AccountOf([i \in {i \in DOMAIN exchanges : /\ IsChainModelCall(exchanges[i])
                                               /\ exchanges[i].id \in chained} |->
                 exchanges[i].usage])

\* Mutant: any usage is the whole of a call's usage.
FinalizedByCalls(account, requests) ==
    [account |-> account, requests |-> requests, complete |-> account.observed >= requests]

\* finalizeAggregate: every request reported, its fresh input and its output too.
Finalized(account, requests) ==
    [account |-> account, requests |-> requests,
     complete |-> \/ requests = 0
                  \/ /\ account.observed >= requests
                     /\ account.count["freshInput"] >= requests
                     /\ account.count["output"] >= requests]

AccountProfile(exchanges, failures) ==
    LET built == Build(exchanges)
        all == {exchanges[i].id : i \in DOMAIN exchanges}
        chained == InChains(built)
        count(Test(_)) == Cardinality({i \in DOMAIN exchanges : Test(exchanges[i])})
        ofKind(k) == count(LAMBDA x : x.kind = k)
        models == ofKind("model")
        inChains == count(LAMBDA x : x.kind = "model" /\ x.id \in chained)
        outcome(o) == count(LAMBDA x : x.outcome = o)
        observed == Finalized(Accounted(exchanges, all), models)
        ofChains == Finalized(Accounted(exchanges, chained), inChains)
        outside == Finalized(Accounted(exchanges, all \ chained), models - inChains)
        whole == observed.complete /\ ofChains.complete /\ outside.complete
    IN  [http |-> Len(exchanges), kinds |-> [k \in {"model", "non_model", ""} |-> ofKind(k)],
         outcomes |-> [o \in RequestOutcomes |-> outcome(o)],
         usageObserved |-> count(LAMBDA x : IsChainModelCall(x) /\ HasUsage(x.usage)),
         observed |-> observed, chained |-> ofChains, uncorrelated |-> outside,
         completeness |-> IF whole /\ failures = 0 /\ outcome("stream_truncated") = 0
                          THEN "complete" ELSE "partial"]

------------------------------------------------------------------------------
(* What `tok inspect` matches of the same exchange (observation.go).  A    *)
(* call for the model only is projected.                                   *)

ObservationOutcome(outcome) ==
    CASE outcome = "upstream_ok" -> "succeeded"
      [] outcome = "upstream_http_error" -> "provider_error"
      [] outcome = "client_canceled" -> "canceled"
      [] outcome = "stream_truncated" -> "truncated"
      [] outcome = "transport_failure" -> outcome
      [] OTHER -> "unknown"

\* A call that failed has no usage to wait for.
CallCompleteness(outcome, usage) ==
    CASE outcome = "stream_truncated" -> "partial"
      [] outcome \in {"upstream_http_error", "transport_failure", "client_canceled"} -> "complete"
      [] outcome = "upstream_ok" -> IF AnswerIsWhole(usage) THEN "complete" ELSE "partial"
      [] OTHER -> "unknown"

ObservationFromExchange(x) ==
    [id |-> x.id, side |-> "gateway", started |-> x.started, finished |-> 0, model |-> x.model,
     identity |-> "exchangeId" :> x.id @@ "responseObjectId" :> x.object
                  @@ "parentResponseObjectId" :> x.metadata.previous,
     usage |-> ObservationUsage(x.usage), outcome |-> ObservationOutcome(x.outcome),
     completeness |-> CallCompleteness(x.outcome, x.usage)]
===============================================================================
