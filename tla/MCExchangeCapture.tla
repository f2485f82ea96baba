------------------------- MODULE MCExchangeCapture -------------------------
(* ExchangeCapture on small instances.                                     *)
EXTENDS ExchangeCapture, TLC

(* Exchanges are told apart by their identifiers alone.                    *)
Interchangeable == Permutations(Exchanges)
============================================================================
