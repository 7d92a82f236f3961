--------------------------- MODULE MCExperimentsDE -----------------------------
(* Small sessions: one or two architectures, a small pool and the base pool, *)
(* one or two gate rates.                                                    *)
EXTENDS ExperimentsDE

CONSTANTS p20, p500

OneGateRate  == <<640>>
TwoGateRates == <<640, 700>>
=============================================================================
