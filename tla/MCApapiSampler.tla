--------------------------- MODULE MCApapiSampler ---------------------------
(* The instances of ApapiSampler that TLC checks.                          *)
EXTENDS ApapiSampler, TLC

CONSTANTS t1, t2, col1

TwoThreads == {t1, t2}
OneCollector == {col1}

NoFailure    == {}
EveryFailure  == ExternalCalls
=============================================================================
