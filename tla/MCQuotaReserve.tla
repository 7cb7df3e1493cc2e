--------------------------- MODULE MCQuotaReserve ---------------------------
(* Instances of QuotaReserve for TLC.                                      *)
EXTENDS QuotaReserve

\* Redis and batch updates are configured independently.
EveryMode == [redis : BOOLEAN, batch : BOOLEAN]
=============================================================================
