--------------------------- MODULE MCMetricsService ---------------------------
(***************************************************************************)
(* MetricsService for TLC: three metrics of the catalogue, one of them     *)
(* with an overridden threshold, room for two queries at a time, so that   *)
(* one has to wait, and for one of two series.                             *)
(***************************************************************************)
EXTENDS MetricsService, TLC

MCDefinitions == {"milvus_up", "request_success_rate", "proxy_queue_tasks"}
MCKnownNames == {"up", "milvus_proxy"}
MCVariants ==
  [d \in MCDefinitions |-> IF d = "milvus_up" THEN <<{"up"}>> ELSE <<{"milvus_proxy"}>>]
MCThresholds ==
  "proxy_queue_tasks" :> [higherIsWorse |-> TRUE, warning |-> 1, critical |-> 95]
===============================================================================
