---- MODULE MCAsyncMetrics ----
(* TLC instance of AsyncMetrics: two threads record three metrics. *)
EXTENDS AsyncMetrics
====
