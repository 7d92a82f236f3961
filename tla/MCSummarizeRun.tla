---------------------------- MODULE MCSummarizeRun -----------------------------
(* A short run, all of whose seconds may be low or not, with any VU samples. *)
EXTENDS SummarizeRun
=============================================================================
