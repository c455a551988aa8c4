--------------------------- MODULE MCSharedTemplates ---------------------------
(* Two metrics, the first with two data points. *)
EXTENDS SharedTemplates

MCMetric == <<1, 1, 2>>
================================================================================
