----------------------------- MODULE MCTrendPanels -----------------------------
(***************************************************************************)
(* TrendPanels for TLC: a category of two metrics and one of a single      *)
(* metric, three ranges, a search that matches all or one, and five loads, *)
(* so that a range can be left and chosen again while requests run.        *)
(***************************************************************************)
EXTENDS TrendPanels

CONSTANTS m1, m2, m3

MCCategoryOf == [m \in Metrics |-> IF m = m3 THEN "request" ELSE "overview"]
MCKeywords == {Metrics, {m1}}
===============================================================================
