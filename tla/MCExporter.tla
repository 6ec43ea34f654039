------------------------------ MODULE MCExporter ------------------------------
(***************************************************************************)
(* Exporter for TLC: one collection, two overlapping scrapers and two or   *)
(* three checks, enough for a scrape to be overtaken by another that saw a *)
(* newer report.                                                           *)
(***************************************************************************)
EXTENDS Exporter, TLC

CONSTANTS c1, s1, s2

ScraperAndCollectionSymmetry == Permutations(Collections) \cup Permutations(Scrapers)
===============================================================================
