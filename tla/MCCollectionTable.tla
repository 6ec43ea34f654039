--------------------------- MODULE MCCollectionTable ---------------------------
(***************************************************************************)
(* CollectionTable for TLC: up to four collections on pages of one or two, *)
(* with a window of three page buttons, so that a list can be longer than  *)
(* the window.                                                             *)
(***************************************************************************)
EXTENDS CollectionTable
===============================================================================
