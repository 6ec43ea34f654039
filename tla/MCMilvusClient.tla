---------------------------- MODULE MCMilvusClient ----------------------------
(***************************************************************************)
(* MilvusClient for TLC: one collection name that two databases use, with  *)
(* an index each.                                                          *)
(***************************************************************************)
EXTENDS MilvusClient, TLC

CONSTANTS d1, d2, n1, i1

MCCollections == Databases \X Names
MCCodes == {"Loading", "Loaded", "Unloading"}
===============================================================================
