----------------------------- MODULE MCRefreshLoop -----------------------------
(***************************************************************************)
(* RefreshLoop for TLC: one database with one collection in each of the    *)
(* three scopes, and two instants, the last of which stands for all later  *)
(* ones: enough for a timer to start, an alert to be due and the Milvus    *)
(* state to change under the check.                                        *)
(***************************************************************************)
EXTENDS RefreshLoop, TLC

CONSTANTS c1, d1

MCDatabaseOf == [c \in Collections |-> d1]
MCServerStates == {LoadStateLoading, LoadStateLoaded}
MCReportedStates == MCServerStates \cup {LoadStateUnset}
===============================================================================
