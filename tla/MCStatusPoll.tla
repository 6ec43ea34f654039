------------------------------ MODULE MCStatusPoll ------------------------------
(***************************************************************************)
(* StatusPoll for TLC: a server that checks every second and restarts      *)
(* once, and two request slots, so that a second request under way would   *)
(* show.                                                                   *)
(***************************************************************************)
EXTENDS StatusPoll
===============================================================================
