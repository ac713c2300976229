------------------------------ MODULE MCRouter ------------------------------
(* Router for TLC; the constants are given by the .cfg file. *)
EXTENDS Router
=============================================================================
