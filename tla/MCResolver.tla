----------------------------- MODULE MCResolver -----------------------------
(* Instances of Resolver for TLC; the constants are given by the .cfg files. *)
EXTENDS Resolver
=============================================================================
