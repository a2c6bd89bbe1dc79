------------------------------- MODULE MCJoin -------------------------------
(* Two threads at the start and one they may create, on two system threads. *)
EXTENDS Join
CONSTANTS a, b, c
MCCreated == <<a, b>>
=============================================================================
