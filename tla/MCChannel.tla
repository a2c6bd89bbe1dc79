------------------------------ MODULE MCChannel ------------------------------
(* Two senders and two receivers on two system threads. *)
EXTENDS Channel, TLC
CONSTANTS a, b, c, d
MCCreated == <<a, c, b, d>>
=============================================================================
