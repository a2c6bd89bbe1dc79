-------------------------------- MODULE Null --------------------------------
(* The null pointer of C, which the modules of labs 1 and 3 share, and lab   *)
(* 2's mutex without an owner.                                               *)
CONSTANT NULL
=============================================================================
