-------------------------------- MODULE MCCat --------------------------------
(* lab3_cat alone, on the image of MCFileSystem.                              *)
EXTENDS Cat, MCFileSystem
=============================================================================
