------------------------------ MODULE MCParts ------------------------------
(* The instances of the parts: a heap of six chunks of four bytes, or of 24   *)
(* bytes with headers and an alignment of two bytes; three threads under a    *)
(* policy; the directories of MCImage, the files of MCFileSystem, the lines   *)
(* of MCShell; trees of up to three levels; three system threads.             *)
EXTENDS Parts, MCFileSystem, MCImage, MCShell

(* The sets of nodes that fork, in a tree of three levels and their leaves.   *)
MCTrees == {t \in SUBSET (0..6) : \A i \in t : i = 0 \/ (i - 1) \div 2 \in t}
=============================================================================
