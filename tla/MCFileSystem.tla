---------------------------- MODULE MCFileSystem ----------------------------
(* An image of ten blocks of four bytes: the root directory has a directory with
   a file of nine bytes, in three blocks that are not in order, a file of one
   block and an empty file.  Two files can be open. *)
EXTENDS FileSystem

File(name, size, offsets) ==
  [name |-> name, is_directory |-> FALSE, size |-> size,
   data_block_offsets |-> [n \in 0 .. 2 |-> IF n < Len(offsets) THEN offsets[n + 1] ELSE 0]]

Directory(name, children) ==
  [name |-> name, is_directory |-> TRUE, children |-> children]

MCInode ==
  [root |-> Directory(<<"root">>, <<"dir", "block", "empty">>),
   dir |-> Directory(<<"d">>, <<"long">>),
   long |-> File(<<"l">>, 9, <<20, 12, 28>>),
   block |-> File(<<"b">>, 4, <<16>>),
   empty |-> File(<<"e">>, 0, <<>>)]

MCPaths == {[n \in DOMAIN p |-> <<p[n]>>] :
             p \in {<<>>, <<"d">>, <<"d", "l">>, <<"b">>, <<"e">>, <<"b", "l">>, <<"l">>}}
=============================================================================
