------------------------------- MODULE MCShell -------------------------------
(* Commands of up to three words, with assignments and with references to two *)
(* of three variables, and one that is longer than the buffer.  A value of    *)
(* two words moves what is behind it by three characters; the buffer has 12.  *)
EXTENDS Shell

w == Word("w", 2)
x == Reference("x", 1)
y == Reference("y", 1)
bark == Word("bark", 4)

MCLines ==
  {<<>>, <<Word("exit", 4)>>, <<BadAssignment>>, <<x>>, <<bark, w, w, w>>}
  \cup {<<bark>> \o rest : rest \in BoundedSeq({w, x, y}, 2)}
  \cup {<<Assignment(n, 1, w)>> \o rest : n \in {"x", "y", "z"}, rest \in BoundedSeq({w, x}, 1)}
=============================================================================
