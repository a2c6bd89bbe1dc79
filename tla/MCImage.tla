------------------------------- MODULE MCImage -------------------------------
(* The directories that the generator writes, of up to three entries, on an  *)
(* image of ten blocks of four bytes.                                        *)
EXTENDS Image

(* The host: files of up to three blocks, names of up to three characters, of *)
(* up to three bytes (' continues a character), where two bytes fit in an    *)
(* inode, and what is neither a file nor a directory.                         *)
HostFile(name, size) == [name |-> name, kind |-> "file", size |-> size]
HostDir(name, entries) == [name |-> name, kind |-> "dir", size |-> 0, entries |-> entries]
HostOther(kind) == [name |-> <<"x">>, kind |-> kind, size |-> 1]

Listings(entries, n) ==
  {q \in BoundedSeq(entries, n) : \A i, j \in DOMAIN q : q[i].name = q[j].name => i = j}

InnerEntries == {HostFile(<<"a">>, 5), HostFile(<<"b">>, 3), HostDir(<<"d">>, <<>>)}
MCEntries ==
  {HostFile(<<"a">>, 0), HostFile(<<"a">>, 5), HostFile(<<"b">>, 9), HostFile(<<"e", "'">>, 4),
   HostFile(<<"c", "c", "c">>, 1), HostFile(<<"e", "'", "'">>, 4), HostOther("symlink"), HostOther("other")}
  \cup {HostDir(<<"d">>, q) : q \in Listings(InnerEntries \cup {HostOther("symlink")}, 2)}
  \cup {HostDir(<<"d", "d">>, q) : q \in Listings(InnerEntries, 1)}

MCHosts == {HostDir(<<"root">>, q) : q \in Listings(MCEntries, 3)}

MCHostEntries == MCHosts \cup MCEntries \cup InnerEntries

MCHostPaths ==
  BoundedSeq({<<"a">>, <<"b">>, <<"e", "'">>, <<"d">>, <<"d", "d">>, <<"x">>,
              <<"e", "'", "'">>}, 2)
=============================================================================
