------------------------- MODULE MCServerAndSleep -------------------------
(***************************************************************************)
(* Every program of three commands on two keys and two values whose first  *)
(* command inserts value 1 under key 1 (a first DELETE or GET finds the    *)
(* list empty, and the names of keys and values do not matter).  Three     *)
(* system threads, so that two can be in sys_thread_sleep while the third  *)
(* still runs threads or decides; two threads are made RUNNABLE.           *)
(***************************************************************************)
EXTENDS ServerAndSleep

MCCommands == [op : {"INSERT"}, key : Keys, val : Vals]
              \cup [op : {"DELETE", "GET"}, key : Keys, val : {0}]

MCPrograms == {p \in [1..N -> MCCommands] : p[1] = [op |-> "INSERT", key |-> 1, val |-> 1]}
=============================================================================
