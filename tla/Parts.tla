-------------------------------- MODULE Parts --------------------------------
(***************************************************************************)
(* The self-contained parts of the labs side by side, for one run of TLC:  *)
(* they share no state, a behaviour is a behaviour of one of them, and the *)
(* others keep one of their initial states.                                *)
(***************************************************************************)
EXTENDS Malloc, Policies, Image, Cat, Shell, ForkTree, LockOrder

VARIABLE part

fileVars == <<vars, catVars>>

(* Initial states of the parts that do not move.                             *)
MallocRests == l1_malloc = "list" /\ MallocInit
PoliciesRest == select_next = "mlfq" /\ created = 1 /\ PolicyInit({"mlfq"})
ImageRests == ImageInit({[name |-> <<>>, kind |-> "dir", size |-> 0, entries |-> <<>>]}, {1})
CatRests == path = CHOOSE p \in Paths : TRUE
ForkRests == function = "bork" /\ tree = {} /\ ForkInit

PartsInit ==
  /\ part \in {"malloc", "policies", "image", "files", "cat", "shell", "fork", "locks"}
  /\ IF part = "malloc" THEN MallocInit ELSE MallocRests
  /\ IF part = "policies" THEN PolicyInit({"round_robin", "smallest_cycles", "mlfq"})
                          ELSE PoliciesRest
  /\ IF part = "image" THEN ImageInit(Hosts, InodeBlocks) ELSE ImageRests
  /\ part # "cat" => CatRests
  /\ CatInit
  /\ ShellInit
  /\ IF part = "fork" THEN ForkInit ELSE ForkRests
  /\ LockInit

PartsNext ==
  /\ UNCHANGED part
  /\ \/ /\ part = "malloc" /\ MallocNext
        /\ UNCHANGED <<policyVars, imageVars, fileVars, shellVars, forkVars, lockVars>>
     \/ /\ part = "policies" /\ PolicyNext
        /\ UNCHANGED <<mallocVars, imageVars, fileVars, shellVars, forkVars, lockVars>>
     \/ /\ part = "image" /\ ImageNext
        /\ UNCHANGED <<mallocVars, policyVars, fileVars, shellVars, forkVars, lockVars>>
     \/ /\ part = "files" /\ Next /\ UNCHANGED catVars
        /\ UNCHANGED <<mallocVars, policyVars, imageVars, shellVars, forkVars, lockVars>>
     \/ /\ part = "cat" /\ CatNext
        /\ UNCHANGED <<mallocVars, policyVars, imageVars, shellVars, forkVars, lockVars>>
     \/ /\ part = "shell" /\ ShellNext
        /\ UNCHANGED <<mallocVars, policyVars, imageVars, fileVars, forkVars, lockVars>>
     \/ /\ part = "fork" /\ ForkNext
        /\ UNCHANGED <<mallocVars, policyVars, imageVars, fileVars, shellVars, lockVars>>
     \/ /\ part = "locks" /\ LockNext
        /\ UNCHANGED <<mallocVars, policyVars, imageVars, fileVars, shellVars, forkVars>>

PartsSpec == PartsInit /\ [][PartsNext]_<<part, mallocVars, policyVars, imageVars, fileVars,
                                         shellVars, forkVars, lockVars>>
=============================================================================
