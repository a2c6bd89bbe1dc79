------------------------------- MODULE Shell -------------------------------
(***************************************************************************)
(* Borsh, the shell of lab 4 (borsh.c), built with its three patches: the  *)
(* command history, the variables, and their expansion in a command, in    *)
(* the buffer of getline.  A line is a sequence of tokens with one space   *)
(* between them, as remove_extra_spaces leaves it.                         *)
(***************************************************************************)
EXTENDS Naturals, Sequences, SequencesExt, FiniteSets

CONSTANTS
  Lines,                \* the lines that may be read
  MAX_CMD_LENGTH, MAX_VARVALUE_LENGTH, MAX_CMD_HISTORY,
  GETLINE_SIZE,         \* what getline allocates first
  MaxLines              \* the bound on the lines of a session

ASSUME ShellAssumption == MAX_CMD_HISTORY \in Nat \ {0}

(* A token is a word, a reference $name, or $name=value; in a bad one the  *)
(* name or the value is missing or too long.  A name or text comes with    *)
(* its length.                                                             *)
Word(text, length) == [kind |-> "word", text |-> text, length |-> length]
Reference(name, length) == [kind |-> "reference", name |-> name, length |-> length + 1]
Assignment(name, length, value) ==
  [kind |-> "assignment", name |-> name, value |-> value, length |-> length + value.length + 2]
BadAssignment == [kind |-> "bad", length |-> 2]

VARIABLES
  commands,     \* hist.commands, the latest first
  variables,    \* the list of variables: [name, value], a value is a sequence of tokens
  ended,        \* the loop of main has ended, or the program
  cmd_size,     \* how much getline has allocated for cmd
  room,         \* how much is allocated for cmd
  overflowed,   \* history: a command was written behind cmd
  entered,      \* history: the commands that were not too long, as expanded
  assigned      \* history: the assignments that succeeded

memory == <<commands, variables, entered, assigned>>

shellVars == <<memory, ended, cmd_size, room, overflowed>>

ShellInit == /\ commands = <<>> /\ variables = <<>> /\ entered = <<>> /\ assigned = <<>>
             /\ ended = FALSE
             /\ cmd_size = 0 /\ room = 0 /\ overflowed = FALSE
-----------------------------------------------------------------------------
(* Mutant: all commands are moved up and none is dropped.                  *)
prepend_history_Keeps(hist, cmd) ==
  IF hist # <<>> /\ Head(hist) = cmd THEN hist ELSE <<cmd>> \o hist

prepend_history(hist, cmd) ==
  IF hist # <<>> /\ Head(hist) = cmd THEN hist
  ELSE <<cmd>> \o IF Len(hist) = MAX_CMD_HISTORY THEN Front(hist) ELSE hist

Named(vars, name) == {i \in DOMAIN vars : vars[i].name = name}

(* Mutant: a new node becomes the second one.                              *)
put_variable_AfterHead(vars, name, value) ==
  LET node == [name |-> name, value |-> value] IN
  IF Named(vars, name) # {}
    THEN [i \in DOMAIN vars |-> IF i \in Named(vars, name) THEN node ELSE vars[i]]
  ELSE IF vars = <<>> THEN <<node>> ELSE <<Head(vars), node>>

(* A variable that exists gets the value, a new one goes to the end.       *)
put_variable(vars, name, value) ==
  LET node == [name |-> name, value |-> value] IN
  IF Named(vars, name) # {}
    THEN [i \in DOMAIN vars |-> IF i \in Named(vars, name) THEN node ELSE vars[i]]
    ELSE Append(vars, node)

get_variable(vars, name) == vars[CHOOSE i \in Named(vars, name) : TRUE].value

(* strlen of a command: a space follows each token but the last.           *)
Length(cmd) ==
  IF cmd = <<>> THEN 0 ELSE FoldLeft(LAMBDA n, token : n + token.length + 1, 0, cmd) - 1

(* getline doubles its buffer when the line, its newline and a NUL do not  *)
(* fit in it.                                                              *)
GetlineSize(line) ==
  LET needed == Length(line) + 2
      size == IF cmd_size = 0 THEN GETLINE_SIZE ELSE cmd_size
  IN  IF needed <= size THEN size
      ELSE IF needed < 2 * size THEN 2 * size ELSE needed

(* One token of get_command, in a buffer that getline takes to have that   *)
(* size.  A reference to a variable is replaced by its value and what is   *)
(* behind it moved; the buffer is enlarged when the value ends behind it,  *)
(* not when what is moved does (borsh.c:263).                              *)
Replaced(e, token, size) ==
  LET value == get_variable(variables, token.name)
      move_dst == e.offset + Length(value)
      cmd_len == e.cmd_len - token.length + Length(value)
      capacity == IF move_dst > size THEN cmd_len + 1 ELSE e.room
  IN  [cmd |-> e.cmd \o value, offset |-> move_dst + 1, cmd_len |-> cmd_len, room |-> capacity,
       fits |-> e.fits /\ e.cmd_len < capacity /\ cmd_len < capacity]

LeftAsIs(e, token) == [e EXCEPT !.cmd = Append(@, token), !.offset = @ + token.length + 1]

(* get_command: every reference behind the first token is replaced by the  *)
(* value of its variable; one that is not found is left as it is.          *)
Expanded(line) ==
  LET size == GetlineSize(line)
      upTo[n \in 0 .. Len(line)] ==
        IF n = 0
          THEN [cmd |-> <<>>, offset |-> 0, cmd_len |-> Length(line),
                room |-> IF size = cmd_size THEN room ELSE size, fits |-> TRUE]
        ELSE IF n > 1 /\ line[n].kind = "reference" /\ Named(variables, line[n].name) # {}
          THEN Replaced(upTo[n - 1], line[n], size)
        ELSE LeftAsIs(upTo[n - 1], line[n])
  IN  upTo[Len(line)]
-----------------------------------------------------------------------------
(* An assignment takes the rest of the line into its value.                *)
ValueOf(cmd) == <<Head(cmd).value>> \o Tail(cmd)

Assigns(cmd) == Head(cmd).kind = "assignment" /\ Length(ValueOf(cmd)) < MAX_VARVALUE_LENGTH

(* What get_command leaves of the buffer.                                  *)
Buffers(line) == cmd_size' = GetlineSize(line) /\ room' = Expanded(line).room

(* One round of the loop of main.                                          *)
ReadLine(line) ==
  LET cmd == Expanded(line).cmd IN
  /\ ~ended
  /\ line # <<>> /\ Expanded(line).fits /\ Length(cmd) < MAX_CMD_LENGTH
  /\ Len(entered) < MaxLines
  /\ Buffers(line)
  /\ commands' = prepend_history(commands, cmd)
  /\ entered' = Append(entered, cmd)
  /\ ended' = (cmd = <<Word("exit", 4)>>)
  /\ IF Assigns(cmd)
       THEN /\ variables' = put_variable(variables, Head(cmd).name, ValueOf(cmd))
            /\ assigned' = Append(assigned, [name |-> Head(cmd).name, value |-> ValueOf(cmd)])
       ELSE UNCHANGED <<variables, assigned>>
  /\ UNCHANGED overflowed

(* A command that is too long is neither kept nor executed; an empty line  *)
(* is skipped.                                                             *)
SkipLine(line) ==
  /\ ~ended
  /\ \/ line = <<>>
     \/ Expanded(line).fits /\ Length(Expanded(line).cmd) >= MAX_CMD_LENGTH
  /\ Buffers(line)
  /\ UNCHANGED <<memory, ended, overflowed>>

(* What is written behind the buffer ends the program, as the Makefile     *)
(* builds it (-fsanitize=address).                                         *)
Overflows(line) ==
  /\ ~ended
  /\ line # <<>> /\ ~Expanded(line).fits
  /\ Buffers(line)
  /\ ended' = TRUE /\ overflowed' = TRUE
  /\ UNCHANGED memory

EndOfFile == ~ended /\ ended' = TRUE /\ UNCHANGED <<memory, cmd_size, room, overflowed>>

ShellNext ==
  EndOfFile \/ \E line \in Lines : SkipLine(line) \/ ReadLine(line) \/ Overflows(line)

ShellSpec == ShellInit /\ [][ShellNext]_shellVars
-----------------------------------------------------------------------------
(* The history holds the latest commands as they were expanded, at most    *)
(* MAX_CMD_HISTORY of them, the latest first, and a command that was       *)
(* repeated at once only one time (borsh.c:41-77).                         *)
HistoryRecent ==
  LET New == {i \in DOMAIN entered : i = 1 \/ entered[i] # entered[i - 1]}
      Later(i) == Cardinality({j \in New : j > i})
      Kept == {i \in New : Later(i) < MAX_CMD_HISTORY}
  IN /\ Len(commands) = Cardinality(Kept)
     /\ \A i \in Kept : commands[Later(i) + 1] = entered[i]

(* Every variable that was assigned is found, once, with the value of its  *)
(* last assignment, in the order of the first assignments (borsh.c:84-147). *)
VariablesKept ==
  LET First(i) == \A j \in 1..i - 1 : assigned[j].name # assigned[i].name
      Latest(i) == \A j \in i + 1..Len(assigned) : assigned[j].name # assigned[i].name
  IN /\ Len(variables) = Cardinality({i \in DOMAIN assigned : First(i)})
     /\ \A i \in DOMAIN assigned :
          First(i) => variables[Cardinality({j \in 1..i : First(j)})].name = assigned[i].name
     /\ \A i \in DOMAIN assigned :
          Latest(i) => get_variable(variables, assigned[i].name) = assigned[i].value

(* Whatever lines are read, until the program ends.                        *)
ShellRemembers == HistoryRecent /\ VariablesKept

(* "To avoid corruption of the rest of the command, we relocate the part   *)
(* after the variable token depending on the length of the token and the   *)
(* length of the variable's value" (borsh.c:196-198): the part that is     *)
(* moved stays in the buffer.  It does not, when the value ends in it and  *)
(* the part behind the value does not (borsh.c:263).                       *)
BufferHolds == ~overflowed
=============================================================================
