------------------------------- MODULE SsuSdup -------------------------------
(***************************************************************************)
(* The shell p2/ssu_sdup.c: main reads a line, forks, the child replaces   *)
(* itself by fmd5, fsha1 or help, and the shell waits for it.  Shell and   *)
(* program read the same terminal.                                         *)
(*                                                                         *)
(* The code behind exec has no exit: a child whose exec fails goes on as a *)
(* shell of its own.  fork may fail, and wait is called all the same.      *)
(* Each read of the terminal gives one line, so no line stays in a buffer  *)
(* that a child would inherit; input through a pipe is not modelled.       *)
(***************************************************************************)
EXTENDS FiniteSets

CONSTANTS
  Pids,    \* the processes the user may have, the limit fork runs into
  Main,     \* the shell the user started
  Nobody    \* the parent of Main, and of a process that does not exist

ASSUME PidsAssumption == Main \in Pids /\ Nobody \notin Pids

VARIABLES
  pc,       \* where each process is
  parent,   \* the process that forked it
  command   \* the first word of the line in input

shell_vars == <<pc, parent, command>>

Searches == {"fmd5", "fsha1"}
Commands == Searches \cup {"help", "exit", "other", "blank"}

\* The programs the shell starts.
Programs == {"search", "help"}

ShellTypeOK ==
  /\ pc \in [Pids -> {"none", "prompt", "fork", "exec", "wait", "end", "zombie"} \cup Programs]
  /\ parent \in [Pids -> Pids \cup {Nobody}]
  /\ command \in [Pids -> Commands]

ShellInit ==
  /\ pc = [p \in Pids |-> IF p = Main THEN "prompt" ELSE "none"]
  /\ parent = [p \in Pids |-> Nobody]
  /\ command = [p \in Pids |-> "blank"]

ShellGoto(p, l) == pc' = [pc EXCEPT ![p] = l]
ShellChildren(p) == {q \in Pids : parent[q] = p}
-----------------------------------------------------------------------------
\* A shell that looks at argv[0] of a blank line.
Read_NoCheck(p) ==
  /\ pc[p] = "prompt"
  /\ \E c \in Commands :
       /\ command' = [command EXCEPT ![p] = c]
       /\ ShellGoto(p, CASE c = "blank" -> "crashed" [] c = "exit" -> "end" [] OTHER -> "fork")
  /\ UNCHANGED parent

\* fgets and split.  At the end of the input fgets leaves the line before,
\* which has lost its last character and is taken as the next command.
Read(p) ==
  /\ pc[p] = "prompt"
  /\ \E c \in Commands :
       /\ command' = [command EXCEPT ![p] = c]
       /\ ShellGoto(p, CASE c = "blank" -> "prompt" [] c = "exit" -> "end" [] OTHER -> "fork")
  /\ UNCHANGED parent

\* A shell without the wait behind fork.
ShellFork_NoWait(p) ==
  /\ pc[p] = "fork"
  /\ \E q \in Pids :
       /\ pc[q] = "none"
       /\ pc' = [pc EXCEPT ![p] = "prompt", ![q] = "exec"]
       /\ parent' = [parent EXCEPT ![q] = p]
       /\ command' = [command EXCEPT ![q] = command[p]]

\* fork: the child is a copy; without one the shell goes on to wait.
ShellFork(p) ==
  /\ pc[p] = "fork"
  /\ \/ \E q \in Pids :
          /\ pc[q] = "none"
          /\ pc' = [pc EXCEPT ![p] = "wait", ![q] = "exec"]
          /\ parent' = [parent EXCEPT ![q] = p]
          /\ command' = [command EXCEPT ![q] = command[p]]
     \/ ShellGoto(p, "wait") /\ UNCHANGED <<parent, command>>

\* execv or execl, and what is behind it when it fails: the wait.
ShellExec(p) ==
  /\ pc[p] = "exec"
  /\ \/ ShellGoto(p, IF command[p] \in Searches THEN "search" ELSE "help")
     \/ ShellGoto(p, "wait")
  /\ UNCHANGED <<parent, command>>

\* A wait that does not return before a child has ended.
ShellWait_ForChild(p) ==
  /\ pc[p] = "wait"
  /\ \E q \in ShellChildren(p) :
       /\ pc[q] = "zombie"
       /\ pc' = [pc EXCEPT ![p] = "prompt", ![q] = "none"]
       /\ parent' = [parent EXCEPT ![q] = Nobody]
  /\ UNCHANGED command

\* A wait that does not block (WNOHANG).
ShellWait_NoHang(p) ==
  /\ pc[p] = "wait"
  /\ ShellGoto(p, "prompt")
  /\ UNCHANGED <<parent, command>>

\* wait(NULL): one child that has ended, or ECHILD if there is no child.
ShellWait(p) ==
  /\ pc[p] = "wait"
  /\ \/ \E q \in ShellChildren(p) :
          /\ pc[q] = "zombie"
          /\ pc' = [pc EXCEPT ![p] = "prompt", ![q] = "none"]
          /\ parent' = [parent EXCEPT ![q] = Nobody]
     \/ ShellChildren(p) = {} /\ ShellGoto(p, "prompt") /\ UNCHANGED parent
  /\ UNCHANGED command

\* The exit of a shell that is itself a child; Main only stays at "end".
End(p) ==
  /\ pc[p] = "end"
  /\ p # Main
  /\ ShellGoto(p, "zombie")
  /\ UNCHANGED <<parent, command>>

\* help prints the usage; fmd5 and fsha1 read lines of their own and end when
\* they are done or told to.
Finish(p) ==
  /\ pc[p] \in Programs
  /\ ShellGoto(p, "zombie")
  /\ UNCHANGED <<parent, command>>

\* What a process does without the user.
Run(p) ==
  \/ ShellFork(p)
  \/ ShellExec(p)
  \/ ShellWait(p)
  \/ End(p)
  \/ pc[p] = "help" /\ Finish(p)

ShellStep(p) == Read(p) \/ Run(p) \/ Finish(p)

ShellNext == \E p \in Pids : ShellStep(p)

\* The processes are scheduled; the user may stop typing.
ShellSpec == ShellInit /\ [][ShellNext]_shell_vars /\ \A p \in Pids : WF_shell_vars(Run(p))
-----------------------------------------------------------------------------
(***************************************************************************)
(* Properties.                                                             *)
(***************************************************************************)

Waits(p) == pc[p] = "wait" /\ ShellChildren(p) # {}

\* Of all the processes, shells that a failed exec has left behind among them,
\* at most one does not wait for a child: no two ever read the terminal, and
\* no command is run next to another.
OneAtWork ==
  \A p, q \in Pids :
    pc[p] # "none" /\ ~Waits(p) /\ pc[q] # "none" /\ ~Waits(q) => p = q

\* A shell at its prompt, and one that exits, has waited for every child it
\* forked: none is left running, and none as a zombie.
AllReaped == \A p \in Pids : pc[p] \in {"prompt", "fork", "end"} => ShellChildren(p) = {}

\* The processes never wait for one another for good, whatever fork and exec
\* refuse: it is always the user's turn again, unless he has left.
SomeoneReads ==
  []<>(pc[Main] = "end" \/ \E p \in Pids : pc[p] \in {"prompt", "search"})
=============================================================================
