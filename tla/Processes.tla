------------------------------- MODULE Processes -------------------------------
(***************************************************************************)
(* The process exercises b11, b12 and b15: programs that fork, exec, wait  *)
(* for their children and turn into a daemon, with what each process holds *)
(* back in the buffer of its standard output.                              *)
(*                                                                         *)
(* A program is a record of blocks of calls, main and what only a child    *)
(* runs, the same for all its processes.  The kernel and the C library are *)
(* external, one action for each call.  The standard output is a terminal, *)
(* which shows each line at once, or a file, which gets the buffer at      *)
(* exit.  fork copies the buffer; exec and an abnormal end drop it.        *)
(***************************************************************************)
EXTENDS Integers, SequencesExt

CONSTANT MaxProcs   \* how many processes there can be; fork may fail before

ASSUME MaxProcsAssumption == MaxProcs \in Nat \ {0}

Procs     == 1..MaxProcs
Error     == -1  \* what fork and wait return when they fail
Signalled == -1  \* the status of a process that a signal has ended
-----------------------------------------------------------------------------
(***************************************************************************)
(* The calls.  n is the place in main where the process goes on.           *)
(***************************************************************************)
Call(name)            == [call |-> name]
fork(v, child, fails) == [call |-> "fork", var |-> v, child |-> child, fails |-> fails]
printf(text)          == [call |-> "printf", text |-> text]
write(text)           == [call |-> "write", text |-> text]
is(v, n)              == [call |-> "is", var |-> v, n |-> n]  \* wait returned v, else to n
goto(n)               == [call |-> "goto", n |-> n]
exit(code)            == [call |-> "exit", code |-> code]

wait   == Call("wait")    exec      == Call("exec")       abort == Call("abort")
divide == Call("divide")  close_all == Call("close_all")  null  == Call("null")
loop   == Call("loop")

(***************************************************************************)
(* The programs.  sleep, and the setsid, umask, chdir and signal of the    *)
(* daemons, change nothing here.                                           *)
(***************************************************************************)
fork1 ==
  [main  |-> <<write("standard_output"), printf("before_fork"), fork("pid", "child", 6),
               printf("values"), exit(0), exit(1)>>,
   child |-> <<goto(4)>>]

\* fork2 and fork3 write each character by a call of its own, so that the rows of
\* the two processes may come out mixed; the first and the last one of each row
\* stand for all.
fork2 ==
  [main  |-> <<fork("pid", "child", 6), write("A"), write("Z"), printf("newline"), exit(0), exit(1)>>,
   child |-> <<write("a"), write("z"), goto(4)>>]

fork3 ==
  [main  |-> <<fork("pid", "child", 5), write("parent_first"), write("parent_last"), exit(0), exit(1)>>,
   child |-> <<write("child_first"), write("child_last"), goto(4)>>]

execl1 == [main |-> <<printf("original"), exec, printf("never"), exit(0)>>]

execl2 ==
  [main  |-> <<fork("pid", "child", 2), fork("pid", "child", 3), fork("pid", "child", 4),
               printf("ending"), exit(0)>>,
   child |-> <<exec, exit(1)>>]

\* A fork that fails and a wait that fails return the same.
execv1 ==
  [main  |-> <<fork("pid", "child", 2), wait, is("pid", 6), printf("term_stat"), exit(0), exit(1)>>,
   child |-> <<exec, exit(1)>>]

\* The division by zero may also go on, into the code of the parent.
wait1 ==
  [main  |-> <<fork("pid", "child", 14), wait, is("pid", 14), printf("echo_1"),
               fork("pid", "child2", 14), wait, is("pid", 14), printf("echo_2"),
               fork("pid", "child3", 14), wait, is("pid", 14), printf("echo_3"), exit(0), exit(1)>>,
   child |-> <<exit(7)>>, child2 |-> <<abort>>, child3 |-> <<divide, goto(10)>>]

\* A line printed in front of the fork.
wait2_Early ==
  [main  |-> <<printf("waiting"), fork("pid", "child", 3), wait, printf("return_value"), exit(0)>>,
   child |-> <<printf("child"), exit(1)>>]

wait2 ==
  [main  |-> <<fork("pid", "child", 2), printf("waiting"), wait, printf("return_value"), exit(0)>>,
   child |-> <<printf("child"), exit(1)>>]

\* A single wait in the place of the loop.
wait3_Once ==
  [main  |-> <<fork("pid", "child", 2), fork("pid", "child2", 3), printf("waiting"),
               wait, printf("all_terminated"), exit(0)>>,
   child |-> <<exec, goto(2)>>, child2 |-> <<exec, goto(3)>>]

\* A child whose exec fails goes on as another parent.
wait3 ==
  [main  |-> <<fork("pid", "child", 2), fork("pid", "child2", 3), printf("waiting"),
               wait, is("error", 4), printf("all_terminated"), exit(0)>>,
   child |-> <<exec, goto(2)>>, child2 |-> <<exec, goto(3)>>]

\* No way on behind the report of the second child.
wait4_Open ==
  [main  |-> <<fork("child1", "child", 2), fork("child2", "child2", 3), printf("waiting"),
               wait, is("error", 8), printf("all_terminated"), exit(0),
               is("child1", 11), printf("first_child"), goto(4),
               is("child2", 4), printf("second_child")>>,
   child |-> <<exec, goto(2)>>, child2 |-> <<exec, goto(3)>>]

wait4 ==
  [main  |-> <<fork("child1", "child", 2), fork("child2", "child2", 3), printf("waiting"),
               wait, is("error", 8), printf("all_terminated"), exit(0),
               is("child1", 11), printf("first_child"), goto(4),
               is("child2", 4), printf("second_child"), goto(4)>>,
   child |-> <<exec, goto(2)>>, child2 |-> <<exec, goto(3)>>]

daemon ==
  [main  |-> <<printf("parent_process"), printf("initialization"), fork("pid", "child", 5),
               exit(0), exit(1)>>,
   child |-> <<printf("running_as_daemon"), close_all, null, exit(0)>>]

syslog ==
  [main  |-> <<printf("initialization"), fork("pid", "child", 4), exit(0), exit(1)>>,
   child |-> <<printf("running_as_daemon"), close_all, null, loop>>]

Program ==
  [fork1 |-> fork1, fork2 |-> fork2, fork3 |-> fork3, execl1 |-> execl1, execl2 |-> execl2,
   execv1 |-> execv1, wait1 |-> wait1, wait2 |-> wait2, wait3 |-> wait3, wait4 |-> wait4,
   daemon |-> daemon, syslog |-> syslog]

Printing == {"printf", "write"}
Blocks   == {"main", "child", "child2", "child3", "other"}
Calls    == UNION {UNION {Range(Program[g][b]) : b \in DOMAIN Program[g]} : g \in DOMAIN Program}
Texts    == {c.text : c \in {d \in Calls : d.call \in Printing}}
-----------------------------------------------------------------------------
VARIABLES
  prog,     \* the program that runs
  tty,      \* the standard output is a terminal
  procs,    \* the processes
  shown,    \* what has come out, in this order: who printed it, and what
  printed   \* history: the same of all lines printed

vars == <<prog, tty, procs, shown, printed>>

\* mem holds the variables for process numbers and what wait returned; at is
\* "other" behind an exec; out is where the standard output leads.
Memory == [{"pid", "child1", "child2", "got", "error"} -> Procs \cup {0, Error}]
Lines  == Seq(Procs \X Texts)
Process ==
  [state : {"none", "running", "zombie", "gone"}, parent : 0..MaxProcs, at : Blocks, pc : Nat,
   mem : Memory, status : {Signalled, 0, 1, 7}, buffer : Lines, out : {"stdout", "closed", "null"}]

Running(p) == procs[p].state = "running"
Ours(p)    == Running(p) /\ procs[p].at # "other"

TypeOK ==
  /\ prog \in DOMAIN Program
  /\ tty \in BOOLEAN
  /\ procs \in [Procs -> Process]
  /\ \A p \in Procs : Ours(p) =>
       /\ procs[p].at \in DOMAIN Program[prog]
       /\ procs[p].pc \in DOMAIN Program[prog][procs[p].at]
  /\ shown \in Lines
  /\ printed \subseteq Procs \X Texts

NoProcess(state) ==
  [state |-> state, parent |-> 0, at |-> "main", pc |-> 1,
   mem |-> [x \in {"pid", "child1", "child2", "got", "error"} |-> IF x = "error" THEN Error ELSE 0],
   status |-> 0, buffer |-> <<>>, out |-> "stdout"]

Init ==
  /\ prog \in DOMAIN Program
  /\ tty \in BOOLEAN
  /\ procs = [p \in Procs |-> NoProcess(IF p = 1 THEN "running" ELSE "none")]
  /\ shown = <<>>
  /\ printed = {}
-----------------------------------------------------------------------------
(***************************************************************************)
(* The kernel and the library.                                             *)
(***************************************************************************)
Now(p)         == Program[prog][procs[p].at][procs[p].pc]
At(p, calls)   == Ours(p) /\ Now(p).call \in calls
On(r)          == [r EXCEPT !.pc = @ + 1]
To(r, n)       == [r EXCEPT !.at = "main", !.pc = n]
Becomes(p, r)  == procs' = [procs EXCEPT ![p] = r]
Children(p)    == {q \in Procs : procs[q].parent = p}
Present(state) == state \in {"running", "zombie"}

\* A process that ends; the first has no parent here that would wait for it.
Ended(p, status) ==
  procs' = [q \in Procs |->
              IF q = p
              THEN [procs[p] EXCEPT !.state = IF procs[p].parent = 0 THEN "gone" ELSE "zombie",
                                    !.status = status, !.buffer = <<>>]
              ELSE procs[q]]

Goto(p) ==
  /\ At(p, {"goto", "is"})
  /\ LET here == procs[p]
     IN  Becomes(p, IF Now(p).call = "is" /\ here.mem.got = here.mem[Now(p).var]
                    THEN On(here) ELSE To(here, Now(p).n))
  /\ UNCHANGED <<prog, tty, shown, printed>>

Output(p) ==
  /\ At(p, Printing)
  /\ LET item   == <<p, Now(p).text>>
         direct == tty \/ Now(p).call = "write"
     IN  /\ printed' = printed \cup {item}
         /\ shown' = IF direct /\ procs[p].out = "stdout" THEN Append(shown, item) ELSE shown
         /\ Becomes(p, On(IF direct THEN procs[p]
                          ELSE [procs[p] EXCEPT !.buffer = Append(@, item)]))
  /\ UNCHANGED <<prog, tty>>

Fork(p) ==
  /\ At(p, {"fork"})
  /\ LET v == Now(p).var
     IN \/ Becomes(p, To([procs[p] EXCEPT !.mem[v] = Error], Now(p).fails))
        \/ \E q \in Procs :
             /\ procs[q].state = "none"
             /\ \A r \in Procs : r < q => procs[r].state # "none"
             /\ procs' = [procs EXCEPT
                  ![p] = On([procs[p] EXCEPT !.mem[v] = q]),
                  ![q] = [procs[p] EXCEPT !.parent = p, !.at = Now(p).child, !.pc = 1, !.mem[v] = 0]]
  /\ UNCHANGED <<prog, tty, shown, printed>>

Exec(p) ==
  /\ At(p, {"exec"})
  /\ \/ Becomes(p, [procs[p] EXCEPT !.at = "other", !.buffer = <<>>])
     \/ Becomes(p, On(procs[p]))
  /\ UNCHANGED <<prog, tty, shown, printed>>

\* The program that exec has loaded ends, well or not.
OtherEnds(p) ==
  /\ Running(p) /\ procs[p].at = "other"
  /\ \E status \in {0, 1, Signalled} : Ended(p, status)
  /\ UNCHANGED <<prog, tty, shown, printed>>

Wait(p) ==
  /\ At(p, {"wait"})
  /\ \/ \E q \in Children(p) :
          /\ procs[q].state = "zombie"
          /\ procs' = [procs EXCEPT ![p] = On([procs[p] EXCEPT !.mem.got = q]), ![q].state = "gone"]
     \/ /\ \A q \in Children(p) : ~Present(procs[q].state)
        /\ Becomes(p, On([procs[p] EXCEPT !.mem.got = Error]))
  /\ UNCHANGED <<prog, tty, shown, printed>>

Exit(p) ==
  /\ At(p, {"exit"})
  /\ Ended(p, Now(p).code)
  /\ shown' = IF procs[p].out = "stdout" THEN shown \o procs[p].buffer ELSE shown
  /\ UNCHANGED <<prog, tty, printed>>

\* abort, or a division that the processor traps; another build divides nothing.
Fault(p) ==
  /\ At(p, {"abort", "divide"})
  /\ \/ Ended(p, Signalled)
     \/ Now(p).call = "divide" /\ Becomes(p, On(procs[p]))
  /\ UNCHANGED <<prog, tty, shown, printed>>

Redirect(p) ==
  /\ At(p, {"close_all", "null"})
  /\ Becomes(p, On([procs[p] EXCEPT !.out = IF Now(p).call = "null" THEN "null" ELSE "closed"]))
  /\ UNCHANGED <<prog, tty, shown, printed>>

Step(p) ==
  \/ Goto(p)
  \/ Output(p)
  \/ Fork(p)
  \/ Exec(p)
  \/ OtherEnds(p)
  \/ Wait(p)
  \/ Exit(p)
  \/ Fault(p)
  \/ Redirect(p)

Over == \A p \in Procs : Running(p) => At(p, {"loop"})

\* Nothing is left to do; any other state without a step is a deadlock.
Rest == Over /\ UNCHANGED vars

Next == (\E p \in Procs : Step(p)) \/ Rest

Spec == Init /\ [][Next]_vars
-----------------------------------------------------------------------------
(***************************************************************************)
(* Properties.                                                             *)
(***************************************************************************)

\* A program that waits for its children leaves none behind when it ends, also if
\* fork or exec fails and a child goes on as another parent ("until no child is
\* left", wait3 line 13 and wait4 line 15).
NoneLeft ==
  prog \in {"execv1", "wait1", "wait2", "wait3", "wait4"} =>
    \A p \in Procs : procs[p].state \in {"zombie", "gone"} =>
      \A q \in Children(p) : procs[q].state = "gone"

\* A child went on behind the division by zero.
Divided == prog = "wait1" /\ \E p \in Procs \ {1} : procs[p].state # "none" /\ procs[p].status = 1

\* In the end every line, and every character of the rows of fork2 and fork3, has
\* come out once: on a terminal always, and in a file too where nothing is in the
\* buffer at a fork that leads to an exit, or at an exec.  (Not fork1, execl1 and
\* the daemons, which print in front of these.)
ShownOnce ==
  /\ Over
  /\ tty \/ prog \notin {"fork1", "execl1", "daemon", "syslog"}
  /\ tty \/ ~Divided
  =>
    \A line \in printed : \E k \in DOMAIN shown :
      \A l \in DOMAIN shown : shown[l] = line <=> l = k
=============================================================================
