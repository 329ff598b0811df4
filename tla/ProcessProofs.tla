---------------------------- MODULE ProcessProofs ----------------------------
(***************************************************************************)
(* The programs that fork, exec and wait, for any number of processes: the *)
(* shell of SsuSdup, and the exercises of Processes.                       *)
(***************************************************************************)
EXTENDS SsuSdup, Processes, WellFoundedInduction, TLAPS

-----------------------------------------------------------------------------
(***************************************************************************)
(* The shell.  Its processes form a chain from Main on: every process but  *)
(* the last waits for the next one, which is its only child.               *)
(***************************************************************************)

\* Every process but Main has a parent, which waits for it.
ParentWaits ==
  \A q \in Pids : pc[q] # "none" /\ q # Main => parent[q] \in Pids /\ pc[parent[q]] = "wait"

\* Main and the processes that do not exist have no parent.
NoParent == \A q \in Pids : q = Main \/ pc[q] = "none" => parent[q] = Nobody

\* Nobody has two children.
OnlyChild ==
  \A q, r \in Pids : parent[q] = parent[r] /\ parent[q] \in Pids => q = r

\* Main never goes away.
MainThere == pc[Main] # "none"

Chain == ShellTypeOK /\ MainThere /\ ParentWaits /\ NoParent /\ OnlyChild /\ OneAtWork

\* The invariant holds at the start: Main is alone.
LEMMA ChainInit == ShellInit => Chain
<1> SUFFICES ASSUME ShellInit PROVE Chain
  OBVIOUS
<1> USE PidsAssumption DEF ShellInit
<1>1. ShellTypeOK
  BY DEF ShellTypeOK, Commands
<1>2. MainThere /\ ParentWaits /\ NoParent /\ OnlyChild
  BY DEF MainThere, ParentWaits, NoParent, OnlyChild
<1>3. OneAtWork
  BY DEF OneAtWork
<1> QED
  BY <1>1, <1>2, <1>3 DEF Chain

\* A process that is not in wait has no children.
LEMMA OnlyWaitersHaveChildren ==
  ASSUME Chain, NEW p \in Pids, pc[p] # "wait"
  PROVE  ShellChildren(p) = {}
<1>1. ASSUME NEW q \in Pids, parent[q] = p PROVE FALSE
  BY <1>1, PidsAssumption DEF Chain, ParentWaits, NoParent
<1> QED
  BY <1>1 DEF ShellChildren

\* A process that changes its place without forking or reaping, and not from
\* nor to nothing, leaves the chain as it is.
LEMMA Moves ==
  ASSUME Chain, NEW p \in Pids, NEW l,
         l \in {"prompt", "fork", "exec", "wait", "end", "zombie"} \cup Programs,
         pc[p] # "none", ~Waits(p),
         ShellGoto(p, l), parent' = parent, command' \in [Pids -> Commands]
  PROVE  Chain'
<1> USE DEF ShellGoto
<1> pc \in [Pids -> {"none", "prompt", "fork", "exec", "wait", "end", "zombie"} \cup Programs]
  BY DEF Chain, ShellTypeOK
<1>0. l # "none" /\ pc'[p] = l /\ \A q \in Pids : q # p => pc'[q] = pc[q]
  BY DEF Programs
<1>1. ShellTypeOK'
  BY DEF ShellTypeOK, Chain
<1>2. ShellChildren(p) = {}
  BY OnlyWaitersHaveChildren DEF Waits
<1>3. ParentWaits'
  BY <1>0, <1>2 DEF Chain, ParentWaits, ShellChildren
<1>4. MainThere' /\ NoParent' /\ OnlyChild'
  BY <1>0, PidsAssumption DEF Chain, MainThere, NoParent, OnlyChild
<1>5. \A q \in Pids : q # p => Waits(q)' = Waits(q)
  BY <1>0 DEF Waits, ShellChildren
<1>6. OneAtWork'
  BY <1>0, <1>5 DEF Chain, OneAtWork
<1> QED
  BY <1>1, <1>3, <1>4, <1>6 DEF Chain

\* fork appends the child to the chain.
LEMMA Forks ==
  ASSUME Chain, NEW p \in Pids, ShellFork(p)
  PROVE  Chain'
<1> pc \in [Pids -> {"none", "prompt", "fork", "exec", "wait", "end", "zombie"} \cup Programs]
  BY DEF Chain, ShellTypeOK
<1>1. CASE ShellGoto(p, "wait") /\ UNCHANGED <<parent, command>>
  BY <1>1, Moves DEF ShellFork, Waits, Chain, ShellTypeOK
<1>2. ASSUME NEW q \in Pids,
             pc[q] = "none",
             pc' = [pc EXCEPT ![p] = "wait", ![q] = "exec"],
             parent' = [parent EXCEPT ![q] = p],
             command' = [command EXCEPT ![q] = command[p]]
      PROVE  Chain'
  <2>0. pc[p] = "fork" /\ p # q
    BY <1>2 DEF ShellFork
  <2> parent \in [Pids -> Pids \cup {Nobody}]
    BY DEF Chain, ShellTypeOK
  <2>1. /\ pc'[p] = "wait" /\ pc'[q] = "exec"
        /\ \A r \in Pids : r # p /\ r # q => pc'[r] = pc[r]
    BY <1>2, <2>0
  <2>2. parent'[q] = p /\ \A r \in Pids : r # q => parent'[r] = parent[r]
    BY <1>2
  <2>3. ShellTypeOK'
    BY <1>2 DEF Chain, ShellTypeOK
  <2>4. ShellChildren(p) = {}
    BY <2>0, OnlyWaitersHaveChildren
  <2>5. q # Main
    BY <1>2 DEF Chain, MainThere
  <2>6. ParentWaits'
    <3>1. ASSUME NEW r \in Pids, r # q, r # Main, pc[r] # "none"
          PROVE  parent[r] \in Pids /\ pc'[parent[r]] = "wait"
      <4>1. parent[r] \in Pids /\ pc[parent[r]] = "wait"
        BY <3>1 DEF Chain, ParentWaits
      <4> QED
        BY <4>1, <1>2, <2>0, <2>1
    <3> QED
      BY <3>1, <2>1, <2>2, <2>0 DEF ParentWaits
  <2>7. NoParent'
    BY <2>0, <2>1, <2>2, <2>5 DEF Chain, NoParent
  <2>8. OnlyChild'
    BY <2>2, <2>4 DEF Chain, OnlyChild, ShellChildren
  <2>10. MainThere'
    BY <2>1, PidsAssumption DEF Chain, MainThere
  <2>9. OneAtWork'
    <3>1. Waits(p)'
      BY <2>1, <2>2 DEF Waits, ShellChildren
    <3>2. \A r \in Pids : r # p /\ r # q /\ Waits(r) => Waits(r)'
      BY <1>2, <2>1, <2>2, PidsAssumption DEF Waits, ShellChildren, Chain, NoParent
    <3>3. \A r \in Pids : r # p /\ r # q /\ pc[r] # "none" => Waits(r)
      BY <2>0 DEF Chain, OneAtWork, Waits
    <3> QED
      BY <2>1, <3>1, <3>2, <3>3 DEF OneAtWork
  <2> QED
    BY <2>3, <2>6, <2>7, <2>8, <2>9, <2>10 DEF Chain
<1> QED
  BY <1>1, <1>2 DEF ShellFork

\* wait takes the child off the end of the chain, or has none.
LEMMA Reaps ==
  ASSUME Chain, NEW p \in Pids, ShellWait(p)
  PROVE  Chain'
<1> pc \in [Pids -> {"none", "prompt", "fork", "exec", "wait", "end", "zombie"} \cup Programs]
  BY DEF Chain, ShellTypeOK
<1> parent \in [Pids -> Pids \cup {Nobody}]
  BY DEF Chain, ShellTypeOK
<1>1. CASE ShellChildren(p) = {} /\ ShellGoto(p, "prompt") /\ UNCHANGED parent
  BY <1>1, Moves DEF ShellWait, Waits, Chain, ShellTypeOK
<1>2. ASSUME NEW q \in Pids,
             parent[q] = p,
             pc[q] = "zombie",
             pc' = [pc EXCEPT ![p] = "prompt", ![q] = "none"],
             parent' = [parent EXCEPT ![q] = Nobody]
      PROVE  Chain'
  <2>0. pc[p] = "wait" /\ p # q /\ command' = command
    BY <1>2 DEF ShellWait
  <2>1. /\ pc'[p] = "prompt" /\ pc'[q] = "none"
        /\ \A r \in Pids : r # p /\ r # q => pc'[r] = pc[r]
    BY <1>2, <2>0
  <2>2. parent'[q] = Nobody /\ \A r \in Pids : r # q => parent'[r] = parent[r]
    BY <1>2
  <2>3. \A r \in Pids : parent[r] = p => r = q
    BY <1>2 DEF Chain, OnlyChild
  <2>4. ShellTypeOK'
    BY <1>2, <2>0 DEF Chain, ShellTypeOK
  <2>5. q # Main
    BY <1>2, PidsAssumption DEF Chain, NoParent
  <2>6. MainThere'
    BY <2>1, <2>5, PidsAssumption DEF Chain, MainThere
  <2>7. ParentWaits'
    <3>1. ASSUME NEW r \in Pids, r # q, r # Main, pc'[r] # "none"
          PROVE  parent[r] \in Pids /\ pc'[parent[r]] = "wait"
      <4>1. parent[r] \in Pids /\ pc[parent[r]] = "wait"
        BY <3>1, <2>0, <2>1 DEF Chain, ParentWaits
      <4> QED
        BY <4>1, <3>1, <1>2, <2>1, <2>3
    <3> QED
      BY <3>1, <2>1, <2>2 DEF ParentWaits
  <2>8. NoParent'
    BY <2>0, <2>1, <2>2 DEF Chain, NoParent
  <2>9. OnlyChild'
    BY <2>2, PidsAssumption DEF Chain, OnlyChild
  <2>10. OneAtWork'
    <3>1. ~Waits(q)
      BY <1>2 DEF Waits
    <3>2. \A r \in Pids : r # p /\ r # q /\ Waits(r) => Waits(r)'
      BY <1>2, <2>1, <2>2 DEF Waits, ShellChildren
    <3>3. \A r \in Pids : r # q /\ pc[r] # "none" => Waits(r)
      BY <1>2, <3>1 DEF Chain, OneAtWork
    <3> QED
      BY <2>1, <3>2, <3>3 DEF OneAtWork
  <2> QED
    BY <2>4, <2>6, <2>7, <2>8, <2>9, <2>10 DEF Chain
<1> QED
  BY <1>1, <1>2 DEF ShellWait, ShellChildren

\* Every step preserves the chain.
LEMMA ChainNext == Chain /\ [ShellNext]_shell_vars => Chain'
<1> SUFFICES ASSUME Chain, [ShellNext]_shell_vars PROVE Chain'
  OBVIOUS
<1>1. ASSUME NEW p \in Pids, Read(p) PROVE Chain'
  <2>1. PICK c \in Commands :
          /\ command' = [command EXCEPT ![p] = c]
          /\ ShellGoto(p, CASE c = "blank" -> "prompt" [] c = "exit" -> "end" [] OTHER -> "fork")
    BY <1>1 DEF Read
  <2>2. command' \in [Pids -> Commands]
    BY <2>1 DEF Chain, ShellTypeOK
  <2>3. \E l \in {"prompt", "fork", "end"} : ShellGoto(p, l)
    BY <2>1
  <2> QED
    BY <1>1, <2>2, <2>3, Moves DEF Read, Waits
<1>2. ASSUME NEW p \in Pids, ShellExec(p) PROVE Chain'
  <2>1. \E l \in {"search", "help", "wait"} : ShellGoto(p, l)
    BY <1>2 DEF ShellExec
  <2> QED
    BY <1>2, <2>1, Moves DEF ShellExec, Waits, Programs, Chain, ShellTypeOK
<1>3. ASSUME NEW p \in Pids, End(p) \/ Finish(p) PROVE Chain'
  BY <1>3, Moves DEF End, Finish, Waits, Programs, Chain, ShellTypeOK
<1>4. CASE UNCHANGED shell_vars
  BY <1>4 DEF shell_vars, Chain, ShellTypeOK, MainThere, ParentWaits, NoParent, OnlyChild,
              OneAtWork, Waits, ShellChildren
<1> QED
  BY <1>1, <1>2, <1>3, <1>4, Forks, Reaps DEF ShellNext, ShellStep, Run

\* Every process is always at a place of the loop, of a program or nowhere, with
\* a parent and a command of those there are (ssu_sdup.c, lines 15-71).
THEOREM ShellTypeCorrect == ShellSpec => []ShellTypeOK
<1>1. Chain => ShellTypeOK
  BY DEF Chain
<1> QED
  BY <1>1, ChainInit, ChainNext, PTL DEF ShellSpec

\* At most one process is at work, whatever the number of processes, and
\* wherever fork and exec fail (ssu_sdup.c, lines 32-68).
THEOREM OneWorker == ShellSpec => []OneAtWork
<1>1. Chain => OneAtWork
  BY DEF Chain
<1> QED
  BY <1>1, ChainInit, ChainNext, PTL DEF ShellSpec

\* A shell that prompts or exits has no child left (ssu_sdup.c, lines 38, 46,
\* 54 and 67).
THEOREM NoChildLeft == ShellSpec => []AllReaped
<1>1. Chain => AllReaped
  BY OnlyWaitersHaveChildren DEF AllReaped
<1> QED
  BY <1>1, ChainInit, ChainNext, PTL DEF ShellSpec

\* The process at work: OneAtWork says that there are no two.
AtWork(p) == pc[p] # "none" /\ ~Waits(p)

\* Main itself never runs a program.
MainPlace == pc[Main] \in {"prompt", "fork", "wait", "end"}

\* Some process is at work, and one that has ended has a parent that waits for it.
SomeoneAtWork ==
  \E p \in Pids :
    AtWork(p) /\ (pc[p] = "zombie" => parent[p] \in Pids /\ pc[parent[p]] = "wait")

\* How many steps it is at most from here to the next line of the user.
StepsToGo ==
  [prompt |-> 0, search |-> 0, wait |-> 1, zombie |-> 1, help |-> 2, end |-> 2,
   exec |-> 3, fork |-> 4]

\* Each step that is no input, and that leads from one process at work to the next, leads
\* nearer to the next line of the user.
TurnComesBack ==
  [][\A p, q \in Pids :
       AtWork(p) /\ AtWork(q)' /\ StepsToGo[pc[p]] > 0 =>
         StepsToGo[pc'[q]] < StepsToGo[pc[p]]]_shell_vars

\* The process that makes a step, or the child it waits for, was at work; behind the step
\* it is the same process, its child or its parent.
LEMMA WorkMoves ==
  ASSUME Chain, MainPlace, Chain', ShellNext
  PROVE  /\ MainPlace'
         /\ \E v, w \in Pids :
              /\ AtWork(v) /\ AtWork(w)'
              /\ pc'[w] # "zombie" \/ w # Main
              /\ StepsToGo[pc[v]] > 0 => StepsToGo[pc'[w]] < StepsToGo[pc[v]]
<1> PICK p \in Pids : ShellStep(p)
  BY DEF ShellNext
<1> pc \in [Pids -> {"none", "prompt", "fork", "exec", "wait", "end", "zombie"} \cup Programs]
  BY DEF Chain, ShellTypeOK
<1> parent \in [Pids -> Pids \cup {Nobody}]
  BY DEF Chain, ShellTypeOK
<1> DEFINE Goal(v, w) ==
              /\ AtWork(v) /\ AtWork(w)'
              /\ pc'[w] # "zombie" \/ w # Main
              /\ StepsToGo[pc[v]] > 0 => StepsToGo[pc'[w]] < StepsToGo[pc[v]]
<1>1. CASE Read(p)
  <2>1. PICK c \in Commands :
          ShellGoto(p, CASE c = "blank" -> "prompt" [] c = "exit" -> "end" [] OTHER -> "fork")
    BY <1>1 DEF Read
  <2>2. \E l \in {"prompt", "fork", "end"} : ShellGoto(p, l)
    BY <2>1
  <2>3. pc[p] = "prompt" /\ pc'[p] \in {"prompt", "fork", "end"}
        /\ \A q \in Pids \ {p} : pc'[q] = pc[q]
    BY <1>1, <2>2 DEF Read, ShellGoto
  <2>4. Goal(p, p)
    BY <2>3 DEF AtWork, Waits, StepsToGo
  <2>5. MainPlace'
    BY <2>3, PidsAssumption DEF MainPlace
  <2> QED
    BY <2>4, <2>5
<1>2. CASE ShellFork(p)
  <2>1. pc[p] = "fork" /\ AtWork(p)
    BY <1>2 DEF ShellFork, AtWork, Waits
  <2>2. CASE ShellGoto(p, "wait") /\ UNCHANGED <<parent, command>>
    <3>1. ShellChildren(p) = {}
      BY <2>1, OnlyWaitersHaveChildren
    <3>2. ~Waits(p)' /\ pc'[p] = "wait" /\ \A q \in Pids \ {p} : pc'[q] = pc[q]
      BY <2>2, <3>1 DEF Waits, ShellChildren, ShellGoto
    <3>3. Goal(p, p)
      BY <2>1, <3>2 DEF AtWork, StepsToGo
    <3>4. MainPlace'
      BY <3>2, PidsAssumption DEF MainPlace
    <3> QED
      BY <3>3, <3>4
  <2>3. CASE \E q \in Pids : pc[q] = "none" /\ pc' = [pc EXCEPT ![p] = "wait", ![q] = "exec"]
    <3>1. PICK q \in Pids : pc[q] = "none" /\ pc' = [pc EXCEPT ![p] = "wait", ![q] = "exec"]
      BY <2>3
    <3>2. pc'[q] = "exec" /\ pc'[p] = "wait" /\ \A r \in Pids \ {p, q} : pc'[r] = pc[r]
      BY <2>1, <3>1
    <3>3. Goal(p, q)
      BY <2>1, <3>2 DEF AtWork, Waits, StepsToGo
    <3>4. MainPlace'
      BY <3>1, <3>2, PidsAssumption DEF MainPlace
    <3> QED
      BY <3>3, <3>4
  <2> QED
    BY <1>2, <2>2, <2>3 DEF ShellFork
<1>3. CASE ShellExec(p)
  <2>1. pc[p] = "exec" /\ AtWork(p) /\ p # Main /\ parent' = parent
    BY <1>3 DEF ShellExec, AtWork, Waits, MainPlace
  <2>2. \E l \in {"search", "help", "wait"} : ShellGoto(p, l)
    BY <1>3 DEF ShellExec
  <2>3. pc'[p] \in {"search", "help", "wait"} /\ \A q \in Pids \ {p} : pc'[q] = pc[q]
    BY <2>2 DEF ShellGoto
  <2>4. ShellChildren(p)' = {}
    BY <2>1, OnlyWaitersHaveChildren DEF ShellChildren
  <2>5. Goal(p, p)
    BY <2>1, <2>3, <2>4 DEF AtWork, Waits, StepsToGo
  <2>6. MainPlace'
    BY <2>1, <2>3, PidsAssumption DEF MainPlace
  <2> QED
    BY <2>5, <2>6
<1>4. CASE ShellWait(p)
  <2>1. pc[p] = "wait"
    BY <1>4 DEF ShellWait
  <2>2. CASE ShellChildren(p) = {} /\ ShellGoto(p, "prompt")
    <3>1. AtWork(p) /\ pc'[p] = "prompt" /\ \A q \in Pids \ {p} : pc'[q] = pc[q]
      BY <2>1, <2>2 DEF AtWork, Waits, ShellGoto
    <3>2. Goal(p, p)
      BY <2>1, <3>1 DEF AtWork, Waits, StepsToGo
    <3>3. MainPlace'
      BY <3>1, PidsAssumption DEF MainPlace
    <3> QED
      BY <3>2, <3>3
  <2>3. CASE \E q \in ShellChildren(p) :
               pc[q] = "zombie" /\ pc' = [pc EXCEPT ![p] = "prompt", ![q] = "none"]
    <3>1. PICK q \in ShellChildren(p) :
            pc[q] = "zombie" /\ pc' = [pc EXCEPT ![p] = "prompt", ![q] = "none"]
      BY <2>3
    <3>2. q \in Pids /\ q # p /\ AtWork(q) /\ q # Main
      BY <2>1, <3>1 DEF ShellChildren, AtWork, Waits, MainPlace
    <3>3. pc'[p] = "prompt" /\ \A r \in Pids \ {p, q} : pc'[r] = pc[r]
      BY <3>1, <3>2
    <3>4. Goal(q, p)
      BY <3>1, <3>2, <3>3 DEF AtWork, Waits, StepsToGo
    <3>5. MainPlace'
      BY <3>2, <3>3, PidsAssumption DEF MainPlace
    <3> QED
      BY <3>2, <3>4, <3>5
  <2> QED
    BY <1>4, <2>2, <2>3 DEF ShellWait
<1>5. CASE End(p) \/ Finish(p)
  <2>1. pc[p] \in {"end", "search", "help"} /\ p # Main /\ pc'[p] = "zombie"
        /\ \A q \in Pids \ {p} : pc'[q] = pc[q]
    BY <1>5 DEF End, Finish, ShellGoto, Programs, MainPlace
  <2>2. Goal(p, p)
    BY <2>1 DEF AtWork, Waits, StepsToGo
  <2>3. MainPlace'
    BY <2>1, PidsAssumption DEF MainPlace
  <2> QED
    BY <2>2, <2>3
<1> QED
  BY <1>1, <1>2, <1>3, <1>4, <1>5 DEF ShellStep, Run

\* The processes never all wait for one another, whatever fork and exec refuse: some
\* process is at work, or has ended and is waited for (ssu_sdup.c, lines 32-68).
THEOREM NeverAllWait == ShellSpec => []SomeoneAtWork
<1>1. ShellInit => Chain /\ MainPlace /\ SomeoneAtWork
  BY ChainInit, PidsAssumption
     DEF ShellInit, MainPlace, SomeoneAtWork, AtWork, Waits
<1>2. Chain /\ MainPlace /\ SomeoneAtWork /\ [ShellNext]_shell_vars
      => Chain' /\ MainPlace' /\ SomeoneAtWork'
  <2> SUFFICES ASSUME Chain, MainPlace, SomeoneAtWork, [ShellNext]_shell_vars
               PROVE  Chain' /\ MainPlace' /\ SomeoneAtWork'
    OBVIOUS
  <2>1. Chain'
    BY ChainNext
  <2>2. CASE ShellNext
    <3>1. MainPlace' /\ \E w \in Pids : AtWork(w)' /\ (pc'[w] # "zombie" \/ w # Main)
      BY <2>1, <2>2, WorkMoves
    <3>2. PICK w \in Pids : AtWork(w)' /\ (pc'[w] # "zombie" \/ w # Main)
      BY <3>1
    <3>3. pc'[w] = "zombie" => parent'[w] \in Pids /\ pc'[parent'[w]] = "wait"
      BY <2>1, <3>2 DEF Chain, ParentWaits
    <3> QED
      BY <2>1, <3>1, <3>2, <3>3 DEF SomeoneAtWork
  <2>3. CASE UNCHANGED shell_vars
    BY <2>1, <2>3 DEF shell_vars, MainPlace, SomeoneAtWork, AtWork, Waits, ShellChildren
  <2> QED
    BY <2>2, <2>3
<1> QED
  BY <1>1, <1>2, PTL DEF ShellSpec

\* Within four steps the user is asked for the next line, at a prompt or in fmd5 and
\* fsha1, unless Main has left: the safety half of SomeoneReads; the fairness of Run is the
\* other.
THEOREM UserIsAskedSoon == ShellSpec => TurnComesBack
<1>1. ShellInit => Chain /\ MainPlace
  BY ChainInit, PidsAssumption DEF ShellInit, MainPlace
<1>2. Chain /\ MainPlace /\ [ShellNext]_shell_vars => Chain' /\ MainPlace'
  BY ChainNext, WorkMoves DEF MainPlace, shell_vars
<1>3. Chain /\ MainPlace /\ Chain' /\ [ShellNext]_shell_vars
      => [\A p, q \in Pids :
            AtWork(p) /\ AtWork(q)' /\ StepsToGo[pc[p]] > 0 =>
              StepsToGo[pc'[q]] < StepsToGo[pc[p]]]_shell_vars
  <2> SUFFICES ASSUME Chain, MainPlace, Chain', ShellNext,
                      NEW p \in Pids, NEW q \in Pids, AtWork(p), AtWork(q)', StepsToGo[pc[p]] > 0
               PROVE  StepsToGo[pc'[q]] < StepsToGo[pc[p]]
    OBVIOUS
  <2>1. PICK v, w \in Pids :
          /\ AtWork(v) /\ AtWork(w)'
          /\ StepsToGo[pc[v]] > 0 => StepsToGo[pc'[w]] < StepsToGo[pc[v]]
    BY WorkMoves
  <2>2. p = v /\ q = w
    BY <2>1 DEF AtWork, Chain, OneAtWork
  <2> QED
    BY <2>1, <2>2
<1> QED
  BY <1>1, <1>2, <1>3, PTL DEF ShellSpec, TurnComesBack
-----------------------------------------------------------------------------
(***************************************************************************)
(* The exercises.  What is known of a process follows from its place in the*)
(* program.  The next definitions say what, program by program, and which  *)
(* calls keep it; the lemmas after them check it call by call.             *)
(***************************************************************************)

\* What each program prints, and in which place of which block.
Prints ==
  [fork1  |-> {<<"standard_output", "main", 1>>, <<"before_fork", "main", 2>>,
             <<"values", "main", 4>>},
   fork2  |-> {<<"a", "child", 1>>, <<"z", "child", 2>>, <<"A", "main", 2>>,
               <<"Z", "main", 3>>, <<"newline", "main", 4>>},
   fork3  |-> {<<"child_first", "child", 1>>, <<"child_last", "child", 2>>,
               <<"parent_first", "main", 2>>, <<"parent_last", "main", 3>>},
   execl1 |-> {<<"original", "main", 1>>, <<"never", "main", 3>>},
   execl2 |-> {<<"ending", "main", 4>>},
   execv1 |-> {<<"term_stat", "main", 4>>},
   wait1  |-> {<<"echo_1", "main", 4>>, <<"echo_2", "main", 8>>, <<"echo_3", "main", 12>>},
   wait2  |-> {<<"child", "child", 1>>, <<"waiting", "main", 2>>,
              <<"return_value", "main", 4>>},
   wait3  |-> {<<"waiting", "main", 3>>, <<"all_terminated", "main", 6>>},
   wait4  |-> {<<"waiting", "main", 3>>, <<"all_terminated", "main", 6>>,
               <<"first_child", "main", 9>>, <<"second_child", "main", 12>>},
   daemon |-> {<<"parent_process", "main", 1>>, <<"initialization", "main", 2>>,
               <<"running_as_daemon", "child", 1>>},
   syslog |-> {<<"initialization", "main", 1>>, <<"running_as_daemon", "child", 1>>}]

\* A process at this place may be behind the line x: it runs forwards, but for the
\* loops of wait3 and wait4 around wait.
Behind(g, x, at, n) ==
  \/ x[2] # "main" /\ at = "main"
  \/ x[2] = at /\ IF g = "wait4" /\ at = "main" /\ x[3] = 6 THEN n = 7
                  ELSE IF g = "wait4" /\ at = "main" /\ x[3] \in {9, 12} THEN n >= 4
                  ELSE x[3] < n

\* The calls behind which a process does not go on to the next one.
Final == {"goto", "exit", "abort", "loop"}
\* The calls there are.
Names == {"goto", "is", "printf", "write", "fork", "exec", "wait", "exit", "abort", "divide",
          "close_all", "null", "loop"}
\* There is a call k in the block b of the program g.
Place(g, b, k) == b \in DOMAIN Program[g] /\ k \in DOMAIN Program[g][b]
\* A process that goes on from one place to the other stays behind the lines it is behind.
Flow(g, at, n, b, k) ==
  /\ Place(g, b, k)
  /\ \A x \in Prints[g] : Behind(g, x, at, n) => Behind(g, x, b, k)

\* The programs that wait for their children.
Waiters == {"execv1", "wait1", "wait2", "wait3", "wait4"}

\* How many children a process of these programs may have at this place.
Bound(g, at, n) ==
  IF at = "main" /\ \/ g = "execv1" /\ n = 2
                    \/ g = "wait1" /\ n \in {2, 6, 10}
                    \/ g = "wait2" /\ n \in {2, 3}
  THEN "one"
  ELSE IF at = "main" /\ \/ g = "wait3" /\ n \in {2, 3, 4}
                         \/ g = "wait4" /\ n \in {2, 3, 4, 8, 9, 10, 11, 12, 13}
  THEN "any"
  ELSE IF at = "main" /\ g \in {"wait3", "wait4"} /\ n = 5 THEN "told" ELSE "none"

\* A place with the bound b asks no more than one with the bound a: "none" allows no child,
\* "told" none if wait has returned an error, "one" a single one, "any" all.
Eases(a, b) == a = "none" \/ b = "any" \/ a = b

\* The call c at this place keeps the bounds: it goes on to a place that asks no more, ends
\* and forks only where that is allowed, and leaves "told" for the bound that a failing wait
\* gives.
Counted(g, at, n, c) ==
  LET here == Bound(g, at, n)
      next == Bound(g, at, n + 1)
  IN  /\ c.call \in {"printf", "write", "close_all", "null", "exec", "divide"} =>
           Eases(here, next)
      /\ c.call \in {"exit", "abort", "exec", "divide"} => here = "none"
      /\ c.call = "goto" => Eases(here, Bound(g, "main", c.n))
      /\ c.call = "is" => \/ (c.var = "error" /\ here = "told" /\ Bound(g, "main", c.n) = "any")
                          \/ (Eases(here, next) /\ Eases(here, Bound(g, "main", c.n)))
      /\ c.call = "fork" => /\ Eases(here, Bound(g, "main", c.fails))
                            /\ next = "any" \/ (here = "none" /\ next = "one")
                            /\ Bound(g, c.child, 1) = "none"
      /\ c.call = "wait" => next \in {"any", "told"} \/ here = "one"

\* What types and lines need of the call c at this place: it goes on to a place of the
\* program and not in front of a line that is printed, its arguments have their types, and
\* what it prints is the line that Prints names here.
Checked(g, at, n, c) ==
  /\ at \in Blocks \ {"other"} /\ n \in Nat
  /\ c.call \in Names
  /\ c.call \notin Final => Flow(g, at, n, at, n + 1)
  /\ c.call \in {"goto", "is"} => Flow(g, at, n, "main", c.n)
  /\ c.call = "fork" => Flow(g, at, n, "main", c.fails) /\ Place(g, c.child, 1)
                        /\ c.child # "main" /\ c.var \in {"pid", "child1", "child2"}
  /\ c.call = "is" => c.var \in {"pid", "child1", "child2", "error"}
  /\ c.call = "exit" => c.code \in {0, 1, 7}
  /\ c.call \in Printing => /\ <<c.text, at, n>> \in Prints[g]
                            /\ \A x \in Prints[g] : x[1] = c.text => x[2] = at /\ x[3] = n

\* The programs that print in front of a fork that leads to an exit, or of an exec.
Early == {"fork1", "execl1", "daemon", "syslog"}

\* The other programs: the first place in main with a line.
FirstLine ==
  [fork2 |-> 2, fork3 |-> 2, execl2 |-> 4, execv1 |-> 4, wait1 |-> 4, wait2 |-> 2,
   wait3 |-> 3, wait4 |-> 3]

\* A process at this place of one of them has nothing in the buffer of its standard output.
Clear(g, at, n) ==
  /\ at = "main" => n <= FirstLine[g]
  /\ at = "child" /\ g \in {"fork2", "fork3", "wait2"} => n = 1
  /\ ~(g = "wait1" /\ at \in {"child2", "child3"})

\* The standard output of a process at this place still leads out.
Outward(g, at, n) == g \in {"daemon", "syslog"} => at = "main" \/ n <= 2

\* A process may go on from the first place to the second: if nothing may be in the buffer
\* at the second, nothing is at the first, and where the output leads out at the second, it
\* does at the first.
Leads(g, at, n, b, k) ==
  /\ g \notin Early /\ Clear(g, b, k) => Clear(g, at, n)
  /\ Outward(g, b, k) => Outward(g, at, n)

\* What the buffers need of the call c at this place: Leads wherever it goes on, lines only
\* where the output leads out, and exec and the exits only where the buffer may be dropped.
Voiced(g, at, n, c) ==
  /\ c.call \notin Final => Leads(g, at, n, at, n + 1)
  /\ c.call \in {"goto", "is"} => Leads(g, at, n, "main", c.n)
  /\ c.call = "fork" => Leads(g, at, n, "main", c.fails) /\ Leads(g, at, n, c.child, 1)
  /\ c.call \in Printing => /\ Outward(g, at, n) /\ (g = "wait1" => at = "main")
                            /\ g \notin Early => ~Clear(g, at, n + 1)
  /\ c.call \in {"close_all", "null"} => ~Outward(g, at, n + 1)
  /\ c.call = "exec" => g # "wait1" /\ (g = "execl1" \/ Clear(g, at, n))
  /\ c.call = "loop" => g = "syslog"
  /\ c.call = "wait" => g # "syslog"
  /\ c.call \in {"abort", "divide"} => g = "wait1" /\ at # "main"
  /\ c.call = "exit" => g # "wait1" \/ at = "main" \/ Clear(g, at, n)

\* The tables above are right: every call of every program meets its conditions.  One lemma
\* for each program, with one case for each call.
LEMMA Calls_fork1 ==
  ASSUME NEW at \in DOMAIN fork1, NEW n \in DOMAIN fork1[at]
  PROVE  /\ Checked("fork1", at, n, fork1[at][n])
         /\ Voiced("fork1", at, n, fork1[at][n])
<1>0. Program["fork1"] = fork1
  BY DEF Program
<1> USE DEF exit, fork, goto, printf, write, fork1, Printing, Final
<1>1. CASE at = "main"
  <2>1. n \in 1..6 /\ DOMAIN fork1["main"] = 1..6
    BY <1>1
  <2>2. Checked("fork1", at, n, fork1[at][n])
    BY <1>0, <1>1, <2>1 DEF Checked, Names, Blocks, Flow, Place, Prints, Behind
  <2>3. Voiced("fork1", at, n, fork1[at][n])
    BY <1>1, <2>1 DEF Voiced, Leads, Clear, FirstLine, Outward, Early
  <2> QED
    BY <2>2, <2>3
<1>2. CASE at = "child"
  <2>1. n \in 1..1 /\ DOMAIN fork1["child"] = 1..1
    BY <1>2
  <2>2. Checked("fork1", at, n, fork1[at][n])
    BY <1>0, <1>2, <2>1 DEF Checked, Names, Blocks, Flow, Place, Prints, Behind
  <2>3. Voiced("fork1", at, n, fork1[at][n])
    BY <1>2, <2>1 DEF Voiced, Leads, Clear, FirstLine, Outward, Early
  <2> QED
    BY <2>2, <2>3
<1> QED
  BY <1>1, <1>2

LEMMA Calls_fork2 ==
  ASSUME NEW at \in DOMAIN fork2, NEW n \in DOMAIN fork2[at]
  PROVE  /\ Checked("fork2", at, n, fork2[at][n])
         /\ Voiced("fork2", at, n, fork2[at][n])
<1>0. Program["fork2"] = fork2
  BY DEF Program
<1> USE DEF exit, fork, goto, printf, write, fork2, Printing, Final
<1>1. CASE at = "main"
  <2>1. n \in 1..6 /\ DOMAIN fork2["main"] = 1..6
    BY <1>1
  <2>2. Checked("fork2", at, n, fork2[at][n])
    BY <1>0, <1>1, <2>1 DEF Checked, Names, Blocks, Flow, Place, Prints, Behind
  <2>3. Voiced("fork2", at, n, fork2[at][n])
    BY <1>1, <2>1 DEF Voiced, Leads, Clear, FirstLine, Outward, Early
  <2> QED
    BY <2>2, <2>3
<1>2. CASE at = "child"
  <2>1. n \in 1..3 /\ DOMAIN fork2["child"] = 1..3
    BY <1>2
  <2>2. Checked("fork2", at, n, fork2[at][n])
    BY <1>0, <1>2, <2>1 DEF Checked, Names, Blocks, Flow, Place, Prints, Behind
  <2>3. Voiced("fork2", at, n, fork2[at][n])
    BY <1>2, <2>1 DEF Voiced, Leads, Clear, FirstLine, Outward, Early
  <2> QED
    BY <2>2, <2>3
<1> QED
  BY <1>1, <1>2

LEMMA Calls_fork3 ==
  ASSUME NEW at \in DOMAIN fork3, NEW n \in DOMAIN fork3[at]
  PROVE  /\ Checked("fork3", at, n, fork3[at][n])
         /\ Voiced("fork3", at, n, fork3[at][n])
<1>0. Program["fork3"] = fork3
  BY DEF Program
<1> USE DEF exit, fork, goto, write, fork3, Printing, Final
<1>1. CASE at = "main"
  <2>1. n \in 1..5 /\ DOMAIN fork3["main"] = 1..5
    BY <1>1
  <2>2. Checked("fork3", at, n, fork3[at][n])
    BY <1>0, <1>1, <2>1 DEF Checked, Names, Blocks, Flow, Place, Prints, Behind
  <2>3. Voiced("fork3", at, n, fork3[at][n])
    BY <1>1, <2>1 DEF Voiced, Leads, Clear, FirstLine, Outward, Early
  <2> QED
    BY <2>2, <2>3
<1>2. CASE at = "child"
  <2>1. n \in 1..3 /\ DOMAIN fork3["child"] = 1..3
    BY <1>2
  <2>2. Checked("fork3", at, n, fork3[at][n])
    BY <1>0, <1>2, <2>1 DEF Checked, Names, Blocks, Flow, Place, Prints, Behind
  <2>3. Voiced("fork3", at, n, fork3[at][n])
    BY <1>2, <2>1 DEF Voiced, Leads, Clear, FirstLine, Outward, Early
  <2> QED
    BY <2>2, <2>3
<1> QED
  BY <1>1, <1>2

LEMMA Calls_execl1 ==
  ASSUME NEW at \in DOMAIN execl1, NEW n \in DOMAIN execl1[at]
  PROVE  /\ Checked("execl1", at, n, execl1[at][n])
         /\ Voiced("execl1", at, n, execl1[at][n])
<1>0. Program["execl1"] = execl1
  BY DEF Program
<1> USE DEF Call, exec, exit, printf, execl1, Printing, Final
<1>1. CASE at = "main"
  <2>1. n \in 1..4 /\ DOMAIN execl1["main"] = 1..4
    BY <1>1
  <2>2. Checked("execl1", at, n, execl1[at][n])
    BY <1>0, <1>1, <2>1 DEF Checked, Names, Blocks, Flow, Place, Prints, Behind
  <2>3. Voiced("execl1", at, n, execl1[at][n])
    BY <1>1, <2>1 DEF Voiced, Leads, Clear, FirstLine, Outward, Early
  <2> QED
    BY <2>2, <2>3
<1> QED
  BY <1>1

LEMMA Calls_execl2 ==
  ASSUME NEW at \in DOMAIN execl2, NEW n \in DOMAIN execl2[at]
  PROVE  /\ Checked("execl2", at, n, execl2[at][n])
         /\ Voiced("execl2", at, n, execl2[at][n])
<1>0. Program["execl2"] = execl2
  BY DEF Program
<1> USE DEF Call, exec, exit, fork, printf, execl2, Printing, Final
<1>1. CASE at = "main"
  <2>1. n \in 1..5 /\ DOMAIN execl2["main"] = 1..5
    BY <1>1
  <2>2. Checked("execl2", at, n, execl2[at][n])
    BY <1>0, <1>1, <2>1 DEF Checked, Names, Blocks, Flow, Place, Prints, Behind
  <2>3. Voiced("execl2", at, n, execl2[at][n])
    BY <1>1, <2>1 DEF Voiced, Leads, Clear, FirstLine, Outward, Early
  <2> QED
    BY <2>2, <2>3
<1>2. CASE at = "child"
  <2>1. n \in 1..2 /\ DOMAIN execl2["child"] = 1..2
    BY <1>2
  <2>2. Checked("execl2", at, n, execl2[at][n])
    BY <1>0, <1>2, <2>1 DEF Checked, Names, Blocks, Flow, Place, Prints, Behind
  <2>3. Voiced("execl2", at, n, execl2[at][n])
    BY <1>2, <2>1 DEF Voiced, Leads, Clear, FirstLine, Outward, Early
  <2> QED
    BY <2>2, <2>3
<1> QED
  BY <1>1, <1>2

LEMMA Calls_execv1 ==
  ASSUME NEW at \in DOMAIN execv1, NEW n \in DOMAIN execv1[at]
  PROVE  /\ Checked("execv1", at, n, execv1[at][n])
         /\ Voiced("execv1", at, n, execv1[at][n])
         /\ Counted("execv1", at, n, execv1[at][n])
<1>0. Program["execv1"] = execv1
  BY DEF Program
<1> USE DEF Call, exec, exit, fork, is, printf, wait, execv1, Printing, Final
<1>1. CASE at = "main"
  <2>1. n \in 1..6 /\ DOMAIN execv1["main"] = 1..6
    BY <1>1
  <2>2. Checked("execv1", at, n, execv1[at][n])
    BY <1>0, <1>1, <2>1 DEF Checked, Names, Blocks, Flow, Place, Prints, Behind
  <2>3. Voiced("execv1", at, n, execv1[at][n])
    BY <1>1, <2>1 DEF Voiced, Leads, Clear, FirstLine, Outward, Early
  <2>4. Counted("execv1", at, n, execv1[at][n])
    BY <1>1, <2>1 DEF Counted, Bound, Eases
  <2> QED
    BY <2>2, <2>3, <2>4
<1>2. CASE at = "child"
  <2>1. n \in 1..2 /\ DOMAIN execv1["child"] = 1..2
    BY <1>2
  <2>2. Checked("execv1", at, n, execv1[at][n])
    BY <1>0, <1>2, <2>1 DEF Checked, Names, Blocks, Flow, Place, Prints, Behind
  <2>3. Voiced("execv1", at, n, execv1[at][n])
    BY <1>2, <2>1 DEF Voiced, Leads, Clear, FirstLine, Outward, Early
  <2>4. Counted("execv1", at, n, execv1[at][n])
    BY <1>2, <2>1 DEF Counted, Bound, Eases
  <2> QED
    BY <2>2, <2>3, <2>4
<1> QED
  BY <1>1, <1>2

LEMMA Calls_wait1 ==
  ASSUME NEW at \in DOMAIN wait1, NEW n \in DOMAIN wait1[at]
  PROVE  /\ Checked("wait1", at, n, wait1[at][n])
         /\ Voiced("wait1", at, n, wait1[at][n])
         /\ Counted("wait1", at, n, wait1[at][n])
<1>0. Program["wait1"] = wait1
  BY DEF Program
<1> USE DEF Call, abort, divide, exit, fork, goto, is, printf, wait, wait1, Printing, Final
<1>1. CASE at = "main"
  <2>1. n \in 1..14 /\ DOMAIN wait1["main"] = 1..14
    BY <1>1
  <2>2. Checked("wait1", at, n, wait1[at][n])
    BY <1>0, <1>1, <2>1 DEF Checked, Names, Blocks, Flow, Place, Prints, Behind
  <2>3. Voiced("wait1", at, n, wait1[at][n])
    BY <1>1, <2>1 DEF Voiced, Leads, Clear, FirstLine, Outward, Early
  <2>4. Counted("wait1", at, n, wait1[at][n])
    BY <1>1, <2>1 DEF Counted, Bound, Eases
  <2> QED
    BY <2>2, <2>3, <2>4
<1>2. CASE at = "child"
  <2>1. n \in 1..1 /\ DOMAIN wait1["child"] = 1..1
    BY <1>2
  <2>2. Checked("wait1", at, n, wait1[at][n])
    BY <1>0, <1>2, <2>1 DEF Checked, Names, Blocks, Flow, Place, Prints, Behind
  <2>3. Voiced("wait1", at, n, wait1[at][n])
    BY <1>2, <2>1 DEF Voiced, Leads, Clear, FirstLine, Outward, Early
  <2>4. Counted("wait1", at, n, wait1[at][n])
    BY <1>2, <2>1 DEF Counted, Bound, Eases
  <2> QED
    BY <2>2, <2>3, <2>4
<1>3. CASE at = "child2"
  <2>1. n \in 1..1 /\ DOMAIN wait1["child2"] = 1..1
    BY <1>3
  <2>2. Checked("wait1", at, n, wait1[at][n])
    BY <1>0, <1>3, <2>1 DEF Checked, Names, Blocks, Flow, Place, Prints, Behind
  <2>3. Voiced("wait1", at, n, wait1[at][n])
    BY <1>3, <2>1 DEF Voiced, Leads, Clear, FirstLine, Outward, Early
  <2>4. Counted("wait1", at, n, wait1[at][n])
    BY <1>3, <2>1 DEF Counted, Bound, Eases
  <2> QED
    BY <2>2, <2>3, <2>4
<1>4. CASE at = "child3"
  <2>1. n \in 1..2 /\ DOMAIN wait1["child3"] = 1..2
    BY <1>4
  <2>2. Checked("wait1", at, n, wait1[at][n])
    BY <1>0, <1>4, <2>1 DEF Checked, Names, Blocks, Flow, Place, Prints, Behind
  <2>3. Voiced("wait1", at, n, wait1[at][n])
    BY <1>4, <2>1 DEF Voiced, Leads, Clear, FirstLine, Outward, Early
  <2>4. Counted("wait1", at, n, wait1[at][n])
    BY <1>4, <2>1 DEF Counted, Bound, Eases
  <2> QED
    BY <2>2, <2>3, <2>4
<1> QED
  BY <1>1, <1>2, <1>3, <1>4

LEMMA Calls_wait2 ==
  ASSUME NEW at \in DOMAIN wait2, NEW n \in DOMAIN wait2[at]
  PROVE  /\ Checked("wait2", at, n, wait2[at][n])
         /\ Voiced("wait2", at, n, wait2[at][n])
         /\ Counted("wait2", at, n, wait2[at][n])
<1>0. Program["wait2"] = wait2
  BY DEF Program
<1> USE DEF Call, exit, fork, printf, wait, wait2, Printing, Final
<1>1. CASE at = "main"
  <2>1. n \in 1..5 /\ DOMAIN wait2["main"] = 1..5
    BY <1>1
  <2>2. Checked("wait2", at, n, wait2[at][n])
    BY <1>0, <1>1, <2>1 DEF Checked, Names, Blocks, Flow, Place, Prints, Behind
  <2>3. Voiced("wait2", at, n, wait2[at][n])
    BY <1>1, <2>1 DEF Voiced, Leads, Clear, FirstLine, Outward, Early
  <2>4. Counted("wait2", at, n, wait2[at][n])
    BY <1>1, <2>1 DEF Counted, Bound, Eases
  <2> QED
    BY <2>2, <2>3, <2>4
<1>2. CASE at = "child"
  <2>1. n \in 1..2 /\ DOMAIN wait2["child"] = 1..2
    BY <1>2
  <2>2. Checked("wait2", at, n, wait2[at][n])
    BY <1>0, <1>2, <2>1 DEF Checked, Names, Blocks, Flow, Place, Prints, Behind
  <2>3. Voiced("wait2", at, n, wait2[at][n])
    BY <1>2, <2>1 DEF Voiced, Leads, Clear, FirstLine, Outward, Early
  <2>4. Counted("wait2", at, n, wait2[at][n])
    BY <1>2, <2>1 DEF Counted, Bound, Eases
  <2> QED
    BY <2>2, <2>3, <2>4
<1> QED
  BY <1>1, <1>2

LEMMA Calls_wait3 ==
  ASSUME NEW at \in DOMAIN wait3, NEW n \in DOMAIN wait3[at]
  PROVE  /\ Checked("wait3", at, n, wait3[at][n])
         /\ Voiced("wait3", at, n, wait3[at][n])
         /\ Counted("wait3", at, n, wait3[at][n])
<1>0. Program["wait3"] = wait3
  BY DEF Program
<1> USE DEF Call, exec, exit, fork, goto, is, printf, wait, wait3, Printing, Final
<1>1. CASE at = "main"
  <2>1. n \in 1..7 /\ DOMAIN wait3["main"] = 1..7
    BY <1>1
  <2>2. Checked("wait3", at, n, wait3[at][n])
    BY <1>0, <1>1, <2>1 DEF Checked, Names, Blocks, Flow, Place, Prints, Behind
  <2>3. Voiced("wait3", at, n, wait3[at][n])
    BY <1>1, <2>1 DEF Voiced, Leads, Clear, FirstLine, Outward, Early
  <2>4. \A k : Bound("wait3", "main", k) =
                IF k \in {2, 3, 4} THEN "any" ELSE IF k = 5 THEN "told" ELSE "none"
    BY DEF Bound
  <2>5. \A b \in {"child", "child2"} : Bound("wait3", b, 1) = "none"
    BY DEF Bound
  <2>6. Counted("wait3", at, n, wait3[at][n])
    BY <1>1, <2>1, <2>4, <2>5 DEF Counted, Eases
  <2> QED
    BY <2>2, <2>3, <2>6
<1>2. CASE at = "child"
  <2>1. n \in 1..2 /\ DOMAIN wait3["child"] = 1..2
    BY <1>2
  <2>2. Checked("wait3", at, n, wait3[at][n])
    BY <1>0, <1>2, <2>1 DEF Checked, Names, Blocks, Flow, Place, Prints, Behind
  <2>3. Voiced("wait3", at, n, wait3[at][n])
    BY <1>2, <2>1 DEF Voiced, Leads, Clear, FirstLine, Outward, Early
  <2>4. Counted("wait3", at, n, wait3[at][n])
    BY <1>2, <2>1 DEF Counted, Bound, Eases
  <2> QED
    BY <2>2, <2>3, <2>4
<1>3. CASE at = "child2"
  <2>1. n \in 1..2 /\ DOMAIN wait3["child2"] = 1..2
    BY <1>3
  <2>2. Checked("wait3", at, n, wait3[at][n])
    BY <1>0, <1>3, <2>1 DEF Checked, Names, Blocks, Flow, Place, Prints, Behind
  <2>3. Voiced("wait3", at, n, wait3[at][n])
    BY <1>3, <2>1 DEF Voiced, Leads, Clear, FirstLine, Outward, Early
  <2>4. Counted("wait3", at, n, wait3[at][n])
    BY <1>3, <2>1 DEF Counted, Bound, Eases
  <2> QED
    BY <2>2, <2>3, <2>4
<1> QED
  BY <1>1, <1>2, <1>3

LEMMA Calls_wait4 ==
  ASSUME NEW at \in DOMAIN wait4, NEW n \in DOMAIN wait4[at]
  PROVE  /\ Checked("wait4", at, n, wait4[at][n])
         /\ Voiced("wait4", at, n, wait4[at][n])
         /\ Counted("wait4", at, n, wait4[at][n])
<1>0. Program["wait4"] = wait4
  BY DEF Program
<1> USE DEF Call, exec, exit, fork, goto, is, printf, wait, wait4, Printing, Final
<1>1. CASE at = "main"
  <2>1. n \in 1..13 /\ DOMAIN wait4["main"] = 1..13
    BY <1>1
  <2>2. Checked("wait4", at, n, wait4[at][n])
    BY <1>0, <1>1, <2>1 DEF Checked, Names, Blocks, Flow, Place, Prints, Behind
  <2>3. Voiced("wait4", at, n, wait4[at][n])
    BY <1>1, <2>1 DEF Voiced, Leads, Clear, FirstLine, Outward, Early
  <2>4. \A k : Bound("wait4", "main", k) =
                IF k \in {2, 3, 4, 8, 9, 10, 11, 12, 13} THEN "any"
                ELSE IF k = 5 THEN "told" ELSE "none"
    BY DEF Bound
  <2>5. \A b \in {"child", "child2"} : Bound("wait4", b, 1) = "none"
    BY DEF Bound
  <2>6. Counted("wait4", at, n, wait4[at][n])
    BY <1>1, <2>1, <2>4, <2>5 DEF Counted, Eases
  <2> QED
    BY <2>2, <2>3, <2>6
<1>2. CASE at = "child"
  <2>1. n \in 1..2 /\ DOMAIN wait4["child"] = 1..2
    BY <1>2
  <2>2. Checked("wait4", at, n, wait4[at][n])
    BY <1>0, <1>2, <2>1 DEF Checked, Names, Blocks, Flow, Place, Prints, Behind
  <2>3. Voiced("wait4", at, n, wait4[at][n])
    BY <1>2, <2>1 DEF Voiced, Leads, Clear, FirstLine, Outward, Early
  <2>4. Counted("wait4", at, n, wait4[at][n])
    BY <1>2, <2>1 DEF Counted, Bound, Eases
  <2> QED
    BY <2>2, <2>3, <2>4
<1>3. CASE at = "child2"
  <2>1. n \in 1..2 /\ DOMAIN wait4["child2"] = 1..2
    BY <1>3
  <2>2. Checked("wait4", at, n, wait4[at][n])
    BY <1>0, <1>3, <2>1 DEF Checked, Names, Blocks, Flow, Place, Prints, Behind
  <2>3. Voiced("wait4", at, n, wait4[at][n])
    BY <1>3, <2>1 DEF Voiced, Leads, Clear, FirstLine, Outward, Early
  <2>4. Counted("wait4", at, n, wait4[at][n])
    BY <1>3, <2>1 DEF Counted, Bound, Eases
  <2> QED
    BY <2>2, <2>3, <2>4
<1> QED
  BY <1>1, <1>2, <1>3

LEMMA Calls_daemon ==
  ASSUME NEW at \in DOMAIN daemon, NEW n \in DOMAIN daemon[at]
  PROVE  /\ Checked("daemon", at, n, daemon[at][n])
         /\ Voiced("daemon", at, n, daemon[at][n])
<1>0. Program["daemon"] = daemon
  BY DEF Program
<1> USE DEF Call, close_all, exit, fork, null, printf, daemon, Printing, Final
<1>1. CASE at = "main"
  <2>1. n \in 1..5 /\ DOMAIN daemon["main"] = 1..5
    BY <1>1
  <2>2. Checked("daemon", at, n, daemon[at][n])
    BY <1>0, <1>1, <2>1 DEF Checked, Names, Blocks, Flow, Place, Prints, Behind
  <2>3. Voiced("daemon", at, n, daemon[at][n])
    BY <1>1, <2>1 DEF Voiced, Leads, Clear, FirstLine, Outward, Early
  <2> QED
    BY <2>2, <2>3
<1>2. CASE at = "child"
  <2>1. n \in 1..4 /\ DOMAIN daemon["child"] = 1..4
    BY <1>2
  <2>2. Checked("daemon", at, n, daemon[at][n])
    BY <1>0, <1>2, <2>1 DEF Checked, Names, Blocks, Flow, Place, Prints, Behind
  <2>3. Voiced("daemon", at, n, daemon[at][n])
    BY <1>2, <2>1 DEF Voiced, Leads, Clear, FirstLine, Outward, Early
  <2> QED
    BY <2>2, <2>3
<1> QED
  BY <1>1, <1>2

LEMMA Calls_syslog ==
  ASSUME NEW at \in DOMAIN syslog, NEW n \in DOMAIN syslog[at]
  PROVE  /\ Checked("syslog", at, n, syslog[at][n])
         /\ Voiced("syslog", at, n, syslog[at][n])
<1>0. Program["syslog"] = syslog
  BY DEF Program
<1> USE DEF Call, close_all, exit, fork, loop, null, printf, syslog, Printing, Final
<1>1. CASE at = "main"
  <2>1. n \in 1..4 /\ DOMAIN syslog["main"] = 1..4
    BY <1>1
  <2>2. Checked("syslog", at, n, syslog[at][n])
    BY <1>0, <1>1, <2>1 DEF Checked, Names, Blocks, Flow, Place, Prints, Behind
  <2>3. Voiced("syslog", at, n, syslog[at][n])
    BY <1>1, <2>1 DEF Voiced, Leads, Clear, FirstLine, Outward, Early
  <2> QED
    BY <2>2, <2>3
<1>2. CASE at = "child"
  <2>1. n \in 1..4 /\ DOMAIN syslog["child"] = 1..4
    BY <1>2
  <2>2. Checked("syslog", at, n, syslog[at][n])
    BY <1>0, <1>2, <2>1 DEF Checked, Names, Blocks, Flow, Place, Prints, Behind
  <2>3. Voiced("syslog", at, n, syslog[at][n])
    BY <1>2, <2>1 DEF Voiced, Leads, Clear, FirstLine, Outward, Early
  <2> QED
    BY <2>2, <2>3
<1> QED
  BY <1>1, <1>2

\* Every call of every program is Checked and Voiced, and Counted where the program waits.
LEMMA AllCalls ==
  ASSUME NEW g \in DOMAIN Program, NEW at \in DOMAIN Program[g], NEW n \in DOMAIN Program[g][at]
  PROVE  /\ Checked(g, at, n, Program[g][at][n])
         /\ Voiced(g, at, n, Program[g][at][n])
         /\ g \in Waiters => Counted(g, at, n, Program[g][at][n])
<1>1. g \in {"fork1", "fork2", "fork3", "execl1", "execl2", "execv1", "wait1", "wait2", "wait3",
             "wait4", "daemon", "syslog"}
  BY DEF Program
<1>2. CASE g \in {"fork1", "fork2", "fork3"}
  BY <1>2, Calls_fork1, Calls_fork2, Calls_fork3 DEF Program, Waiters
<1>3. CASE g \in {"execl1", "execl2", "execv1"}
  BY <1>3, Calls_execl1, Calls_execl2, Calls_execv1 DEF Program, Waiters
<1>4. CASE g \in {"wait1", "wait2"}
  BY <1>4, Calls_wait1, Calls_wait2 DEF Program, Waiters
<1>5. CASE g \in {"wait3", "wait4"}
  BY <1>5, Calls_wait3, Calls_wait4 DEF Program, Waiters
<1>6. CASE g \in {"daemon", "syslog"}
  BY <1>6, Calls_daemon, Calls_syslog DEF Program, Waiters
<1> QED
  BY <1>1, <1>2, <1>3, <1>4, <1>5, <1>6
-----------------------------------------------------------------------------
(***************************************************************************)
(* What the actions do to the process that makes a step and to the others. *)
(***************************************************************************)

\* What a process of the program finds at its place.
LEMMA Here ==
  ASSUME TypeOK, NEW p \in Procs, Ours(p)
  PROVE  /\ procs[p] \in Process /\ prog \in DOMAIN Program
         /\ procs[p].at # "other"
         /\ Place(prog, procs[p].at, procs[p].pc)
         /\ Now(p) = Program[prog][procs[p].at][procs[p].pc]
         /\ Checked(prog, procs[p].at, procs[p].pc, Now(p))
         /\ Voiced(prog, procs[p].at, procs[p].pc, Now(p))
         /\ prog \in Waiters => Counted(prog, procs[p].at, procs[p].pc, Now(p))
         /\ Now(p).call \in Printing => Now(p).text \in Texts
<1>1. /\ procs[p] \in Process /\ prog \in DOMAIN Program /\ procs[p].at # "other"
      /\ procs[p].at \in DOMAIN Program[prog]
      /\ procs[p].pc \in DOMAIN Program[prog][procs[p].at]
  BY DEF TypeOK, Ours
<1>2. Now(p) = Program[prog][procs[p].at][procs[p].pc]
  BY DEF Now
<1>3. Now(p) \in Calls
  BY <1>1, <1>2 DEF Calls, Range
<1>4. Now(p).call \in Printing => Now(p).text \in Texts
  BY <1>3 DEF Texts
<1> QED
  BY <1>1, <1>2, <1>4, AllCalls DEF Place

\* A step of p leaves every other process as it is.
Others(p) == DOMAIN procs' = Procs /\ \A x \in Procs \ {p} : procs'[x] = procs[x]
\* p goes on running.
Lives(p) ==
  /\ procs'[p].state = "running" /\ procs[p].state = "running"
  /\ procs'[p].parent = procs[p].parent /\ procs'[p].status = procs[p].status
\* The memory of p stays.
Recalls(p) == procs'[p].mem = procs[p].mem
\* The buffer of p stays.
Hoards(p) == procs'[p].buffer = procs[p].buffer
\* The output of p leads where it did.
Aims(p)   == procs'[p].out = procs[p].out
\* p goes on at this place.
Goes(p, b, k) == procs'[p].at = b /\ procs'[p].pc = k

\* goto and the tests of what wait returned only move the process on.
LEMMA GotoEffect ==
  ASSUME TypeOK, NEW p \in Procs, Goto(p)
  PROVE  /\ Ours(p) /\ Now(p).call \in {"goto", "is"}
         /\ UNCHANGED <<prog, tty, shown, printed>>
         /\ Others(p) /\ Lives(p) /\ Recalls(p) /\ Hoards(p) /\ Aims(p)
         /\ \/ /\ Goes(p, procs[p].at, procs[p].pc + 1) /\ Now(p).call = "is"
               /\ procs[p].mem.got = procs[p].mem[Now(p).var]
            \/ /\ Goes(p, "main", Now(p).n)
               /\ Now(p).call = "is" => procs[p].mem.got # procs[p].mem[Now(p).var]
<1>1. Ours(p) /\ Now(p).call \in {"goto", "is"} /\ procs \in [Procs -> Process]
          /\ procs[p] \in Process
  BY DEF Goto, At, TypeOK
<1>2. CASE Now(p).call = "is" /\ procs[p].mem.got = procs[p].mem[Now(p).var]
  <2>1. procs' = [procs EXCEPT ![p] = On(procs[p])]
    BY <1>2 DEF Goto, Becomes
  <2> QED
    BY <1>1, <1>2, <2>1 DEF Goto, On, Others, Lives, Recalls, Hoards, Aims, Goes, Process,
       Ours, Running
<1>3. CASE ~(Now(p).call = "is" /\ procs[p].mem.got = procs[p].mem[Now(p).var])
  <2>1. procs' = [procs EXCEPT ![p] = To(procs[p], Now(p).n)]
    BY <1>3 DEF Goto, Becomes
  <2> QED
    BY <1>1, <1>3, <2>1 DEF Goto, To, Others, Lives, Recalls, Hoards, Aims, Goes, Process,
       Ours, Running
<1> QED
  BY <1>2, <1>3

\* What p prints now comes out at once.
Direct(p) == tty \/ Now(p).call = "write"
\* The line p prints now.
Item(p)   == <<p, Now(p).text>>

\* printf and write: the line comes out, or gets into the buffer.
LEMMA OutputEffect ==
  ASSUME TypeOK, NEW p \in Procs, Output(p)
  PROVE  /\ Ours(p) /\ Now(p).call \in Printing
         /\ UNCHANGED <<prog, tty>>
         /\ printed' = printed \cup {Item(p)}
         /\ shown' = IF Direct(p) /\ procs[p].out = "stdout" THEN Append(shown, Item(p))
                      ELSE shown
         /\ procs'[p].buffer = IF Direct(p) THEN procs[p].buffer
                                ELSE Append(procs[p].buffer, Item(p))
         /\ Others(p) /\ Lives(p) /\ Recalls(p) /\ Aims(p)
         /\ Goes(p, procs[p].at, procs[p].pc + 1)
<1>1. Ours(p) /\ Now(p).call \in Printing /\ procs \in [Procs -> Process]
          /\ procs[p] \in Process
  BY DEF Output, At, TypeOK
<1>2. UNCHANGED <<prog, tty>> /\ printed' = printed \cup {Item(p)}
  BY DEF Output, Item
<1>3. shown' = IF Direct(p) /\ procs[p].out = "stdout" THEN Append(shown, Item(p)) ELSE shown
  BY DEF Output, Item, Direct
<1>4. procs' = [procs EXCEPT ![p] = On(IF Direct(p) THEN procs[p]
                                       ELSE [procs[p] EXCEPT !.buffer = Append(@, Item(p))])]
  BY DEF Output, Becomes, Item, Direct
<1>5. Others(p) /\ Lives(p) /\ Recalls(p) /\ Aims(p) /\ Goes(p, procs[p].at, procs[p].pc + 1)
  <2>1. CASE Direct(p)
    BY <1>1, <1>4, <2>1 DEF On, Others, Lives, Recalls, Aims, Goes, Process, Ours, Running
  <2>2. CASE ~Direct(p)
    BY <1>1, <1>4, <2>2 DEF On, Others, Lives, Recalls, Aims, Goes, Process, Ours, Running
  <2> QED
    BY <2>1, <2>2
<1>6. procs'[p].buffer = IF Direct(p) THEN procs[p].buffer ELSE Append(procs[p].buffer, Item(p))
  BY <1>1, <1>4 DEF On, Process
<1> QED
  BY <1>1, <1>2, <1>3, <1>5, <1>6

\* fork: it fails, or makes a process of an unused number, with a copy of the buffer.
LEMMA ForkEffect ==
  ASSUME TypeOK, NEW p \in Procs, Fork(p)
  PROVE  /\ Ours(p) /\ Now(p).call = "fork"
         /\ UNCHANGED <<prog, tty, shown, printed>>
         /\ Lives(p) /\ Hoards(p) /\ Aims(p)
         /\ \/ /\ Others(p) /\ Goes(p, "main", Now(p).fails)
               /\ procs'[p].mem = [procs[p].mem EXCEPT ![Now(p).var] = Error]
            \/ \E q \in Procs \ {p} :
                 /\ procs[q].state = "none"
                 /\ \A r \in Procs : r < q => procs[r].state # "none"
                 /\ DOMAIN procs' = Procs /\ \A x \in Procs \ {p, q} : procs'[x] = procs[x]
                 /\ Goes(p, procs[p].at, procs[p].pc + 1)
                 /\ procs'[p].mem = [procs[p].mem EXCEPT ![Now(p).var] = q]
                 /\ procs'[q].state = "running" /\ procs'[q].parent = p
                 /\ Goes(q, Now(p).child, 1)
                 /\ procs'[q].mem = [procs[p].mem EXCEPT ![Now(p).var] = 0]
                 /\ procs'[q].status = procs[p].status /\ procs'[q].buffer = procs[p].buffer
                 /\ procs'[q].out = procs[p].out
<1> DEFINE v == Now(p).var
<1>1. Ours(p) /\ Now(p).call = "fork" /\ procs \in [Procs -> Process] /\ procs[p] \in Process
      /\ UNCHANGED <<prog, tty, shown, printed>>
  BY DEF Fork, At, TypeOK
<1>2. CASE Becomes(p, To([procs[p] EXCEPT !.mem[v] = Error], Now(p).fails))
  BY <1>1, <1>2 DEF Becomes, To, Others, Lives, Hoards, Aims, Goes, Process, Memory, Ours,
     Running
<1>3. ASSUME NEW q \in Procs, procs[q].state = "none",
             procs' = [procs EXCEPT
                  ![p] = On([procs[p] EXCEPT !.mem[v] = q]),
                  ![q] = [procs[p] EXCEPT !.parent = p, !.at = Now(p).child, !.pc = 1,
                                  !.mem[v] = 0]]
      PROVE  /\ q # p
             /\ DOMAIN procs' = Procs /\ \A x \in Procs \ {p, q} : procs'[x] = procs[x]
             /\ Lives(p) /\ Hoards(p) /\ Aims(p)
             /\ Goes(p, procs[p].at, procs[p].pc + 1)
             /\ procs'[p].mem = [procs[p].mem EXCEPT ![v] = q]
             /\ procs'[q].state = "running" /\ procs'[q].parent = p
             /\ Goes(q, Now(p).child, 1)
             /\ procs'[q].mem = [procs[p].mem EXCEPT ![v] = 0]
             /\ procs'[q].status = procs[p].status /\ procs'[q].buffer = procs[p].buffer
             /\ procs'[q].out = procs[p].out
  <2> HIDE DEF v
  <2>1. q # p /\ procs[p].state = "running"
    BY <1>1, <1>3 DEF Ours, Running
  <2>2. procs'[p] = On([procs[p] EXCEPT !.mem[v] = q])
    BY <1>1, <1>3, <2>1
  <2>3. procs'[q] = [procs[p] EXCEPT !.parent = p, !.at = Now(p).child, !.pc = 1, !.mem[v] = 0]
    BY <1>1, <1>3, <2>1
  <2>4. Lives(p) /\ Hoards(p) /\ Aims(p) /\ Goes(p, procs[p].at, procs[p].pc + 1)
    BY <1>1, <2>1, <2>2 DEF Lives, Hoards, Aims, Goes, On, Process
  <2>5. procs'[p].mem = [procs[p].mem EXCEPT ![v] = q]
    BY <1>1, <2>2 DEF On, Process
  <2>6. /\ procs'[q].state = "running" /\ procs'[q].parent = p /\ Goes(q, Now(p).child, 1)
        /\ procs'[q].status = procs[p].status /\ procs'[q].buffer = procs[p].buffer
        /\ procs'[q].out = procs[p].out
    BY <1>1, <2>1, <2>3 DEF Goes, Process
  <2>7. procs'[q].mem = [procs[p].mem EXCEPT ![v] = 0]
    BY <1>1, <2>3 DEF Process
  <2> QED
    BY <1>1, <1>3, <2>1, <2>4, <2>5, <2>6, <2>7
<1> QED
  BY <1>1, <1>2, <1>3 DEF Fork

\* The calls that only move on, or change where the output leads.
LEMMA RedirectEffect ==
  ASSUME TypeOK, NEW p \in Procs, Redirect(p)
  PROVE  /\ Ours(p) /\ Now(p).call \in {"close_all", "null"}
         /\ UNCHANGED <<prog, tty, shown, printed>>
         /\ Others(p) /\ Lives(p) /\ Recalls(p) /\ Hoards(p)
         /\ Goes(p, procs[p].at, procs[p].pc + 1)
         /\ procs'[p].out \in {"closed", "null"}
<1>1. Ours(p) /\ Now(p).call \in {"close_all", "null"} /\ procs \in [Procs -> Process]
          /\ procs[p] \in Process
      /\ UNCHANGED <<prog, tty, shown, printed>>
  BY DEF Redirect, At, TypeOK
<1>2. \E o \in {"closed", "null"} : procs' = [procs EXCEPT ![p] = On([procs[p] EXCEPT !.out = o])]
  BY DEF Redirect, Becomes
<1> QED
  BY <1>1, <1>2 DEF On, Others, Lives, Recalls, Hoards, Goes, Process, Ours, Running

\* exec: another program, which starts with an empty buffer, or an error.
LEMMA ExecEffect ==
  ASSUME TypeOK, NEW p \in Procs, Exec(p)
  PROVE  /\ Ours(p) /\ Now(p).call = "exec"
         /\ UNCHANGED <<prog, tty, shown, printed>>
         /\ Others(p) /\ Lives(p) /\ Recalls(p) /\ Aims(p)
         /\ \/ Goes(p, "other", procs[p].pc) /\ procs'[p].buffer = <<>>
            \/ Goes(p, procs[p].at, procs[p].pc + 1) /\ Hoards(p)
<1>1. Ours(p) /\ Now(p).call = "exec" /\ procs \in [Procs -> Process] /\ procs[p] \in Process
      /\ UNCHANGED <<prog, tty, shown, printed>>
  BY DEF Exec, At, TypeOK
<1>2. CASE Becomes(p, [procs[p] EXCEPT !.at = "other", !.buffer = <<>>])
  BY <1>1, <1>2 DEF Becomes, Others, Lives, Recalls, Aims, Goes, Process, Ours, Running
<1>3. CASE Becomes(p, On(procs[p]))
  BY <1>1, <1>3 DEF Becomes, On, Others, Lives, Recalls, Aims, Hoards, Goes, Process, Ours,
     Running
<1> QED
  BY <1>1, <1>2, <1>3 DEF Exec

\* A process that ends keeps its place and its children.
Finishes(p, status) ==
  /\ Others(p) /\ Recalls(p) /\ Aims(p) /\ Goes(p, procs[p].at, procs[p].pc)
  /\ Running(p) /\ procs'[p].state = IF procs[p].parent = 0 THEN "gone" ELSE "zombie"
  /\ procs'[p].parent = procs[p].parent
  /\ procs'[p].status = status /\ procs'[p].buffer = <<>>

\* Ended is how a process finishes.
LEMMA EndedEffect ==
  ASSUME TypeOK, NEW p \in Procs, Running(p), NEW status \in {Signalled, 0, 1, 7},
         Ended(p, status)
  PROVE  Finishes(p, status)
<1>1. procs[p] \in Process /\ procs \in [Procs -> Process]
  BY DEF TypeOK
<1>2. Others(p)
  BY DEF Ended, Others
<1>3. procs'[p] = [procs[p] EXCEPT !.state = IF procs[p].parent = 0 THEN "gone" ELSE "zombie",
                                   !.status = status, !.buffer = <<>>]
  BY DEF Ended
<1> QED
  BY <1>1, <1>2, <1>3 DEF Finishes, Recalls, Aims, Goes, Process

\* The end of a program that exec has loaded.
LEMMA OtherEndsEffect ==
  ASSUME TypeOK, NEW p \in Procs, OtherEnds(p)
  PROVE  /\ procs[p].at = "other" /\ UNCHANGED <<prog, tty, shown, printed>>
         /\ \E status \in {0, 1, Signalled} : Finishes(p, status)
  BY EndedEffect DEF OtherEnds

\* exit: the buffer comes out, unless the output is closed or the null device.
LEMMA ExitEffect ==
  ASSUME TypeOK, NEW p \in Procs, Exit(p)
  PROVE  /\ Ours(p) /\ Now(p).call = "exit" /\ UNCHANGED <<prog, tty, printed>>
         /\ Finishes(p, Now(p).code)
         /\ shown' = IF procs[p].out = "stdout" THEN shown \o procs[p].buffer ELSE shown
<1>1. Ours(p) /\ Now(p).call = "exit" /\ Running(p)
  BY DEF Exit, At, Ours
<1>2. Now(p).code \in {0, 1, 7}
  BY <1>1, Here DEF Checked
<1> QED
  BY <1>1, <1>2, EndedEffect DEF Exit

\* abort and the division: the process finishes with its buffer dropped, or goes on.
LEMMA FaultEffect ==
  ASSUME TypeOK, NEW p \in Procs, Fault(p)
  PROVE  /\ Ours(p) /\ Now(p).call \in {"abort", "divide"}
         /\ UNCHANGED <<prog, tty, shown, printed>>
         /\ \/ Finishes(p, Signalled)
            \/ /\ Now(p).call = "divide"
               /\ Others(p) /\ Lives(p) /\ Recalls(p) /\ Hoards(p) /\ Aims(p)
               /\ Goes(p, procs[p].at, procs[p].pc + 1)
<1>1. Ours(p) /\ Now(p).call \in {"abort", "divide"} /\ procs \in [Procs -> Process]
          /\ procs[p] \in Process
      /\ Running(p) /\ UNCHANGED <<prog, tty, shown, printed>>
  BY DEF Fault, At, TypeOK, Ours
<1>2. CASE Ended(p, Signalled)
  BY <1>1, <1>2, EndedEffect
<1>3. CASE Now(p).call = "divide" /\ Becomes(p, On(procs[p]))
  BY <1>1, <1>3 DEF Becomes, On, Others, Lives, Recalls, Hoards, Aims, Goes, Process, Running
<1> QED
  BY <1>1, <1>2, <1>3 DEF Fault

\* wait: it fails where no child is left, or takes one that has ended.
LEMMA WaitEffect ==
  ASSUME TypeOK, NEW p \in Procs, Wait(p)
  PROVE  /\ Ours(p) /\ Now(p).call = "wait"
         /\ UNCHANGED <<prog, tty, shown, printed>>
         /\ Lives(p) /\ Hoards(p) /\ Aims(p)
         /\ Goes(p, procs[p].at, procs[p].pc + 1)
         /\ \/ /\ \A q \in Procs : procs[q].parent = p => ~Present(procs[q].state)
               /\ Others(p) /\ procs'[p].mem = [procs[p].mem EXCEPT !.got = Error]
            \/ \E q \in Procs \ {p} :
                 /\ procs[q].parent = p /\ procs[q].state = "zombie"
                 /\ DOMAIN procs' = Procs /\ \A x \in Procs \ {p, q} : procs'[x] = procs[x]
                 /\ procs'[p].mem = [procs[p].mem EXCEPT !.got = q]
                 /\ procs'[q].state = "gone" /\ procs'[q].parent = p
                 /\ procs'[q].status = procs[q].status
                 /\ Recalls(q) /\ Hoards(q) /\ Aims(q) /\ Goes(q, procs[q].at, procs[q].pc)
<1>1. Ours(p) /\ Now(p).call = "wait" /\ procs \in [Procs -> Process] /\ procs[p] \in Process
      /\ UNCHANGED <<prog, tty, shown, printed>> /\ procs[p].state = "running"
  BY DEF Wait, At, TypeOK, Ours, Running
<1>2. CASE /\ \A q \in Children(p) : ~Present(procs[q].state)
           /\ Becomes(p, On([procs[p] EXCEPT !.mem.got = Error]))
  <2>1. procs'[p] = On([procs[p] EXCEPT !.mem.got = Error]) /\ Others(p)
    BY <1>1, <1>2 DEF Becomes, Others
  <2>2. Lives(p) /\ Hoards(p) /\ Aims(p) /\ Goes(p, procs[p].at, procs[p].pc + 1)
    BY <1>1, <2>1 DEF Lives, Hoards, Aims, Goes, On, Process
  <2>3. procs'[p].mem = [procs[p].mem EXCEPT !.got = Error]
    BY <1>1, <2>1 DEF On, Process
  <2> QED
    BY <1>1, <1>2, <2>1, <2>2, <2>3 DEF Children
<1>3. ASSUME NEW q \in Procs, procs[q].parent = p, procs[q].state = "zombie",
             procs' = [procs EXCEPT ![p] = On([procs[p] EXCEPT !.mem.got = q]),
                 ![q].state = "gone"]
      PROVE  /\ Lives(p) /\ Hoards(p) /\ Aims(p)
             /\ Goes(p, procs[p].at, procs[p].pc + 1)
             /\ q # p
             /\ DOMAIN procs' = Procs /\ \A x \in Procs \ {p, q} : procs'[x] = procs[x]
             /\ procs'[p].mem = [procs[p].mem EXCEPT !.got = q]
             /\ procs'[q].state = "gone" /\ procs'[q].parent = p
                 /\ procs'[q].status = procs[q].status
             /\ Recalls(q) /\ Hoards(q) /\ Aims(q) /\ Goes(q, procs[q].at, procs[q].pc)
  <2>1. q # p
    BY <1>1, <1>3
  <2>2. procs'[p] = On([procs[p] EXCEPT !.mem.got = q])
    BY <1>1, <1>3, <2>1
  <2>3. Lives(p) /\ Hoards(p) /\ Aims(p) /\ Goes(p, procs[p].at, procs[p].pc + 1)
    BY <1>1, <2>2 DEF Lives, Hoards, Aims, Goes, On, Process
  <2>4. procs'[p].mem = [procs[p].mem EXCEPT !.got = q]
    BY <1>1, <2>2 DEF On, Process
  <2>5. procs'[q] = [procs[q] EXCEPT !.state = "gone"] /\ procs[q] \in Process
    BY <1>1, <1>3, <2>1
  <2>6. /\ procs'[q].state = "gone" /\ procs'[q].parent = p
        /\ procs'[q].status = procs[q].status
        /\ Recalls(q) /\ Hoards(q) /\ Aims(q) /\ Goes(q, procs[q].at, procs[q].pc)
    BY <1>3, <2>5 DEF Recalls, Hoards, Aims, Goes, Process
  <2> QED
    BY <1>1, <1>3, <2>1, <2>3, <2>4, <2>6
<1>4. \/ /\ \A q \in Children(p) : ~Present(procs[q].state)
         /\ Becomes(p, On([procs[p] EXCEPT !.mem.got = Error]))
      \/ \E q \in Procs : /\ procs[q].parent = p /\ procs[q].state = "zombie"
            /\ procs' = [procs EXCEPT ![p] = On([procs[p] EXCEPT !.mem.got = q]),
                ![q].state = "gone"]
  BY DEF Wait, Children
<1>5. CASE \E q \in Procs : /\ procs[q].parent = p /\ procs[q].state = "zombie"
            /\ procs' = [procs EXCEPT ![p] = On([procs[p] EXCEPT !.mem.got = q]),
                ![q].state = "gone"]
  BY <1>1, <1>3, <1>5
<1> QED
  BY <1>2, <1>4, <1>5

-----------------------------------------------------------------------------
(***************************************************************************)
(* Types.                                                                  *)
(***************************************************************************)

\* The next place, another place and another value in memory keep a process a process.
LEMMA OnProcess == ASSUME NEW r \in Process PROVE On(r) \in Process
  BY DEF On, Process

LEMMA ToProcess == ASSUME NEW r \in Process, NEW n \in Nat PROVE To(r, n) \in Process
  BY DEF To, Process, Blocks

LEMMA MemProcess ==
  ASSUME NEW r \in Process, NEW v, v \in {"pid", "child1", "child2", "got"},
         NEW e \in Procs \cup {0, Error}
  PROVE  [r EXCEPT !.mem[v] = e] \in Process
<1>1. r.mem \in Memory
  BY DEF Process
<1>2. [r.mem EXCEPT ![v] = e] \in Memory
  BY <1>1 DEF Memory
<1> QED
  BY <1>2 DEF Process

\* The processes stay processes; the one that goes on is at a call of its program.
LEMMA StepProcesses ==
  ASSUME TypeOK, NEW p \in Procs, Step(p)
  PROVE  procs' \in [Procs -> Process]
<1>1. procs \in [Procs -> Process] /\ procs[p] \in Process
  BY DEF TypeOK
<1>2. ASSUME NEW r \in Process, Becomes(p, r) PROVE procs' \in [Procs -> Process]
  BY <1>1, <1>2 DEF Becomes
<1>13. <<>> \in Lines /\ "other" \in Blocks
  BY DEF Lines, Blocks
<1>3. CASE Goto(p)
  <2>1. Now(p).n \in Nat
    BY <1>3, Here, GotoEffect, AllCalls DEF Checked, Flow, Place
  <2>2. \/ Becomes(p, On(procs[p])) \/ Becomes(p, To(procs[p], Now(p).n))
    BY <1>3 DEF Goto
  <2> QED
    BY <1>1, <1>2, <2>1, <2>2, OnProcess, ToProcess
<1>4. CASE Output(p)
  <2>1. Item(p) \in Procs \X Texts
    BY <1>4, Here, OutputEffect DEF Item
  <2>2. Append(procs[p].buffer, Item(p)) \in Lines
    <3>1. procs[p].buffer \in Lines
      BY <1>1 DEF Process
    <3> QED
      BY <2>1, <3>1 DEF Lines
  <2>4. [procs[p] EXCEPT !.buffer = Append(@, Item(p))] \in Process
    BY <1>1, <2>2 DEF Process
  <2>3. \/ Becomes(p, On(procs[p]))
        \/ Becomes(p, On([procs[p] EXCEPT !.buffer = Append(@, Item(p))]))
    BY <1>4 DEF Output, Item
  <2> QED
    BY <1>1, <1>2, <2>3, <2>4, OnProcess
<1>5. CASE Fork(p)
  <2> DEFINE v == Now(p).var
  <2>1. /\ v \in {"pid", "child1", "child2"} /\ Now(p).fails \in Nat
        /\ Now(p).child \in Blocks
    BY <1>5, Here, ForkEffect, AllCalls DEF Checked, Flow, Place
  <2> HIDE DEF v
  <2>2. CASE Becomes(p, To([procs[p] EXCEPT !.mem[v] = Error], Now(p).fails))
    BY <1>1, <1>2, <2>1, <2>2, MemProcess, ToProcess
  <2>3. ASSUME NEW q \in Procs,
               procs' = [procs EXCEPT
                  ![p] = On([procs[p] EXCEPT !.mem[v] = q]),
                  ![q] = [procs[p] EXCEPT !.parent = p, !.at = Now(p).child, !.pc = 1,
                                  !.mem[v] = 0]]
        PROVE  procs' \in [Procs -> Process]
    <3>1. On([procs[p] EXCEPT !.mem[v] = q]) \in Process
      BY <1>1, <2>1, MemProcess, OnProcess
    <3>5. p \in 0..MaxProcs /\ 1 \in Nat
      BY MaxProcsAssumption DEF Procs
    <3>2. [procs[p] EXCEPT !.parent = p, !.at = Now(p).child, !.pc = 1] \in Process
      BY <1>1, <2>1, <3>5 DEF Process
    <3>3. [[procs[p] EXCEPT !.parent = p, !.at = Now(p).child, !.pc = 1]
               EXCEPT !.mem[v] = 0] \in Process
      BY <2>1, <3>2, MemProcess
    <3>4. [[procs[p] EXCEPT !.parent = p, !.at = Now(p).child, !.pc = 1] EXCEPT !.mem[v] = 0]
           = [procs[p] EXCEPT !.parent = p, !.at = Now(p).child, !.pc = 1, !.mem[v] = 0]
      BY <1>1 DEF Process
    <3> QED
      BY <1>1, <2>3, <3>1, <3>3, <3>4
  <2> QED
    BY <1>5, <2>2, <2>3 DEF Fork, v
<1>6. CASE Exec(p)
  <2>1. [procs[p] EXCEPT !.at = "other", !.buffer = <<>>] \in Process
    BY <1>1, <1>13 DEF Process
  <2> QED
    BY <1>1, <1>2, <1>6, <2>1, OnProcess DEF Exec
<1>7. ASSUME NEW status \in {Signalled, 0, 1, 7}, Ended(p, status)
      PROVE  procs' \in [Procs -> Process]
  <2>1. [procs[p] EXCEPT !.state = IF procs[p].parent = 0 THEN "gone" ELSE "zombie",
                         !.status = status, !.buffer = <<>>] \in Process
    BY <1>1, <1>7, <1>13 DEF Process
  <2> QED
    BY <1>1, <1>7, <2>1 DEF Ended
<1>8. CASE OtherEnds(p)
  BY <1>7, <1>8 DEF OtherEnds
<1>9. CASE Wait(p)
  <2>1. CASE Becomes(p, On([procs[p] EXCEPT !.mem.got = Error]))
    <3>1. [procs[p] EXCEPT !.mem.got = Error] \in Process
      BY <1>1, MemProcess
    <3> QED
      BY <1>2, <2>1, <3>1, OnProcess
  <2>2. ASSUME NEW q \in Procs,
               procs' = [procs EXCEPT ![p] = On([procs[p] EXCEPT !.mem.got = q]),
                   ![q].state = "gone"]
        PROVE  procs' \in [Procs -> Process]
    <3>1. [procs[p] EXCEPT !.mem.got = q] \in Process
      BY <1>1, MemProcess
    <3>2. On([procs[p] EXCEPT !.mem.got = q]) \in Process
      BY <3>1, OnProcess
    <3>3. \A r \in Process : [r EXCEPT !.state = "gone"] \in Process
      BY DEF Process
    <3> QED
      BY <1>1, <2>2, <3>2, <3>3
  <2> QED
    BY <1>9, <2>1, <2>2 DEF Wait, Children
<1>10. CASE Exit(p)
  <2>1. Now(p).code \in {0, 1, 7}
    BY <1>10, ExitEffect, Here DEF Checked
  <2> QED
    BY <1>7, <1>10, <2>1 DEF Exit
<1>11. CASE Fault(p)
  BY <1>1, <1>2, <1>7, <1>11, OnProcess DEF Fault
<1>12. CASE Redirect(p)
  <2>1. \E o \in {"closed", "null"} : Becomes(p, On([procs[p] EXCEPT !.out = o]))
    BY <1>12 DEF Redirect
  <2>2. \A o \in {"closed", "null"} : [procs[p] EXCEPT !.out = o] \in Process
    BY <1>1 DEF Process
  <2> QED
    BY <1>2, <2>1, <2>2, OnProcess
<1> QED
  BY <1>3, <1>4, <1>5, <1>6, <1>8, <1>9, <1>10, <1>11, <1>12 DEF Step

\* Where the process that makes a call goes on, and what it has printed by then.
LEMMA StepPlaces ==
  ASSUME TypeOK, NEW p \in Procs, Step(p)
  PROVE  /\ UNCHANGED <<prog, tty>>
         /\ \A x \in Procs : Ours(x)' => Place(prog, procs'[x].at, procs'[x].pc)
<1>1. \A x \in Procs : Ours(x) => Place(prog, procs[x].at, procs[x].pc)
  BY Here
<1>2. Ours(p) => Checked(prog, procs[p].at, procs[p].pc, Now(p))
  BY Here
<1> USE DEF Ours, Running, Others, Lives, Goes, Checked, Flow, Final, Printing
<1>3. CASE Goto(p)
  BY <1>1, <1>2, <1>3, GotoEffect
<1>4. CASE Output(p)
  BY <1>1, <1>2, <1>4, OutputEffect
<1>5. CASE Fork(p)
  <2>1. /\ Place(prog, procs[p].at, procs[p].pc + 1) /\ Place(prog, "main", Now(p).fails)
        /\ Place(prog, Now(p).child, 1) /\ UNCHANGED <<prog, tty>>
    BY <1>2, <1>5, ForkEffect
  <2>2. CASE Others(p) /\ Goes(p, "main", Now(p).fails)
    BY <1>1, <2>1, <2>2
  <2>3. ASSUME NEW q \in Procs \ {p}, \A x \in Procs \ {p, q} : procs'[x] = procs[x],
               Goes(p, procs[p].at, procs[p].pc + 1), Goes(q, Now(p).child, 1)
        PROVE  \A x \in Procs : Ours(x)' => Place(prog, procs'[x].at, procs'[x].pc)
    BY <1>1, <2>1, <2>3
  <2> QED
    BY <1>5, <2>1, <2>2, <2>3, ForkEffect
<1>6. CASE Exec(p)
  BY <1>1, <1>2, <1>6, ExecEffect
<1>7. CASE OtherEnds(p)
  BY <1>1, <1>7, OtherEndsEffect DEF Finishes
<1>8. CASE Wait(p)
  <2>1. Place(prog, procs[p].at, procs[p].pc + 1) /\ Goes(p, procs[p].at, procs[p].pc + 1)
        /\ UNCHANGED <<prog, tty>>
    BY <1>2, <1>8, WaitEffect
  <2>2. CASE Others(p)
    BY <1>1, <2>1, <2>2
  <2>3. ASSUME NEW q \in Procs \ {p}, \A x \in Procs \ {p, q} : procs'[x] = procs[x],
               procs'[q].state = "gone"
        PROVE  \A x \in Procs : Ours(x)' => Place(prog, procs'[x].at, procs'[x].pc)
    BY <1>1, <2>1, <2>3
  <2> QED
    BY <1>8, <2>1, <2>2, <2>3, WaitEffect
<1>9. CASE Exit(p)
  BY <1>1, <1>9, ExitEffect DEF Finishes
<1>10. CASE Fault(p)
  BY <1>1, <1>2, <1>10, FaultEffect DEF Finishes
<1>11. CASE Redirect(p)
  BY <1>1, <1>2, <1>11, RedirectEffect
<1> QED
  BY <1>3, <1>4, <1>5, <1>6, <1>7, <1>8, <1>9, <1>10, <1>11 DEF Step

\* The type invariant holds at the start and in every step.
LEMMA InitTypes == Init => TypeOK
<1> SUFFICES ASSUME Init PROVE TypeOK
  OBVIOUS
<1>1. \A g \in DOMAIN Program : "main" \in DOMAIN Program[g] /\ 1 \in DOMAIN Program[g]["main"]
  BY DEF Program, fork1, fork2, fork3, execl1, execl2, execv1, wait1, wait2, wait3, wait4,
     daemon, syslog
<1>2. ASSUME NEW state \in {"none", "running"} PROVE NoProcess(state) \in Process
  <2>1. [x \in {"pid", "child1", "child2", "got", "error"} |->
            IF x = "error" THEN Error ELSE 0] \in Memory
    BY DEF Memory
  <2>2. <<>> \in Lines /\ "main" \in Blocks /\ 0 \in 0..MaxProcs
    BY MaxProcsAssumption DEF Lines, Blocks
  <2> QED
    BY <1>2, <2>1, <2>2 DEF NoProcess, Process
<1>3. procs \in [Procs -> Process]
  BY <1>2 DEF Init
<1>4. \A p \in Procs : procs[p].at = "main" /\ procs[p].pc = 1
  BY DEF Init, NoProcess
<1>5. shown \in Lines
  BY DEF Init, Lines
<1> QED
  BY <1>1, <1>3, <1>4, <1>5 DEF Init, TypeOK

LEMMA NextTypes == TypeOK /\ [Next]_vars => TypeOK'
<1> SUFFICES ASSUME TypeOK, [Next]_vars PROVE TypeOK'
  OBVIOUS
<1>1. CASE UNCHANGED vars
  BY <1>1 DEF vars, TypeOK, Ours, Running
<1>2. ASSUME NEW p \in Procs, Step(p) PROVE TypeOK'
  <2>1. shown' \in Lines /\ printed' \subseteq Procs \X Texts
    <3>1. shown \in Lines /\ printed \subseteq Procs \X Texts
      BY DEF TypeOK
    <3>2. CASE Output(p)
      <4>1. Item(p) \in Procs \X Texts
        BY <3>2, OutputEffect, Here DEF Item
      <4> QED
        <5>1. shown' \in {shown, Append(shown, Item(p))} /\ printed' = printed \cup {Item(p)}
          BY <3>2, OutputEffect
        <5>2. Append(shown, Item(p)) \in Lines
          BY <3>1, <4>1 DEF Lines
        <5> QED
          BY <3>1, <4>1, <5>1, <5>2
    <3>3. CASE Exit(p)
      <4>1. procs[p].buffer \in Lines
        BY DEF TypeOK, Process
      <4> QED
        <5>1. shown' \in {shown, shown \o procs[p].buffer} /\ printed' = printed
          BY <3>3, ExitEffect
        <5>2. shown \o procs[p].buffer \in Lines
          BY <3>1, <4>1 DEF Lines
        <5> QED
          BY <3>1, <5>1, <5>2
    <3>4. CASE ~Output(p) /\ ~Exit(p)
      BY <1>2, <3>1, <3>4 DEF Step, Goto, Fork, Exec, OtherEnds, Wait, Fault, Redirect
    <3> QED
      BY <3>2, <3>3, <3>4
  <2> QED
    BY <1>2, <2>1, StepProcesses, StepPlaces DEF TypeOK, Place
<1> QED
  BY <1>1, <1>2 DEF Next, Rest

\* Every process keeps its type, and one that runs its program is at a call of it: no exit
\* is missing behind the last call of a block of b11, b12 or b15, and no jump leads nowhere.
THEOREM TypeCorrect == Spec => []TypeOK
  BY InitTypes, NextTypes, PTL DEF Spec
-----------------------------------------------------------------------------
(***************************************************************************)
(* Children.                                                               *)
(***************************************************************************)

\* q is a child of p for which wait would wait.
Kid(p, q) == procs[q].parent = p /\ Present(procs[q].state)

\* p has no child to wait for.
Childless(p) == \A q \in Procs : ~Kid(p, q)

\* Every process but the first has been forked by one there is, or was.
Born ==
  /\ procs[1].state # "none"
  /\ \A q \in Procs :
       /\ procs[q].parent = 0 <=> q = 1 \/ procs[q].state = "none"
       /\ procs[q].parent # 0 => procs[procs[q].parent].state # "none"

\* The cell "error" holds what a failing wait returns.
ErrorStays == \A p \in Procs : procs[p].mem["error"] = Error

\* What is known of the children of p where the bound holds.
Holds(p, bound) ==
  /\ bound = "none" => Childless(p)
  /\ bound = "one"  => \A q, r \in Procs : Kid(p, q) /\ Kid(p, r) => q = r
  /\ bound = "told" => (procs[p].mem["got"] = Error => Childless(p))

\* How many children p may have where it is.
BoundOf(p) == Bound(prog, procs[p].at, procs[p].pc)

\* p has no more children than its bound says, and none without a place in the program.
Kept(p) ==
  /\ ~Ours(p) => Childless(p)
  /\ \A bound \in {"none", "one", "told"} : Ours(p) /\ BoundOf(p) = bound => Holds(p, bound)

\* In the programs that wait, every process keeps the bound of its place.
KidsBound == prog \in Waiters => \A p \in Procs : Kept(p)

\* The inductive invariant for NoneLeft.  NoneLeft speaks of a process that has ended; that
\* it has no child then follows from where it was, so the bounds are kept everywhere.
FamilyInv == TypeOK /\ Born /\ ErrorStays /\ KidsBound

\* A step in which no child comes or is taken.
SameFamily ==
  \A x \in Procs :
    /\ procs'[x].parent = procs[x].parent
    /\ procs'[x].state = "none" <=> procs[x].state = "none"
    /\ procs[x].parent # 0 => (Present(procs'[x].state) <=> Present(procs[x].state))
    /\ procs'[x].mem["error"] = procs[x].mem["error"]

\* A step in which p gets the child q.
NewChild(p, q) ==
  /\ procs[q].state = "none" /\ procs[p].state = "running"
  /\ \A r \in Procs : r < q => procs[r].state # "none"
  /\ procs'[q].state = "running" /\ procs'[q].parent = p
  /\ procs'[q].mem["error"] = procs[p].mem["error"]
  /\ \A x \in Procs \ {q} : /\ procs'[x].parent = procs[x].parent
                            /\ procs'[x].state = procs[x].state
                            /\ procs'[x].mem["error"] = procs[x].mem["error"]

\* A step in which p takes its child q.
Reaped(p, q) ==
  /\ procs[q].parent = p /\ procs[q].state = "zombie" /\ procs'[q].state = "gone"
  /\ \A x \in Procs : /\ procs'[x].parent = procs[x].parent
                      /\ procs'[x].mem["error"] = procs[x].mem["error"]
  /\ \A x \in Procs \ {q} : procs'[x].state = procs[x].state

\* Children come only by fork and are taken only by wait.
LEMMA Family ==
  ASSUME TypeOK, NEW p \in Procs, Step(p)
  PROVE  /\ ~Fork(p) /\ ~Wait(p) => SameFamily
         /\ Fork(p) => SameFamily \/ \E q \in Procs \ {p} : NewChild(p, q)
         /\ Wait(p) => SameFamily \/ \E q \in Procs \ {p} : Reaped(p, q)
<1>0. \A x \in Procs : procs[x].mem \in Memory /\ procs[x].parent \in 0..MaxProcs
  BY DEF TypeOK, Process
<1> USE DEF Others, Lives, Recalls, Finishes, SameFamily, Present
<1>1. CASE Goto(p)
  BY <1>1, GotoEffect DEF Goto, Fork, Wait, At
<1>2. CASE Output(p)
  BY <1>2, OutputEffect DEF Fork, Wait, At, Printing
<1>3. CASE Fork(p)
  <2>1. Ours(p) /\ Now(p).var \in {"pid", "child1", "child2"} /\ ~Wait(p)
    BY <1>3, ForkEffect, Here DEF Checked, Wait, At
  <2>2. CASE procs'[p].mem = [procs[p].mem EXCEPT ![Now(p).var] = Error] /\ Others(p)
    <3>1. procs'[p].mem["error"] = procs[p].mem["error"]
      BY <1>0, <2>1, <2>2 DEF Memory
    <3>2. Lives(p)
      BY <1>3, ForkEffect
    <3> QED
      BY <1>3, <2>1, <2>2, <3>1, <3>2
  <2>3. ASSUME NEW q \in Procs \ {p}, procs[q].state = "none",
               \A r \in Procs : r < q => procs[r].state # "none",
               \A x \in Procs \ {p, q} : procs'[x] = procs[x],
               procs'[p].mem = [procs[p].mem EXCEPT ![Now(p).var] = q],
               procs'[q].state = "running", procs'[q].parent = p,
               procs'[q].mem = [procs[p].mem EXCEPT ![Now(p).var] = 0]
        PROVE  NewChild(p, q)
    <3>2. Lives(p)
      BY <1>3, ForkEffect
    <3>1. procs'[p].mem["error"] = procs[p].mem["error"]
              /\ procs'[q].mem["error"] = procs[p].mem["error"]
      BY <1>0, <2>1, <2>3 DEF Memory
    <3> QED
      BY <1>3, <2>3, <3>1, <3>2 DEF NewChild
  <2>4. ASSUME ~(procs'[p].mem = [procs[p].mem EXCEPT ![Now(p).var] = Error] /\ Others(p))
        PROVE  \E q \in Procs \ {p} : NewChild(p, q)
    <3> HIDE DEF Others, Lives, Recalls, Finishes, SameFamily, Present
    <3>1. PICK q \in Procs \ {p} :
            /\ procs[q].state = "none"
            /\ \A r \in Procs : r < q => procs[r].state # "none"
            /\ \A x \in Procs \ {p, q} : procs'[x] = procs[x]
            /\ procs'[p].mem = [procs[p].mem EXCEPT ![Now(p).var] = q]
            /\ procs'[q].state = "running" /\ procs'[q].parent = p
            /\ procs'[q].mem = [procs[p].mem EXCEPT ![Now(p).var] = 0]
      BY <1>3, <2>4, ForkEffect
    <3> QED
      BY <2>3, <3>1
  <2> QED
    BY <1>3, <2>1, <2>2, <2>4
<1>4. CASE Exec(p)
  BY <1>4, ExecEffect DEF Fork, Wait, At
<1>5. CASE OtherEnds(p)
  BY <1>0, <1>5, OtherEndsEffect DEF Fork, Wait, At, Ours, Running
<1>6. CASE Wait(p)
  <2>1. ~Fork(p) /\ Lives(p)
    BY <1>6, WaitEffect DEF Fork, At
  <2>2. CASE procs'[p].mem = [procs[p].mem EXCEPT !["got"] = Error] /\ Others(p)
    <3>1. procs'[p].mem["error"] = procs[p].mem["error"]
      BY <1>0, <2>2 DEF Memory
    <3> QED
      BY <1>6, <2>1, <2>2, <3>1
  <2>3. ASSUME NEW q \in Procs \ {p}, procs[q].parent = p, procs[q].state = "zombie",
               \A x \in Procs \ {p, q} : procs'[x] = procs[x],
               procs'[p].mem = [procs[p].mem EXCEPT !["got"] = q],
               procs'[q].state = "gone", procs'[q].parent = p, Recalls(q)
        PROVE  Reaped(p, q)
    <3>1. procs'[p].mem["error"] = procs[p].mem["error"]
      BY <1>0, <2>3 DEF Memory
    <3> QED
      BY <2>1, <2>3, <3>1 DEF Reaped
  <2> QED
    BY <1>6, <2>1, <2>2, <2>3, WaitEffect
<1>7. CASE Exit(p)
  BY <1>0, <1>7, ExitEffect DEF Fork, Wait, At, Running
<1>8. CASE Fault(p)
  BY <1>0, <1>8, FaultEffect DEF Fork, Wait, At, Running
<1>9. CASE Redirect(p)
  BY <1>9, RedirectEffect DEF Fork, Wait, At
<1> QED
  BY <1>1, <1>2, <1>3, <1>4, <1>5, <1>6, <1>7, <1>8, <1>9 DEF Step

\* How the children change in the three kinds of step.
LEMMA Kids ==
  ASSUME TypeOK, Born
  PROVE  /\ SameFamily => \A x, y \in Procs : Kid(x, y)' <=> Kid(x, y)
         /\ \A p, q \in Procs : NewChild(p, q) =>
              \A x, y \in Procs : Kid(x, y)' <=> Kid(x, y) \/ (x = p /\ y = q)
         /\ \A p, q \in Procs : Reaped(p, q) =>
              \A x, y \in Procs : Kid(x, y)' <=> Kid(x, y) /\ y # q
<1>1. 0 \notin Procs
  BY DEF Procs
<1>2. SameFamily => \A x, y \in Procs : Kid(x, y)' <=> Kid(x, y)
  BY <1>1 DEF SameFamily, Kid
<1>3. ASSUME NEW p \in Procs, NEW q \in Procs, NewChild(p, q), NEW x \in Procs, NEW y \in Procs
      PROVE  Kid(x, y)' <=> Kid(x, y) \/ (x = p /\ y = q)
  BY <1>1, <1>3 DEF NewChild, Born, Kid, Present
<1>4. ASSUME NEW p \in Procs, NEW q \in Procs, Reaped(p, q), NEW x \in Procs, NEW y \in Procs
      PROVE  Kid(x, y)' <=> Kid(x, y) /\ y # q
  BY <1>1, <1>4 DEF Reaped, Kid, Present
<1> QED
  BY <1>2, <1>3, <1>4

\* Parents and the error cell stay right in every step.
LEMMA StepBorn ==
  ASSUME TypeOK, Born, ErrorStays, NEW p \in Procs, Step(p)
  PROVE  Born' /\ ErrorStays'
<1>0. /\ 0 \notin Procs /\ 1 \in Procs
      /\ \A x \in Procs : procs[x].parent # 0 => procs[x].parent \in Procs
  BY MaxProcsAssumption DEF TypeOK, Process, Procs
<1>1. CASE SameFamily
  BY <1>0, <1>1 DEF SameFamily, Born, ErrorStays
<1>2. ASSUME NEW q \in Procs \ {p}, NewChild(p, q) PROVE Born' /\ ErrorStays'
  <2>1. ErrorStays'
    BY <1>2 DEF NewChild, ErrorStays
  <2>2. \A x \in Procs : procs'[x].state # "none" <=> procs[x].state # "none" \/ x = q
    BY <1>2 DEF NewChild
  <2> QED
    BY <1>0, <1>2, <2>1, <2>2 DEF NewChild, Born
<1>3. ASSUME NEW q \in Procs \ {p}, Reaped(p, q) PROVE Born' /\ ErrorStays'
  <2>1. ErrorStays'
    BY <1>3 DEF Reaped, ErrorStays
  <2>2. \A x \in Procs : procs'[x].state # "none" <=> procs[x].state # "none"
    BY <1>3 DEF Reaped
  <2> QED
    BY <1>0, <1>3, <2>1, <2>2 DEF Reaped, Born
<1> QED
  BY <1>1, <1>2, <1>3, Family

\* What is known of the children of p stays known while no child comes.
LEMMA StillHolds ==
  ASSUME NEW p, NEW bound, Holds(p, bound), \A q \in Procs : Kid(p, q)' => Kid(p, q),
         bound = "told" => procs'[p].mem["got"] = procs[p].mem["got"]
  PROVE  Holds(p, bound)'
  BY DEF Holds, Childless

\* A process that a step leaves alone keeps its bound, if it gets no child.
LEMMA OthersKept ==
  ASSUME FamilyInv, prog \in Waiters, prog' = prog,
         NEW x \in Procs, procs'[x] = procs[x], \A q \in Procs : Kid(x, q)' => Kid(x, q)
  PROVE  Kept(x)'
<1>1. Kept(x)
  BY DEF FamilyInv, KidsBound
<1>2. Ours(x)' = Ours(x) /\ BoundOf(x)' = BoundOf(x)
  BY DEF Ours, Running, BoundOf
<1>3. Childless(x) => Childless(x)'
  BY DEF Childless
<1>4. \A bound : Holds(x, bound) => Holds(x, bound)'
  BY StillHolds
<1> QED
  BY <1>1, <1>2, <1>3, <1>4 DEF Kept

\* A process without children may go anywhere.
LEMMA ChildlessKept == ASSUME NEW p \in Procs, Childless(p)' PROVE Kept(p)'
  BY DEF Kept, Holds, Childless

\* p goes on to a place of at least the same bound.
LEMMA EasedKept ==
  ASSUME FamilyInv, prog \in Waiters, prog' = prog, NEW p \in Procs, Ours(p),
         procs'[p].mem["got"] = procs[p].mem["got"],
         NEW b, NEW k, Goes(p, b, k), Eases(BoundOf(p), Bound(prog, b, k)), b # "other",
         Lives(p),
         \A q \in Procs : Kid(p, q)' => Kid(p, q)
  PROVE  Kept(p)'
<1>1. Kept(p)
  BY DEF FamilyInv, KidsBound
<1>2. Ours(p)' /\ BoundOf(p)' = Bound(prog, b, k)
  BY DEF Ours, Running, BoundOf, Lives, Goes
<1>3. CASE BoundOf(p) = "none"
  <2>1. Childless(p)
    BY <1>1, <1>3 DEF Kept, Holds
  <2> QED
    BY <2>1, ChildlessKept DEF Childless
<1>4. CASE BoundOf(p)' = "any"
  BY <1>2, <1>4 DEF Kept
<1>5. CASE BoundOf(p)' = BoundOf(p)
  <2>1. \A bound : Holds(p, bound) => Holds(p, bound)'
    BY StillHolds
  <2> QED
    BY <1>1, <1>2, <1>5, <2>1 DEF Kept
<1> QED
  BY <1>2, <1>3, <1>4, <1>5 DEF Eases

\* Every step keeps the bounds, call by call.
LEMMA StepKept ==
  ASSUME FamilyInv, NEW p \in Procs, Step(p), prog \in Waiters
  PROVE  \A x \in Procs : Kept(x)'
<1> DEFINE at == procs[p].at
           n == procs[p].pc
<1>0. TypeOK /\ Born /\ prog' = prog /\ Kept(p)
  BY StepPlaces DEF FamilyInv, KidsBound
<1>1. Ours(p) => Counted(prog, at, n, Now(p)) /\ at # "other"
  BY <1>0, Here
<1>2. procs[p].mem["error"] = Error /\ procs[p].mem \in Memory /\ Error \notin Procs
  BY <1>0 DEF FamilyInv, ErrorStays, TypeOK, Process, Procs, Error
<1>3. SameFamily => \A x, y \in Procs : Kid(x, y)' <=> Kid(x, y)
  BY <1>0, Kids
<1>4. ASSUME Others(p), \A x, y \in Procs : Kid(x, y)' => Kid(x, y), Kept(p)'
      PROVE  \A x \in Procs : Kept(x)'
  BY <1>0, <1>4, OthersKept DEF Others
<1>5. Ours(p) /\ BoundOf(p) = "none" => Childless(p)
  BY <1>0 DEF Kept, Holds
<1> HIDE DEF at, n
<1>6. ASSUME NEW b, NEW k, Goes(p, b, k), Eases(BoundOf(p), Bound(prog, b, k)), b # "other",
             Ours(p),
             Others(p), Lives(p), procs'[p].mem["got"] = procs[p].mem["got"]
      PROVE  \A x \in Procs : Kept(x)'
  <2>1. \A x, y \in Procs : Kid(x, y)' => Kid(x, y)
    BY <1>6 DEF Others, Lives, Kid
  <2>2. Kept(p)'
    BY <1>0, <1>6, <2>1, EasedKept
  <2> QED
    BY <1>4, <1>6, <2>1, <2>2
<1>7. ASSUME Childless(p), Others(p), SameFamily
      PROVE  \A x \in Procs : Kept(x)'
  <2>1. \A x, y \in Procs : Kid(x, y)' => Kid(x, y)
    BY <1>3, <1>7
  <2>2. Kept(p)'
    BY <1>7, <2>1, ChildlessKept DEF Childless
  <2> QED
    BY <1>4, <1>7, <2>1, <2>2
<1>8. Ours(p) => BoundOf(p) = Bound(prog, at, n)
  BY DEF BoundOf, at, n
<1>9. ~Ours(p) => Childless(p)
  BY <1>0 DEF Kept
<1>10. CASE Goto(p)
  <2>1. SameFamily
    BY <1>10, <1>0, Family DEF Goto, Fork, Wait, At
  <2>2. CASE /\ Goes(p, at, n + 1) /\ Now(p).call = "is"
               /\ procs[p].mem.got = procs[p].mem[Now(p).var]
    <3>1. CASE Now(p).var = "error" /\ BoundOf(p) = "told"
      <4>1. Holds(p, "told") /\ procs[p].mem["got"] = Error
        BY <1>0, <1>2, <1>10, <2>2, <3>1, GotoEffect DEF Kept
      <4>2. Childless(p)
        BY <4>1 DEF Holds
      <4> QED
        BY <1>0, <1>7, <1>10, <2>1, <4>2, GotoEffect
    <3>2. CASE ~(Now(p).var = "error" /\ BoundOf(p) = "told")
      <4>1. Eases(BoundOf(p), Bound(prog, at, n + 1))
        BY <1>0, <1>1, <1>8, <1>10, <2>2, <3>2, GotoEffect DEF Counted
      <4> QED
        BY <1>0, <1>1, <1>6, <1>10, <2>2, <4>1, GotoEffect DEF Recalls
    <3> QED
      BY <3>1, <3>2
  <2>3. CASE Goes(p, "main", Now(p).n)
    <3>1. Eases(BoundOf(p), Bound(prog, "main", Now(p).n))
      BY <1>0, <1>1, <1>8, <1>10, GotoEffect DEF Counted, Eases
    <3> QED
      BY <1>0, <1>6, <1>10, <2>3, <3>1, GotoEffect DEF Recalls
  <2> QED
    BY <1>0, <1>10, <2>2, <2>3, GotoEffect DEF at, n
<1>11. CASE Output(p) \/ Redirect(p)
  <2>2. /\ Ours(p) /\ Now(p).call \in {"printf", "write", "close_all", "null"}
        /\ Others(p) /\ Lives(p) /\ Recalls(p) /\ Goes(p, at, n + 1)
    BY <1>0, <1>11, OutputEffect, RedirectEffect DEF Printing, at, n
  <2>3. Eases(BoundOf(p), Bound(prog, at, n + 1))
    BY <1>1, <1>8, <2>2 DEF Counted
  <2> QED
    BY <1>1, <1>6, <2>2, <2>3 DEF Recalls
<1>12. CASE Fork(p)
  <2>1. /\ Ours(p) /\ Now(p).call = "fork" /\ Lives(p)
        /\ Checked(prog, at, n, Now(p)) /\ Counted(prog, at, n, Now(p))
    BY <1>0, <1>12, ForkEffect, Here DEF at, n
  <2>2. /\ Now(p).var \in {"pid", "child1", "child2"} /\ Place(prog, Now(p).child, 1)
        /\ Eases(BoundOf(p), Bound(prog, "main", Now(p).fails))
        /\ \/ Bound(prog, at, n + 1) = "any"
           \/ BoundOf(p) = "none" /\ Bound(prog, at, n + 1) = "one"
        /\ Bound(prog, Now(p).child, 1) = "none"
    BY <1>8, <2>1 DEF Checked, Counted
  <2>3. prog \in DOMAIN Program /\ Now(p).child # "other"
    BY <1>0, <2>2, AllCalls DEF Place, Checked, TypeOK
  <2>4. CASE Others(p) /\ Goes(p, "main", Now(p).fails)
                /\ procs'[p].mem = [procs[p].mem EXCEPT ![Now(p).var] = Error]
    <3>1. procs'[p].mem["got"] = procs[p].mem["got"]
      BY <1>2, <2>2, <2>4 DEF Memory
    <3> QED
      BY <1>6, <2>1, <2>2, <2>4, <3>1
  <2>5. ASSUME NEW q \in Procs \ {p}, procs[q].state = "none",
               \A x \in Procs \ {p, q} : procs'[x] = procs[x],
               Goes(p, at, n + 1),
               procs'[q].state = "running", procs'[q].parent = p, Goes(q, Now(p).child, 1)
        PROVE  \A x \in Procs : Kept(x)'
    <3>1. \A x, y \in Procs : Kid(x, y)' <=> Kid(x, y) \/ (x = p /\ y = q)
      <4>1. \A x \in Procs : ~Kid(x, q)
        BY <2>5 DEF Kid, Present
      <4> QED
        BY <2>1, <2>5, <4>1 DEF Kid, Lives, Present
    <3>2. \A x \in Procs \ {p, q} : Kept(x)'
      BY <1>0, <2>5, <3>1, OthersKept
    <3>3. Kept(q)'
      <4>1. Childless(q)
        BY <1>0, <2>5 DEF Childless, Kid, Born, Procs
      <4> QED
        BY <2>5, <3>1, <4>1, ChildlessKept DEF Childless
    <3>4. Kept(p)'
      <4>1. Ours(p)' /\ BoundOf(p)' = Bound(prog, at, n + 1)
        BY <1>0, <1>1, <2>1, <2>5 DEF Ours, Running, BoundOf, Lives, Goes
      <4>2. CASE Bound(prog, at, n + 1) = "any"
        BY <4>1, <4>2 DEF Kept
      <4>3. CASE BoundOf(p) = "none" /\ Bound(prog, at, n + 1) = "one"
        <5>1. Childless(p)
          BY <1>5, <2>1, <4>3
        <5>2. \A y \in Procs : Kid(p, y)' => y = q
          BY <3>1, <5>1 DEF Childless
        <5> QED
          BY <4>1, <4>3, <5>2 DEF Kept, Holds
      <4> QED
        BY <2>2, <4>2, <4>3
    <3> QED
      BY <3>2, <3>3, <3>4
  <2> QED
    BY <1>0, <1>12, <2>4, <2>5, ForkEffect DEF at, n
<1>13. CASE Exec(p)
  <2>1. SameFamily
    BY <1>13, <1>0, Family, ExecEffect DEF Fork, Wait, At
  <2>2. /\ Ours(p) /\ Now(p).call = "exec" /\ Others(p)
    BY <1>0, <1>13, ExecEffect
  <2>3. Childless(p)
    BY <1>1, <1>5, <1>8, <2>2 DEF Counted
  <2> QED
    BY <1>7, <2>1, <2>2, <2>3
<1>14. CASE Wait(p)
  <2>1. /\ Ours(p) /\ Now(p).call = "wait" /\ Lives(p) /\ Goes(p, at, n + 1)
        /\ Bound(prog, at, n + 1) \in {"any", "told"} \/ BoundOf(p) = "one"
    BY <1>0, <1>1, <1>8, <1>14, WaitEffect DEF Counted, at, n
  <2>2. CASE Others(p) /\ \A q \in Procs : procs[q].parent = p => ~Present(procs[q].state)
    <3>1. \A x, y \in Procs : Kid(x, y)' => Kid(x, y)
      BY <2>1, <2>2 DEF Others, Lives, Kid
    <3>2. Kept(p)'
      BY <2>2, <3>1, ChildlessKept DEF Childless, Kid
    <3> QED
      BY <1>4, <2>2, <3>1, <3>2
  <2>3. ASSUME NEW q \in Procs \ {p}, procs[q].parent = p, procs[q].state = "zombie",
               \A x \in Procs \ {p, q} : procs'[x] = procs[x],
               procs'[p].mem = [procs[p].mem EXCEPT !["got"] = q],
               procs'[q].state = "gone", procs'[q].parent = p, procs'[q].at = procs[q].at
        PROVE  \A x \in Procs : Kept(x)'
    <3>1. \A x, y \in Procs : Kid(x, y)' <=> Kid(x, y) /\ y # q
      BY <2>1, <2>3 DEF Lives, Kid, Present
    <3>2. \A x \in Procs \ {p, q} : Kept(x)'
      BY <1>0, <2>3, <3>1, OthersKept
    <3>3. Kept(q)'
      <4>1. Childless(q)
        BY <2>3 DEF FamilyInv, KidsBound, Kept, Ours, Running
      <4> QED
        BY <3>1, <4>1, ChildlessKept DEF Childless
    <3>4. Kept(p)'
      <4>1. Ours(p)' /\ BoundOf(p)' = Bound(prog, at, n + 1) /\ procs'[p].mem["got"] = q
        BY <1>0, <1>1, <1>2, <2>1, <2>3 DEF Ours, Running, BoundOf, Lives, Goes, Memory
      <4>2. CASE BoundOf(p) = "one"
        <5>1. \A y \in Procs : Kid(p, y) => y = q
          BY <1>0, <2>1, <2>3, <4>2 DEF Kept, Holds, Kid, Present
        <5> QED
          BY <3>1, <5>1, ChildlessKept DEF Childless
      <4>3. CASE Bound(prog, at, n + 1) \in {"any", "told"}
        BY <1>2, <4>1, <4>3 DEF Kept, Holds
      <4> QED
        BY <2>1, <4>2, <4>3
    <3> QED
      BY <3>2, <3>3, <3>4
  <2> QED
    BY <1>0, <1>14, <2>2, <2>3, WaitEffect DEF Goes, at, n
<1>15. CASE OtherEnds(p)
  <2>1. SameFamily
    BY <1>15, <1>0, Family, OtherEndsEffect DEF Fork, Wait, At, Ours
  <2>2. Others(p) /\ Childless(p)
    BY <1>0, <1>9, <1>15, OtherEndsEffect DEF Finishes, Ours
  <2> QED
    BY <1>7, <2>1, <2>2
<1>16. CASE Exit(p) \/ Fault(p)
  <2>1. SameFamily
    BY <1>16, <1>0, Family, ExitEffect, FaultEffect DEF Fork, Wait, At
  <2>2. /\ Ours(p) /\ Now(p).call \in {"exit", "abort", "divide"} /\ Others(p)
    BY <1>0, <1>16, ExitEffect, FaultEffect DEF Finishes
  <2>3. Childless(p)
    BY <1>1, <1>5, <1>8, <2>2 DEF Counted
  <2> QED
    BY <1>7, <2>1, <2>2, <2>3
<1> QED
  BY <1>10, <1>11, <1>12, <1>13, <1>14, <1>15, <1>16 DEF Step

\* The invariant holds at the start, in every step, and it implies NoneLeft.
LEMMA InitFamily == Init => FamilyInv
<1> SUFFICES ASSUME Init PROVE FamilyInv
  OBVIOUS
<1>1. \A p \in Procs : procs[p] = NoProcess(IF p = 1 THEN "running" ELSE "none")
  BY DEF Init
<1>2. \A p \in Procs : procs[p].parent = 0 /\ procs[p].mem["error"] = Error
                       /\ procs[p].state = (IF p = 1 THEN "running" ELSE "none")
  <2>1. \A state : /\ NoProcess(state).parent = 0 /\ NoProcess(state).state = state
                   /\ NoProcess(state).mem["error"] = Error
    BY DEF NoProcess
  <2> QED
    BY <1>1, <2>1
<1>3. 1 \in Procs /\ 0 \notin Procs
  BY MaxProcsAssumption DEF Procs
<1>4. Born /\ ErrorStays
  BY <1>2, <1>3 DEF Born, ErrorStays
<1>5. \A p \in Procs : Childless(p)
  BY <1>2, <1>3 DEF Childless, Kid
<1>6. KidsBound
  BY <1>5 DEF KidsBound, Kept, Holds, Childless
<1> QED
  BY <1>4, <1>6, InitTypes DEF FamilyInv

LEMMA NextFamily == FamilyInv /\ [Next]_vars => FamilyInv'
<1> SUFFICES ASSUME FamilyInv, [Next]_vars PROVE FamilyInv'
  OBVIOUS
<1>1. TypeOK'
  BY NextTypes DEF FamilyInv
<1>2. CASE UNCHANGED vars
  BY <1>1, <1>2 DEF vars, FamilyInv, Born, ErrorStays, KidsBound, Kept, Holds, Childless,
     Kid, Ours, Running, BoundOf
<1>3. ASSUME NEW p \in Procs, Step(p) PROVE FamilyInv'
  <2>1. prog' = prog /\ Born' /\ ErrorStays'
    BY <1>3, StepPlaces, StepBorn DEF FamilyInv
  <2>2. prog \in Waiters => \A x \in Procs : Kept(x)'
    BY <1>3, StepKept
  <2> QED
    BY <1>1, <2>1, <2>2 DEF FamilyInv, KidsBound
<1> QED
  BY <1>2, <1>3 DEF Next, Rest

LEMMA FamilyLeaves == FamilyInv => NoneLeft
<1> SUFFICES ASSUME FamilyInv, prog \in Waiters, NEW p \in Procs,
                    procs[p].state \in {"zombie", "gone"},
                    NEW q \in Procs, procs[q].parent = p
             PROVE  procs[q].state = "gone"
  BY DEF NoneLeft, Children, Waiters
<1>1. ~Kid(p, q)
  BY DEF FamilyInv, KidsBound, Kept, Ours, Running, Childless
<1>2. procs[q].state # "none" /\ procs[q] \in Process
  BY DEF FamilyInv, Born, TypeOK, Procs
<1> QED
  BY <1>1, <1>2 DEF Kid, Present, Process

\* The programs of b12 that call wait leave no child behind when they end: wait3 and
\* wait4 wait until an error, the others for each of their children, whatever fork and exec
\* return and also where a child goes on as a parent.
THEOREM ChildrenWaitedFor == Spec => []NoneLeft
  BY InitFamily, NextFamily, FamilyLeaves, PTL DEF Spec
-----------------------------------------------------------------------------
(***************************************************************************)
(* Nobody waits for good.                                                  *)
(***************************************************************************)

\* p waits, and wait does not return: it has a child, and none that has ended.
Blocked(p) ==
  /\ At(p, {"wait"})
  /\ \E q \in Children(p) : Present(procs[q].state)
  /\ \A q \in Children(p) : procs[q].state # "zombie"

\* Nothing is left to do, or some process can go on.
SomeoneGoesOn == Over \/ \E p \in Procs : Running(p) /\ ~At(p, {"loop"}) /\ ~Blocked(p)

\* A child has a higher number than its parent; the numbers are used in their order.
Ranked ==
  \A q \in Procs :
    /\ procs[q].parent < q
    /\ procs[q].state = "none" => \A r \in Procs : q < r => procs[r].state = "none"

\* Of some processes one has the highest number.
LEMMA Youngest ==
  ASSUME NEW T \in SUBSET Procs, T # {}
  PROVE  \E m \in T : \A n \in T : n <= m
<1> DEFINE R == OpToRel(<, Nat)
           U == {MaxProcs - m : m \in T}
<1>1. IsWellFoundedOn(R, Nat)
  BY NatLessThanWellFounded DEF OpToRel
<1>2. R = {ss \in Nat \X Nat : ss[1] < ss[2]}
  BY DEF OpToRel
<1>3. \A m \in T : m \in Nat /\ m <= MaxProcs /\ MaxProcs - m \in Nat
  BY MaxProcsAssumption DEF Procs
<1>4. U \in SUBSET Nat /\ U # {}
  BY <1>3
<1> HIDE DEF R
<1>5. PICK u \in U : \A v \in U : <<v, u>> \notin R
  <2> HIDE DEF U
  <2> QED
    BY <1>1, <1>4, WFMin
<1>6. \A v \in U : ~(v < u)
  BY <1>2, <1>4, <1>5
<1>7. PICK m \in T : u = MaxProcs - m
  BY <1>5
<1>8. \A n \in T : ~(MaxProcs - n < MaxProcs - m)
  BY <1>6, <1>7
<1> QED
  BY <1>3, <1>7, <1>8, MaxProcsAssumption

\* Every step keeps the order of the numbers.
LEMMA StepRanked ==
  ASSUME TypeOK, Ranked, NEW p \in Procs, Step(p)
  PROVE  Ranked'
<1>0. Procs \subseteq Nat /\ \A x \in Procs : procs[x].parent \in 0..MaxProcs
  BY DEF TypeOK, Process, Procs
<1>1. CASE SameFamily
  BY <1>0, <1>1 DEF SameFamily, Ranked
<1>2. ASSUME NEW q \in Procs \ {p}, NewChild(p, q) PROVE Ranked'
  <2>1. p < q
    <3>1. ~(q < p)
      BY <1>2 DEF NewChild, Ranked
    <3> QED
      BY <1>0, <3>1
  <2>2. ASSUME NEW x \in Procs PROVE procs'[x].parent < x
    BY <1>2, <2>1, <2>2 DEF NewChild, Ranked
  <2>3. ASSUME NEW x \in Procs, procs'[x].state = "none", NEW r \in Procs, x < r
        PROVE  procs'[r].state = "none"
    <3>1. x # q /\ procs[x].state = "none"
      BY <1>2, <2>3 DEF NewChild
    <3>2. r # q
      BY <1>2, <2>3, <3>1 DEF NewChild
    <3> QED
      BY <1>2, <2>3, <3>1, <3>2 DEF NewChild, Ranked
  <2> QED
    BY <2>2, <2>3 DEF Ranked
<1>3. ASSUME NEW q \in Procs \ {p}, Reaped(p, q) PROVE Ranked'
  <2>1. \A x \in Procs : procs'[x].parent = procs[x].parent
                         /\ (procs'[x].state = "none" <=> procs[x].state = "none")
    BY <1>3 DEF Reaped
  <2> QED
    BY <2>1 DEF Ranked
<1> QED
  BY <1>1, <1>2, <1>3, Family

\* The youngest process that runs has no running child to wait for.
LEMMA RankedGoesOn == TypeOK /\ Ranked => SomeoneGoesOn
<1> SUFFICES ASSUME TypeOK, Ranked, ~Over PROVE SomeoneGoesOn
  BY DEF SomeoneGoesOn
<1>1. PICK s \in Procs : Running(s) /\ ~At(s, {"loop"})
  BY DEF Over
<1>2. CASE prog = "syslog"
  <2>1. ~Blocked(s)
    BY <1>2, Here DEF Blocked, At, Voiced
  <2> QED
    BY <1>1, <2>1 DEF SomeoneGoesOn
<1>3. CASE prog # "syslog"
  <2>1. PICK m \in Procs : Running(m) /\ \A n \in Procs : Running(n) => n <= m
    <3> DEFINE T == {n \in Procs : Running(n)}
    <3>1. T \in SUBSET Procs /\ T # {}
      BY <1>1
    <3> HIDE DEF T
    <3>2. PICK m \in T : \A n \in T : n <= m
      BY <3>1, Youngest
    <3> QED
      BY <3>2 DEF T
  <2>2. ~At(m, {"loop"})
    BY <1>3, Here DEF At, Voiced
  <2>3. ~Blocked(m)
    <3> SUFFICES ASSUME Blocked(m) PROVE FALSE
      OBVIOUS
    <3>1. PICK q \in Procs : procs[q].parent = m /\ procs[q].state = "running"
      BY DEF Blocked, Children, Present
    <3>2. q \in Nat /\ m \in Nat /\ m < q /\ q <= m
      BY <2>1, <3>1 DEF Ranked, Running, Procs
    <3> QED
      BY <3>2
  <2> QED
    BY <2>1, <2>2, <2>3 DEF SomeoneGoesOn
<1> QED
  BY <1>2, <1>3

\* The exercises never come to a state in which every process that still has something to
\* do waits for another, for any number of processes and wherever fork and exec fail.
THEOREM NobodyWaitsForGood == Spec => []SomeoneGoesOn
<1>1. Init => TypeOK /\ Ranked
  <2>1. Init => Ranked
    BY DEF Init, NoProcess, Ranked, Procs
  <2> QED
    BY <2>1, InitTypes
<1>2. TypeOK /\ Ranked /\ [Next]_vars => TypeOK' /\ Ranked'
  <2>1. TypeOK /\ Ranked /\ UNCHANGED vars => Ranked'
    BY DEF vars, Ranked
  <2> QED
    BY <2>1, NextTypes, StepRanked DEF Next, Rest
<1> QED
  BY <1>1, <1>2, RankedGoesOn, PTL DEF Spec

-----------------------------------------------------------------------------
(***************************************************************************)
(* Lines.                                                                  *)
(***************************************************************************)

\* A line was printed by a process that is behind it now, or has ended.
Printers ==
  \A p \in Procs : \A t \in Texts : <<p, t>> \in printed =>
    /\ procs[p].state # "none"
    /\ Ours(p) => \E x \in Prints[prog] : x[1] = t /\ Behind(prog, x, procs[p].at, procs[p].pc)

\* Nothing is in the buffer on a terminal, behind an exec, and at a place that is Clear.
Buffers ==
  \A p \in Procs :
    /\ tty \/ ~Ours(p) => procs[p].buffer = <<>>
    /\ prog \notin Early /\ Ours(p) /\ Clear(prog, procs[p].at, procs[p].pc) =>
         procs[p].buffer = <<>>

\* The output leads out where the table says so.
Open ==
  \A p \in Procs :
    Ours(p) /\ Outward(prog, procs[p].at, procs[p].pc) => procs[p].out = "stdout"

\* Where a child of wait1 is behind the division.
Strayed(p) == procs[p].at = "main" \/ (procs[p].at = "child3" /\ procs[p].pc = 2)

\* What a child of wait1 may do: it ends, or strays behind the division to a failing wait.
Child(p) ==
  /\ Running(p) => /\ procs[p].mem["pid"] = 0
                   /\ procs[p].at # "other"
                   /\ procs[p].at = "main" => procs[p].pc \in {10, 11, 14}
                   /\ procs[p].at = "main" /\ procs[p].pc = 11 => procs[p].mem["got"] # 0
  /\ procs[p].state \in {"zombie", "gone"} /\ Strayed(p) => procs[p].status = 1

\* In wait1 only the first process is the parent; the others end or stray.
Strays ==
  prog = "wait1" =>
    /\ Running(1) => procs[1].at = "main"
    /\ \A p \in Procs \ {1} : Child(p)

\* p has printed t.
Said(p, t) == <<p, t>> \in printed
\* wait has found q.
Gone(q)    == q \in Procs /\ procs[q].state = "gone"

\* The line wait4 prints for each of its children.
Report == [child1 |-> "first_child", child2 |-> "second_child"]

\* A child that p has reported is gone, so that no wait finds it again; what wait has
\* found is gone too, and not reported yet.
Reporter(p) ==
  /\ \A v \in {"child1", "child2"} : Said(p, Report[v]) => Gone(procs[p].mem[v])
  /\ Ours(p) /\ procs[p].at = "main" =>
       LET n   == procs[p].pc
           got == procs[p].mem["got"]
       IN  /\ n = 5 => got = Error \/ Gone(got)
           /\ n \in {8, 9, 11, 12} => Gone(got)
           /\ n \in {5, 8, 11} =>
                \A v \in {"child1", "child2"} : Said(p, Report[v]) => got # procs[p].mem[v]
           /\ n = 9  => ~Said(p, "first_child") /\ got = procs[p].mem["child1"]
           /\ n = 12 => ~Said(p, "second_child") /\ got = procs[p].mem["child2"]

\* In wait4 no process reports a child twice: what no wait finds again is not reported again.
Reports == prog = "wait4" => \A p \in Procs : Reporter(p)

\* No child of wait1 has gone on behind the division; where the standard output is a
\* file, the program is none of Early.
Straight ==
  tty \/ /\ prog \notin Early
         /\ prog = "wait1" => \A p \in Procs \ {1} : procs[p].state # "none" => ~Strayed(p)

\* The processes whose buffer may come out: the children of wait1 have only copies.
Keepers   == IF prog = "wait1" THEN {1} ELSE Procs
\* What p holds back.
Back(p)   == procs[p].buffer

\* Every printed line has come out or is in one buffer, and in one place there.
AllHeld ==
  /\ \A line \in printed : line \in Range(shown) \/ \E p \in Keepers : line \in Range(Back(p))
  /\ Range(shown) \subseteq printed /\ IsInjective(shown)
  /\ \A p \in Keepers : /\ Range(Back(p)) \subseteq printed /\ IsInjective(Back(p))
                        /\ Range(Back(p)) \cap Range(shown) = {}
  /\ \A p, q \in Keepers : p # q => Range(Back(p)) \cap Range(Back(q)) = {}

\* The account of the lines, as far as ShownOnce promises it.
Accounted == Straight => AllHeld

\* What is known of each process by itself.
Settled == TypeOK /\ Born /\ ErrorStays /\ Printers /\ Buffers /\ Open /\ Reports /\ Strays

\* The inductive invariant for ShownOnce.  ShownOnce speaks of the end; before that a line
\* may still be in a buffer, but in a single one, and nowhere that drops or copies it.
VoiceInv == Settled /\ Accounted

\* q is the child that p has forked, and goes on with what p had in its buffer.
Bears(p, q) ==
  /\ Fork(p) /\ procs[q].state = "none" /\ procs'[q].state = "running"
  /\ Goes(q, Now(p).child, 1) /\ procs'[q].mem = [procs[p].mem EXCEPT ![Now(p).var] = 0]
  /\ procs'[q].status = procs[p].status
  /\ procs'[q].buffer = procs[p].buffer /\ procs'[q].out = procs[p].out

\* p has waited for q.
Buries(p, q) ==
  /\ Wait(p) /\ procs[q].state = "zombie" /\ procs'[q].state = "gone"
  /\ Goes(q, procs[q].at, procs[q].pc) /\ Recalls(q) /\ Hoards(q) /\ Aims(q)
  /\ procs'[q].status = procs[q].status

\* A step of p changes p, and at most one other process, that it forks or waits for.
LEMMA Change ==
  ASSUME TypeOK, NEW p \in Procs, Step(p)
  PROVE  /\ Running(p) /\ procs'[p].state # "none"
         /\ \A x \in Procs \ {p} : procs'[x] = procs[x] \/ Bears(p, x) \/ Buries(p, x)
<1>1. CASE Goto(p)
  BY <1>1, GotoEffect DEF Others, Lives, Running
<1>2. CASE Output(p)
  BY <1>2, OutputEffect DEF Others, Lives, Running
<1>3. CASE Fork(p)
  <2>1. Fork(p) /\ Lives(p)
    BY <1>3, ForkEffect
  <2>2. CASE Others(p)
    BY <2>1, <2>2 DEF Others, Lives, Running
  <2>3. ASSUME NEW q \in Procs \ {p}, procs[q].state = "none",
               \A x \in Procs \ {p, q} : procs'[x] = procs[x],
               procs'[q].state = "running", Goes(q, Now(p).child, 1),
               procs'[q].mem = [procs[p].mem EXCEPT ![Now(p).var] = 0],
               procs'[q].status = procs[p].status, procs'[q].buffer = procs[p].buffer,
               procs'[q].out = procs[p].out
        PROVE  \A x \in Procs \ {p} : procs'[x] = procs[x] \/ Bears(p, x)
    BY <2>1, <2>3 DEF Bears
  <2> QED
    BY <1>3, <2>1, <2>2, <2>3, ForkEffect DEF Lives, Running
<1>4. CASE Exec(p)
  BY <1>4, ExecEffect DEF Others, Lives, Running
<1>5. CASE OtherEnds(p)
  BY <1>5, OtherEndsEffect DEF Others, Finishes, Running
<1>6. CASE Wait(p)
  <2>1. Wait(p) /\ Lives(p)
    BY <1>6, WaitEffect
  <2>2. CASE Others(p)
    BY <2>1, <2>2 DEF Others, Lives, Running
  <2>3. ASSUME NEW q \in Procs \ {p}, procs[q].state = "zombie",
               \A x \in Procs \ {p, q} : procs'[x] = procs[x],
               procs'[q].state = "gone", procs'[q].status = procs[q].status,
               Recalls(q), Hoards(q), Aims(q), Goes(q, procs[q].at, procs[q].pc)
        PROVE  \A x \in Procs \ {p} : procs'[x] = procs[x] \/ Buries(p, x)
    BY <2>1, <2>3 DEF Buries
  <2> QED
    BY <1>6, <2>1, <2>2, <2>3, WaitEffect DEF Lives, Running
<1>7. CASE Exit(p)
  BY <1>7, ExitEffect DEF Others, Finishes, Running
<1>8. CASE Fault(p)
  BY <1>8, FaultEffect DEF Others, Finishes, Lives, Running
<1>9. CASE Redirect(p)
  BY <1>9, RedirectEffect DEF Others, Lives, Running
<1> QED
  BY <1>1, <1>2, <1>3, <1>4, <1>5, <1>6, <1>7, <1>8, <1>9 DEF Step

\* Where p goes on it is behind the lines it was behind.
LEMMA Onwards ==
  ASSUME TypeOK, NEW p \in Procs, Step(p), Ours(p)'
  PROVE  /\ Ours(p)
         /\ Flow(prog, procs[p].at, procs[p].pc, procs'[p].at, procs'[p].pc)
         /\ Leads(prog, procs[p].at, procs[p].pc, procs'[p].at, procs'[p].pc)
<1>1. Ours(p) => /\ Checked(prog, procs[p].at, procs[p].pc, Now(p))
                 /\ Voiced(prog, procs[p].at, procs[p].pc, Now(p))
  BY Here
<1> USE DEF Ours, Running, Lives, Goes, Checked, Voiced, Final, Printing
<1>2. CASE Goto(p)
  BY <1>1, <1>2, GotoEffect
<1>3. CASE Output(p)
  BY <1>1, <1>3, OutputEffect
<1>4. CASE Fork(p)
  <2>1. \/ Goes(p, "main", Now(p).fails) \/ Goes(p, procs[p].at, procs[p].pc + 1)
    BY <1>4, ForkEffect
  <2> QED
    BY <1>1, <1>4, <2>1, ForkEffect
<1>5. CASE Exec(p)
  BY <1>1, <1>5, ExecEffect
<1>6. CASE OtherEnds(p)
  BY <1>1, <1>6, OtherEndsEffect DEF Finishes
<1>7. CASE Wait(p)
  BY <1>1, <1>7, WaitEffect
<1>8. CASE Exit(p)
  BY <1>8, ExitEffect DEF Finishes
<1>9. CASE Fault(p)
  BY <1>1, <1>9, FaultEffect DEF Finishes
<1>10. CASE Redirect(p)
  BY <1>1, <1>10, RedirectEffect
<1> QED
  BY <1>2, <1>3, <1>4, <1>5, <1>6, <1>7, <1>8, <1>9, <1>10 DEF Step

\* Lines are printed by Output alone.
LEMMA LineStep ==
  ASSUME TypeOK, NEW p \in Procs, Step(p)
  PROVE  \/ printed' = printed
         \/ Output(p) /\ printed' = printed \cup {Item(p)}
  BY OutputEffect DEF Step, Goto, Fork, Exec, OtherEnds, Wait, Exit, Fault, Redirect

\* A process that prints is behind the line then, and nobody comes back in front of one.
LEMMA StepPrinters ==
  ASSUME TypeOK, Printers, NEW p \in Procs, Step(p)
  PROVE  Printers'
<1> SUFFICES ASSUME NEW x \in Procs, NEW t \in Texts, <<x, t>> \in printed'
             PROVE  /\ procs'[x].state # "none"
                    /\ Ours(x)' => \E y \in Prints[prog] :
                         y[1] = t /\ Behind(prog, y, procs'[x].at, procs'[x].pc)
  BY StepPlaces DEF Printers
<1>1. CASE <<x, t>> \in printed /\ x # p
  <2>1. procs[x].state # "none"
    BY <1>1 DEF Printers
  <2>2. procs'[x] = procs[x] \/ Buries(p, x)
    BY <1>1, <2>1, Change DEF Bears
  <2> QED
    BY <1>1, <2>1, <2>2 DEF Printers, Buries, Ours, Running
<1>2. CASE <<x, t>> \in printed /\ x = p
  BY <1>2, Change, Onwards DEF Printers, Flow
<1>3. CASE <<x, t>> \notin printed
  <2>1. Output(p) /\ x = p /\ t = Now(p).text
    BY <1>3, LineStep DEF Item
  <2>2. /\ Ours(p) /\ Now(p).call \in Printing
        /\ Goes(p, procs[p].at, procs[p].pc + 1)
    BY <2>1, OutputEffect
  <2>3. <<t, procs[p].at, procs[p].pc>> \in Prints[prog] /\ procs[p].pc \in Nat
    BY <2>1, <2>2, Here DEF Checked
  <2>4. Behind(prog, <<t, procs[p].at, procs[p].pc>>, procs[p].at, procs[p].pc + 1)
    BY <2>3 DEF Behind
  <2> QED
    BY <2>1, <2>2, <2>3, <2>4, Change DEF Goes
<1> QED
  BY <1>1, <1>2, <1>3

\* A child starts in a block of its own, at a place the parent may go on to.
LEMMA ChildPlace ==
  ASSUME TypeOK, NEW p \in Procs, NEW q \in Procs, Ours(p), Bears(p, q)
  PROVE  /\ Ours(q)' /\ procs'[q].at # "main"
         /\ Leads(prog, procs[p].at, procs[p].pc, procs'[q].at, procs'[q].pc)
<1>1. /\ Place(prog, Now(p).child, 1) /\ Now(p).child # "main"
      /\ Leads(prog, procs[p].at, procs[p].pc, Now(p).child, 1)
  BY Here, ForkEffect DEF Bears, Checked, Voiced
<1>2. Now(p).child # "other" /\ prog \in DOMAIN Program
  BY <1>1, Here, AllCalls DEF Place, Checked
<1> QED
  BY <1>1, <1>2 DEF Bears, Goes, Ours, Running

\* A step of p empties its buffer, leaves it, or adds the line it prints.
LEMMA BufferStep ==
  ASSUME TypeOK, NEW p \in Procs, Step(p)
  PROVE  \/ procs'[p].buffer = <<>>
         \/ Hoards(p) /\ Ours(p)'
         \/ /\ Output(p) /\ ~Direct(p) /\ Ours(p)' /\ Goes(p, procs[p].at, procs[p].pc + 1)
            /\ procs'[p].buffer = Append(procs[p].buffer, Item(p))
<1>1. Ours(p) => procs[p].at # "other"
  BY Here
<1> USE DEF Ours, Running, Lives, Goes
<1>2. CASE Goto(p)
  BY <1>1, <1>2, GotoEffect
<1>3. CASE Output(p)
  BY <1>1, <1>3, OutputEffect DEF Hoards
<1>4. CASE Fork(p)
  <2>1. \/ Goes(p, "main", Now(p).fails) \/ Goes(p, procs[p].at, procs[p].pc + 1)
    BY <1>4, ForkEffect
  <2> QED
    BY <1>1, <1>4, <2>1, ForkEffect
<1>5. CASE Exec(p)
  BY <1>1, <1>5, ExecEffect
<1>6. CASE OtherEnds(p)
  BY <1>6, OtherEndsEffect DEF Finishes
<1>7. CASE Wait(p)
  BY <1>1, <1>7, WaitEffect
<1>8. CASE Exit(p)
  BY <1>8, ExitEffect DEF Finishes
<1>9. CASE Fault(p)
  BY <1>1, <1>9, FaultEffect DEF Finishes
<1>10. CASE Redirect(p)
  BY <1>1, <1>10, RedirectEffect
<1> QED
  BY <1>2, <1>3, <1>4, <1>5, <1>6, <1>7, <1>8, <1>9, <1>10 DEF Step

\* No step fills a buffer where it has to be empty.
LEMMA StepBuffers ==
  ASSUME TypeOK, Buffers, NEW p \in Procs, Step(p)
  PROVE  Buffers'
<1> SUFFICES ASSUME NEW x \in Procs
             PROVE  /\ tty \/ ~Ours(x)' => procs'[x].buffer = <<>>
                    /\ prog \notin Early /\ Ours(x)' /\ Clear(prog, procs'[x].at, procs'[x].pc)
                         => procs'[x].buffer = <<>>
  BY StepPlaces DEF Buffers
<1>1. CASE procs'[x] = procs[x]
  BY <1>1 DEF Buffers, Ours, Running
<1>2. CASE x # p /\ Bears(p, x)
  <2>1. Ours(p)
    BY <1>2, ForkEffect DEF Bears
  <2> QED
    BY <1>2, <2>1, ChildPlace DEF Buffers, Bears, Leads
<1>3. CASE x # p /\ Buries(p, x)
  BY <1>3 DEF Buffers, Buries, Ours, Running, Hoards
<1>4. CASE x = p /\ Hoards(p) /\ Ours(p)'
  BY <1>4, Onwards DEF Buffers, Hoards, Leads
<1>5. CASE /\ x = p /\ Output(p) /\ ~Direct(p) /\ Ours(p)'
             /\ Goes(p, procs[p].at, procs[p].pc + 1)
  <2>1. prog \notin Early => ~Clear(prog, procs[p].at, procs[p].pc + 1)
    BY <1>5, OutputEffect, Here DEF Voiced
  <2> QED
    BY <1>5, <2>1 DEF Direct, Goes
<1> QED
  BY <1>1, <1>2, <1>3, <1>4, <1>5, Change, BufferStep

\* The output is redirected only behind the last line.
LEMMA StepOpen ==
  ASSUME TypeOK, Open, NEW p \in Procs, Step(p)
  PROVE  Open'
<1> SUFFICES ASSUME NEW x \in Procs, Ours(x)', Outward(prog, procs'[x].at, procs'[x].pc)
             PROVE  procs'[x].out = "stdout"
  BY StepPlaces DEF Open
<1>1. CASE procs'[x] = procs[x]
  BY <1>1 DEF Open, Ours, Running
<1>2. CASE x # p /\ Bears(p, x)
  <2>1. Ours(p)
    BY <1>2, ForkEffect DEF Bears
  <2> QED
    BY <1>2, <2>1, ChildPlace DEF Open, Bears, Leads
<1>3. CASE x # p /\ Buries(p, x)
  BY <1>3 DEF Buries, Ours, Running
<1>4. CASE x = p /\ Aims(p)
  BY <1>4, Onwards DEF Open, Aims, Leads
<1>5. CASE x = p /\ Redirect(p)
  BY <1>5, RedirectEffect, Here DEF Voiced, Goes
<1>6. Redirect(p) \/ Aims(p)
  BY GotoEffect, OutputEffect, ForkEffect, ExecEffect, OtherEndsEffect, WaitEffect,
     ExitEffect, FaultEffect
     DEF Step, Finishes
<1> QED
  BY <1>1, <1>2, <1>3, <1>4, <1>5, <1>6, Change

\* A process makes the step of its call.
LEMMA ByCall ==
  ASSUME TypeOK, NEW p \in Procs, Step(p), Ours(p)
  PROVE  /\ Now(p).call \in {"goto", "is"} => Goto(p)
         /\ Now(p).call \in Printing => Output(p)
         /\ Now(p).call = "fork" => Fork(p)
         /\ Now(p).call = "exec" => Exec(p)
         /\ Now(p).call = "wait" => Wait(p)
         /\ Now(p).call = "exit" => Exit(p)
         /\ Now(p).call \in {"abort", "divide"} => Fault(p)
<1>1. ~OtherEnds(p)
  BY Here DEF OtherEnds
<1> QED
  BY <1>1 DEF Step, Goto, Output, Fork, Exec, Wait, Exit, Fault, Redirect, At, Printing

\* What the processes of wait1 do in the blocks of their children and behind the division.
LEMMA InWait1 ==
  ASSUME TypeOK, NEW p \in Procs, Ours(p), prog = "wait1"
  PROVE  LET at == procs[p].at
             n  == procs[p].pc
         IN  /\ at \in {"main", "child", "child2", "child3"}
             /\ at = "child" => n = 1 /\ Now(p).call = "exit"
             /\ at = "child2" => n = 1 /\ Now(p).call = "abort"
             /\ at = "child3" => \/ n = 1 /\ Now(p).call = "divide"
                                 \/ n = 2 /\ Now(p).call = "goto" /\ Now(p).n = 10
             /\ at = "main" /\ n = 10 => Now(p).call = "wait"
             /\ at = "main" /\ n = 11 => Now(p).call = "is" /\ Now(p).var = "pid"
                                              /\ Now(p).n = 14
             /\ at = "main" /\ n = 14 => Now(p).call = "exit" /\ Now(p).code = 1
             /\ Now(p).call = "fork" => Now(p).var = "pid"
<1>0. Program["wait1"] = wait1
  BY DEF Program
<1>1. /\ procs[p].at \in DOMAIN wait1 /\ procs[p].pc \in DOMAIN wait1[procs[p].at]
      /\ Now(p) = wait1[procs[p].at][procs[p].pc]
  BY <1>0, Here DEF Place
<1>2. procs[p].at \in {"main", "child", "child2", "child3"}
  BY <1>1 DEF wait1
<1>3. CASE procs[p].at = "main"
  <2>1. procs[p].pc \in 1..14
    BY <1>1, <1>3 DEF wait1
  <2> QED
    BY <1>1, <1>3, <2>1 DEF wait1, Call, exit, fork, goto, is, printf, wait
<1>4. CASE procs[p].at \in {"child", "child2"}
  <2>1. procs[p].pc \in 1..1
    BY <1>1, <1>4 DEF wait1
  <2> QED
    BY <1>1, <1>4, <2>1 DEF wait1, Call, exit, abort
<1>5. CASE procs[p].at = "child3"
  <2>1. procs[p].pc \in 1..2
    BY <1>1, <1>5 DEF wait1
  <2> QED
    BY <1>1, <1>5, <2>1 DEF wait1, Call, goto, divide
<1> QED
  BY <1>2, <1>3, <1>4, <1>5

\* A process does not leave main for another block of its program.
LEMMA StaysInMain ==
  ASSUME TypeOK, NEW p \in Procs, Step(p), procs[p].at = "main", prog = "wait1"
  PROVE  procs'[p].at = "main"
<1>1. Ours(p) => Now(p).call # "exec"
  BY Here DEF Voiced
<1>2. ~Exec(p) /\ ~OtherEnds(p)
  BY <1>1, ExecEffect, OtherEndsEffect
<1> USE DEF Goes
<1>3. CASE Goto(p)
  BY <1>3, GotoEffect
<1>4. CASE Fork(p)
  <2>1. Goes(p, "main", Now(p).fails) \/ Goes(p, procs[p].at, procs[p].pc + 1)
    BY <1>4, ForkEffect
  <2> QED
    BY <2>1
<1>5. CASE Output(p) \/ Wait(p) \/ Redirect(p)
  BY <1>5, OutputEffect, WaitEffect, RedirectEffect
<1>6. CASE Exit(p) \/ Fault(p)
  BY <1>6, ExitEffect, FaultEffect DEF Finishes
<1> QED
  BY <1>2, <1>3, <1>4, <1>5, <1>6 DEF Step

\* wait changes only what it returned.
LEMMA WaitGets ==
  ASSUME TypeOK, NEW p \in Procs, Wait(p)
  PROVE  /\ Lives(p) /\ Goes(p, procs[p].at, procs[p].pc + 1)
         /\ \E e \in Procs \cup {Error} : procs'[p].mem = [procs[p].mem EXCEPT !["got"] = e]
<1>1. CASE procs'[p].mem = [procs[p].mem EXCEPT !["got"] = Error]
  BY <1>1, WaitEffect
<1>2. ASSUME NEW q \in Procs \ {p}, procs'[p].mem = [procs[p].mem EXCEPT !["got"] = q]
      PROVE  \E e \in Procs \cup {Error} : procs'[p].mem = [procs[p].mem EXCEPT !["got"] = e]
  BY <1>2
<1>3. Lives(p) /\ Goes(p, procs[p].at, procs[p].pc + 1)
  BY WaitEffect
<1> QED
  BY <1>1, <1>2, <1>3, WaitEffect

\* A child of wait1 that goes on behind the division finds no child, and ends with 1.
LEMMA StepStrays ==
  ASSUME TypeOK, Born, Strays, NEW p \in Procs, Step(p)
  PROVE  Strays'
<1> SUFFICES ASSUME prog = "wait1" PROVE Strays'
  BY StepPlaces DEF Strays
<1>0. prog' = prog /\ 1 \in Procs /\ Running(p)
  BY StepPlaces, Change, MaxProcsAssumption DEF Procs
<1>1. Running(1)' => procs'[1].at = "main"
  <2>1. CASE p = 1
    BY <1>0, <2>1, StaysInMain DEF Strays
  <2>2. CASE p # 1
    <3>1. procs'[1] = procs[1] \/ Buries(p, 1)
      BY <1>0, <2>2, Change DEF Bears, Born
    <3> QED
      BY <3>1 DEF Strays, Running, Buries
  <2> QED
    BY <2>1, <2>2
<1>2. ASSUME NEW x \in Procs \ {1} PROVE Child(x)'
  <2>2. CASE procs'[x] = procs[x]
    BY <2>2 DEF Strays, Strayed, Running, Child
  <2>3. CASE x # p /\ Buries(p, x)
    BY <2>3 DEF Buries, Goes, Strays, Strayed, Running, Child
  <2>4. CASE x # p /\ Bears(p, x)
    <3>1. Ours(p) /\ Now(p).var = "pid" /\ procs[p].mem \in Memory
      BY <2>4, ForkEffect, InWait1 DEF Bears, TypeOK, Process
    <3>2. procs'[x].mem["pid"] = 0
      BY <2>4, <3>1 DEF Bears, Memory
    <3>3. procs'[x].at \notin {"main", "other"} /\ procs'[x].state = "running"
      <4>1. Ours(x)' /\ procs'[x].at # "main"
        BY <2>4, <3>1, ChildPlace
      <4> QED
        BY <2>4, <4>1 DEF Ours, Bears
    <3> QED
      BY <3>2, <3>3 DEF Child
  <2>5. CASE x = p
    <3>1. Ours(p) /\ procs[p].mem["pid"] = 0 /\ procs[p].mem \in Memory
      BY <1>0, <2>5 DEF Strays, Ours, TypeOK, Process, Child
    <3>2. procs[p].at \in {"main", "child", "child2", "child3"}
      BY <3>1, InWait1
    <3>3. CASE procs[p].at = "child"
      BY <2>5, <3>1, <3>3, InWait1, ByCall, ExitEffect DEF Finishes, Running, Goes, Strayed,
         Child
    <3>4. CASE procs[p].at = "child2"
      BY <2>5, <3>1, <3>4, InWait1, ByCall, FaultEffect DEF Finishes, Running, Goes, Strayed,
         Child
    <3>5. CASE procs[p].at = "child3" /\ procs[p].pc = 1
      BY <2>5, <3>1, <3>5, InWait1, ByCall, FaultEffect DEF Finishes, Running, Goes, Strayed,
         Lives, Recalls, Child
    <3>6. CASE procs[p].at = "child3" /\ procs[p].pc # 1
      <4>1. Now(p).call = "goto" /\ Now(p).n = 10
        BY <3>1, <3>6, InWait1
      <4> QED
        BY <2>5, <3>1, <4>1, ByCall, GotoEffect DEF Goes, Lives, Recalls, Running, Child
    <3>7. CASE procs[p].at = "main" /\ procs[p].pc = 10
      <4>1. Wait(p)
        BY <3>1, <3>7, InWait1, ByCall
      <4>2. \E q \in Procs \cup {Error} : procs'[p].mem = [procs[p].mem EXCEPT !["got"] = q]
        BY <4>1, WaitGets
      <4>3. procs'[p].mem["pid"] = 0 /\ procs'[p].mem["got"] # 0
        BY <3>1, <4>2 DEF Memory, Procs, Error
      <4>4. Lives(p) /\ Goes(p, "main", 11)
        BY <3>7, <4>1, WaitGets
      <4> QED
        BY <2>5, <4>3, <4>4 DEF Goes, Lives, Running, Child
    <3>8. CASE procs[p].at = "main" /\ procs[p].pc = 11
      <4>1. Now(p).call = "is" /\ Now(p).var = "pid" /\ Now(p).n = 14 /\ Goto(p)
        BY <3>1, <3>8, InWait1, ByCall
      <4>2. procs[p].mem["got"] # 0
        BY <1>0, <2>5, <3>8 DEF Strays, Child
      <4>3. Goes(p, "main", 14) /\ Lives(p) /\ Recalls(p)
        BY <3>1, <4>1, <4>2, GotoEffect
      <4> QED
        BY <2>5, <3>1, <4>3 DEF Goes, Lives, Recalls, Running, Child
    <3>9. CASE procs[p].at = "main" /\ procs[p].pc = 14
      BY <2>5, <3>1, <3>9, InWait1, ByCall, ExitEffect DEF Finishes, Running, Goes, Strayed,
         Child
    <3> QED
      BY <1>0, <2>5, <3>2, <3>3, <3>4, <3>5, <3>6, <3>7, <3>8, <3>9 DEF Strays, Child
  <2> QED
    BY <2>2, <2>3, <2>4, <2>5, Change
<1> QED
  BY <1>0, <1>1, <1>2 DEF Strays

\* What the processes of wait4 do at each place.
LEMMA InWait4 ==
  ASSUME TypeOK, NEW p \in Procs, Ours(p), prog = "wait4"
  PROVE  LET at == procs[p].at
             n  == procs[p].pc
             c  == Now(p)
         IN  /\ at = "main" => n \in 1..13
             /\ c.call = "is" => /\ at = "main"
                                 /\ \/ n = 5 /\ c.var = "error" /\ c.n = 8
                                    \/ n = 8 /\ c.var = "child1" /\ c.n = 11
                                    \/ n = 11 /\ c.var = "child2" /\ c.n = 4
             /\ c.call = "goto" => c.n \in {2, 3, 4}
             /\ c.call = "fork" => /\ at = "main" /\ n \in {1, 2} /\ c.fails \in {2, 3}
                                   /\ c.var \in {"child1", "child2"}
             /\ c.call = "wait" => at = "main" /\ n = 4
             /\ c.call = "exec" => at # "main"
             /\ c.call \in Printing => /\ at = "main" /\ n \in {3, 6, 9, 12}
                                       /\ c.text = "first_child" <=> n = 9
                                       /\ c.text = "second_child" <=> n = 12
             /\ c.call \in {"goto", "is", "fork", "wait", "exec", "exit"} \cup Printing
<1>0. Program["wait4"] = wait4
  BY DEF Program
<1>1. /\ procs[p].at \in DOMAIN wait4 /\ procs[p].pc \in DOMAIN wait4[procs[p].at]
      /\ Now(p) = wait4[procs[p].at][procs[p].pc]
  BY <1>0, Here DEF Place
<1>2. procs[p].at \in {"main", "child", "child2"}
  BY <1>1 DEF wait4
<1>3. CASE procs[p].at = "main"
  <2>1. procs[p].pc \in 1..13
    BY <1>1, <1>3 DEF wait4
  <2> QED
    BY <1>1, <1>3, <2>1 DEF wait4, Call, exit, fork, goto, is, printf, wait, Printing
<1>4. CASE procs[p].at \in {"child", "child2"}
  <2>1. procs[p].pc \in 1..2
    BY <1>1, <1>4 DEF wait4
  <2> QED
    BY <1>1, <1>4, <2>1 DEF wait4, Call, goto, exec, Printing
<1> QED
  BY <1>2, <1>3, <1>4

\* Reports come behind the first wait.
LEMMA SaidLate ==
  ASSUME TypeOK, Printers, prog = "wait4", NEW p \in Procs, Ours(p),
         NEW v \in {"child1", "child2"}, Said(p, Report[v])
  PROVE  procs[p].at = "main" /\ procs[p].pc >= 4
<1>1. Report[v] \in {"first_child", "second_child"}
  BY DEF Report
<1>2. Report[v] \in Texts
  BY DEF TypeOK, Said
<1>3. PICK y \in Prints["wait4"] : y[1] = Report[v]
          /\ Behind("wait4", y, procs[p].at, procs[p].pc)
  BY <1>2 DEF Printers, Said
<1>4. y[2] = "main" /\ y[3] \in {9, 12}
  BY <1>1, <1>3 DEF Prints
<1> QED
  BY <1>3, <1>4 DEF Behind

\* A child that wait has taken stays gone.
LEMMA GoneStays ==
  ASSUME TypeOK, NEW p \in Procs, Step(p), NEW q, Gone(q)
  PROVE  Gone(q)'
  BY Change DEF Gone, Running, Bears, Buries

\* No step reports a child that is reported.
LEMMA StepReports ==
  ASSUME TypeOK, ErrorStays, Printers, Reports, NEW p \in Procs, Step(p)
  PROVE  Reports'
<1> SUFFICES ASSUME prog = "wait4", NEW x \in Procs PROVE Reporter(x)'
  BY StepPlaces DEF Reports
<1>0. Reporter(x) /\ \A q : Gone(q) => Gone(q)'
  BY GoneStays DEF Reports
<1>1. CASE x # p
  <2>1. \A t : Said(x, t)' <=> Said(x, t)
    BY <1>1, LineStep DEF Said, Item
  <2>2. CASE procs'[x] = procs[x]
    <3>1. Ours(x)' = Ours(x)
      BY <2>2 DEF Ours, Running
    <3> QED
      BY <1>0, <2>1, <2>2, <3>1 DEF Reporter
  <2>3. CASE Buries(p, x)
    <3>1. ~Ours(x)' /\ procs'[x].mem = procs[x].mem
      BY <2>3 DEF Buries, Recalls, Ours, Running
    <3> QED
      BY <1>0, <2>1, <3>1 DEF Reporter
  <2>4. CASE Bears(p, x)
    <3>1. \A v \in {"child1", "child2"} : ~Said(x, Report[v])
      BY <2>4 DEF Bears, Printers, Said, TypeOK
    <3>2. procs'[x].at # "main"
      BY <2>4, ChildPlace, ForkEffect DEF Bears
    <3> QED
      BY <2>1, <3>1, <3>2 DEF Reporter
  <2> QED
    BY <1>1, <2>2, <2>3, <2>4, Change
<1>2. CASE x = p /\ ~Ours(p)
  <2>1. OtherEnds(p)
    BY <1>2 DEF Step, Goto, Output, Fork, Exec, Wait, Exit, Fault, Redirect, At
  <2>2. Recalls(p) /\ ~Ours(p)' /\ printed' = printed
    BY <2>1, OtherEndsEffect DEF Finishes, Ours, Running
  <2> QED
    BY <1>0, <1>2, <2>2 DEF Reporter, Said, Recalls
<1>3. CASE x = p /\ Ours(p)
  <2> DEFINE at == procs[p].at
             n == procs[p].pc
             mem == procs[p].mem
  <2>0. mem["error"] = Error /\ mem \in Memory
    BY DEF ErrorStays, TypeOK, Process
  <2>1. CASE Now(p).call \in {"goto", "is"}
    <3>1. Goto(p)
      BY <1>3, <2>1, ByCall
    <3>2. Recalls(p) /\ printed' = printed /\ Lives(p)
      BY <3>1, GotoEffect
    <3>3. \A v \in {"child1", "child2"} : Said(p, Report[v])' => Gone(procs[p].mem[v])'
      BY <1>0, <1>3, <3>2 DEF Reporter, Said, Recalls, Gone
    <3>4. CASE Now(p).call = "goto"
      <4>1. procs'[p].pc \in {2, 3, 4}
        BY <1>3, <3>1, <3>4, GotoEffect, InWait4 DEF Goes
      <4> QED
        BY <1>3, <3>3, <4>1 DEF Reporter
    <3>5. CASE Now(p).call = "is"
      <4>1. at = "main" /\ procs'[p].mem = mem
                /\ \A v \in {"child1", "child2"} : Said(p, Report[v])' <=> Said(p, Report[v])
        BY <1>3, <3>2, <3>5, InWait4 DEF Recalls, Said
      <4>2. \/ /\ Goes(p, at, n + 1) /\ mem["got"] = mem[Now(p).var]
            \/ Goes(p, "main", Now(p).n) /\ mem["got"] # mem[Now(p).var]
        BY <3>1, <3>5, GotoEffect
      <4>3. CASE n = 5 /\ Now(p).var = "error" /\ Now(p).n = 8
        <5>1. procs'[p].pc = 6 \/ (procs'[p].pc = 8 /\ mem["got"] # Error)
          BY <2>0, <4>2, <4>3 DEF Goes
        <5>2. mem["got"] # Error => Gone(mem["got"])
          BY <1>0, <1>3, <4>1, <4>3 DEF Reporter
        <5>3. \A v \in {"child1", "child2"} : Said(p, Report[v]) => mem["got"] # mem[v]
          BY <1>0, <1>3, <4>1, <4>3 DEF Reporter
        <5> QED
          BY <1>0, <1>3, <3>3, <4>1, <5>1, <5>2, <5>3 DEF Reporter, Gone
      <4>4. CASE n = 8 /\ Now(p).var = "child1" /\ Now(p).n = 11
        <5>1. (procs'[p].pc = 9 /\ mem["got"] = mem["child1"]) \/ procs'[p].pc = 11
          BY <4>2, <4>4 DEF Goes
        <5>2. Gone(mem["got"])
          BY <1>0, <1>3, <4>1, <4>4 DEF Reporter
        <5>3. \A v \in {"child1", "child2"} : Said(p, Report[v]) => mem["got"] # mem[v]
          BY <1>0, <1>3, <4>1, <4>4 DEF Reporter
        <5>4. Said(p, "first_child")' => mem["got"] # mem["child1"]
          BY <4>1, <5>3 DEF Report
        <5> QED
          BY <1>0, <1>3, <3>3, <4>1, <5>1, <5>2, <5>3, <5>4 DEF Reporter, Gone
      <4>5. CASE n = 11 /\ Now(p).var = "child2" /\ Now(p).n = 4
        <5>1. (procs'[p].pc = 12 /\ mem["got"] = mem["child2"]) \/ procs'[p].pc = 4
          BY <4>2, <4>5 DEF Goes
        <5>2. Gone(mem["got"])
          BY <1>0, <1>3, <4>1, <4>5 DEF Reporter
        <5>3. \A v \in {"child1", "child2"} : Said(p, Report[v]) => mem["got"] # mem[v]
          BY <1>0, <1>3, <4>1, <4>5 DEF Reporter
        <5>4. Said(p, "second_child")' => mem["got"] # mem["child2"]
          BY <4>1, <5>3 DEF Report
        <5> QED
          BY <1>0, <1>3, <3>3, <4>1, <5>1, <5>2, <5>3, <5>4 DEF Reporter, Gone
      <4> QED
        BY <1>3, <3>5, <4>3, <4>4, <4>5, InWait4
    <3> QED
      BY <2>1, <3>4, <3>5
  <2>2. CASE Now(p).call \in Printing
    <3>1. Output(p) /\ Recalls(p) /\ printed' = printed \cup {Item(p)} /\ Goes(p, at, n + 1)
      BY <1>3, <2>2, ByCall, OutputEffect
    <3>2. /\ at = "main" /\ n \in {3, 6, 9, 12}
          /\ Now(p).text = "first_child" => n = 9
          /\ Now(p).text = "second_child" => n = 12
      BY <1>3, <2>2, InWait4
    <3>3. \A v \in {"child1", "child2"} : Said(p, Report[v])' => Gone(mem[v])
      <4>1. n = 9 => Gone(mem["child1"])
        BY <1>0, <1>3, <3>2 DEF Reporter
      <4>2. n = 12 => Gone(mem["child2"])
        BY <1>0, <1>3, <3>2 DEF Reporter
      <4>3. \A v \in {"child1", "child2"} : Said(p, Report[v])' =>
              Said(p, Report[v]) \/ Now(p).text = Report[v]
        BY <3>1 DEF Said, Item
      <4> QED
        BY <1>0, <1>3, <3>2, <4>1, <4>2, <4>3 DEF Reporter, Report
    <3>4. procs'[p].pc \in {4, 7, 10, 13}
      BY <3>1, <3>2 DEF Goes
    <3> QED
      BY <1>0, <1>3, <3>1, <3>3, <3>4 DEF Reporter, Recalls
  <2>3. CASE Now(p).call = "fork"
    <3>1. Fork(p) /\ printed' = printed
      BY <1>3, <2>3, ByCall, ForkEffect
    <3>2. at = "main" /\ n \in {1, 2} /\ Now(p).fails \in {2, 3}
      BY <1>3, <2>3, InWait4
    <3>3. procs'[p].pc \in {2, 3}
      <4>1. Goes(p, "main", Now(p).fails) \/ Goes(p, at, n + 1)
        BY <3>1, ForkEffect
      <4> QED
        BY <3>2, <4>1 DEF Goes
    <3>4. \A v \in {"child1", "child2"} : ~Said(p, Report[v])'
      <4>1. \A v \in {"child1", "child2"} : ~Said(p, Report[v])
        BY <1>3, <3>2, SaidLate
      <4> QED
        BY <3>1, <4>1 DEF Said
    <3> QED
      BY <1>3, <3>3, <3>4 DEF Reporter
  <2>4. CASE Now(p).call = "exec"
    <3>1. Exec(p) /\ Recalls(p) /\ printed' = printed /\ at # "main"
      BY <1>3, <2>4, ByCall, ExecEffect, InWait4
    <3>2. procs'[p].at # "main"
      BY <3>1, ExecEffect DEF Goes
    <3> QED
      BY <1>0, <1>3, <3>1, <3>2 DEF Reporter, Said, Recalls
  <2>5. CASE Now(p).call = "wait"
    <3>1. Wait(p) /\ printed' = printed /\ at = "main" /\ n = 4
      BY <1>3, <2>5, ByCall, WaitEffect, InWait4
    <3>2. procs'[p].pc = 5
      BY <3>1, WaitGets DEF Goes
    <3>3. ASSUME NEW e, procs'[p].mem = [procs[p].mem EXCEPT !["got"] = e],
                 e = Error \/ Gone(e)',
                 ~Gone(e)
          PROVE  Reporter(p)'
      <4>1. procs'[p].mem["got"] = e
                /\ \A v \in {"child1", "child2"} : procs'[p].mem[v] = mem[v]
        BY <2>0, <3>3 DEF Memory
      <4>2. \A v \in {"child1", "child2"} : Said(p, Report[v])' => Gone(mem[v])
        BY <1>0, <1>3, <3>1 DEF Reporter, Said
      <4> QED
        BY <1>0, <3>2, <3>3, <4>1, <4>2 DEF Reporter
    <3>4. ~Gone(Error)
      BY DEF Gone, Procs, Error
    <3>5. ASSUME NEW q \in Procs \ {p}, procs[q].state = "zombie", procs'[q].state = "gone",
                 procs'[p].mem = [procs[p].mem EXCEPT !["got"] = q]
          PROVE  Reporter(p)'
      BY <3>3, <3>5 DEF Gone
    <3> QED
      BY <1>3, <3>1, <3>3, <3>4, <3>5, WaitEffect
  <2>6. CASE Now(p).call = "exit"
    <3>1. Recalls(p) /\ ~Ours(p)' /\ printed' = printed
      BY <1>3, <2>6, ByCall, ExitEffect DEF Finishes, Ours, Running
    <3> QED
      BY <1>0, <1>3, <3>1 DEF Reporter, Said, Recalls
  <2> QED
    BY <1>3, <2>1, <2>2, <2>3, <2>4, <2>5, <2>6, InWait4
<1> QED
  BY <1>1, <1>2, <1>3

\* Nobody prints the same line twice.
LEMMA Fresh ==
  ASSUME TypeOK, Printers, Reports, NEW p \in Procs, Output(p)
  PROVE  Item(p) \notin printed
<1> SUFFICES ASSUME Item(p) \in printed PROVE FALSE
  OBVIOUS
<1> DEFINE at == procs[p].at
           n  == procs[p].pc
<1>1. Ours(p) /\ Now(p).call \in Printing
  BY OutputEffect
<1>2. /\ Now(p).text \in Texts /\ n \in Nat
      /\ \A x \in Prints[prog] : x[1] = Now(p).text => x[2] = at /\ x[3] = n
  BY <1>1, Here DEF Checked
<1>3. PICK y \in Prints[prog] : y[1] = Now(p).text /\ Behind(prog, y, at, n)
  BY <1>1, <1>2 DEF Printers, Item
<1>4. y[2] = at /\ y[3] = n
  BY <1>2, <1>3
<1>5. prog = "wait4" /\ at = "main" /\ n \in {9, 12}
  <2> HIDE DEF at, n
  <2> QED
    BY <1>2, <1>3, <1>4 DEF Behind
<1>6. n = 9 => Now(p).text = "first_child"
  BY <1>1, <1>5, InWait4
<1>7. n = 12 => Now(p).text = "second_child"
  BY <1>1, <1>5, InWait4
<1>8. Reporter(p)
  BY <1>5 DEF Reports
<1> QED
  BY <1>1, <1>5, <1>6, <1>7, <1>8 DEF Reporter, Said, Item

\* Once a child has strayed ShownOnce promises nothing any more.
LEMMA StraightStays ==
  ASSUME TypeOK, Strays, NEW p \in Procs, Step(p), Straight'
  PROVE  Straight
<1>1. prog' = prog /\ tty' = tty
  BY StepPlaces
<1>2. SUFFICES ASSUME ~tty, prog = "wait1", NEW x \in Procs \ {1}, procs[x].state # "none",
                      Strayed(x)
               PROVE  procs'[x].state # "none" /\ Strayed(x)'
  BY <1>1 DEF Straight
<1>3. CASE procs'[x] = procs[x] \/ Buries(p, x)
  BY <1>2, <1>3 DEF Buries, Goes, Strayed
<1>4. CASE x = p
  <2>1. procs'[p].state # "none" /\ Running(p)
    BY Change
  <2>2. CASE procs[p].at = "main"
    BY <1>2, <1>4, <2>1, <2>2, StaysInMain DEF Strayed
  <2>3. CASE procs[p].at = "child3" /\ procs[p].pc = 2
    <3>1. Ours(p)
      BY <2>1, <2>3 DEF Ours
    <3>2. Now(p).call = "goto"
      BY <1>2, <2>3, <3>1, InWait1
    <3>3. Goto(p)
      BY <3>1, <3>2, ByCall
    <3>4. procs'[p].at = "main"
      BY <3>2, <3>3, GotoEffect DEF Goes
    <3> QED
      BY <1>4, <2>1, <3>4 DEF Strayed
  <2> QED
    BY <1>2, <1>4, <2>2, <2>3 DEF Strayed
<1> QED
  BY <1>2, <1>3, <1>4, Change DEF Bears

\* What a longer sequence holds, and when it still holds everything once.
LEMMA HeldAppend ==
  ASSUME NEW S, NEW s \in Seq(S), NEW e \in S
  PROVE  /\ Range(Append(s, e)) = Range(s) \cup {e}
         /\ IsInjective(s) /\ e \notin Range(s) => IsInjective(Append(s, e))
<1>1. /\ DOMAIN s = 1..Len(s) /\ Len(s) \in Nat /\ DOMAIN Append(s, e) = 1..(Len(s) + 1)
      /\ \A k \in 1..Len(s) : Append(s, e)[k] = s[k]
      /\ Append(s, e)[Len(s) + 1] = e
  OBVIOUS
<1>2. \A k \in DOMAIN Append(s, e) : k \in DOMAIN s \/ k = Len(s) + 1
  BY <1>1
<1>3. DOMAIN s \subseteq DOMAIN Append(s, e) /\ Len(s) + 1 \in DOMAIN Append(s, e)
      /\ Len(s) + 1 \notin DOMAIN s
  BY <1>1
<1>4. Range(Append(s, e)) = Range(s) \cup {e}
  BY <1>1, <1>2, <1>3 DEF Range
<1>5. IsInjective(s) /\ e \notin Range(s) => IsInjective(Append(s, e))
  BY <1>1, <1>2, <1>3 DEF Range, IsInjective
<1> QED
  BY <1>4, <1>5

\* The same for two sequences in a row.
LEMMA HeldConcat ==
  ASSUME NEW S, NEW s \in Seq(S), NEW t \in Seq(S)
  PROVE  /\ Range(s \o t) = Range(s) \cup Range(t)
         /\ IsInjective(s) /\ IsInjective(t) /\ Range(s) \cap Range(t) = {} =>
              IsInjective(s \o t)
<1> DEFINE u == s \o t
<1>1. /\ DOMAIN s = 1..Len(s) /\ Len(s) \in Nat /\ DOMAIN t = 1..Len(t) /\ Len(t) \in Nat
      /\ DOMAIN u = 1..(Len(s) + Len(t))
      /\ \A k \in 1..Len(s) : u[k] = s[k]
      /\ \A k \in 1..Len(t) : u[Len(s) + k] = t[k]
  OBVIOUS
<1> HIDE DEF u
<1>2. \A k \in DOMAIN u : \/ k \in DOMAIN s /\ u[k] = s[k]
                          \/ k - Len(s) \in DOMAIN t /\ u[k] = t[k - Len(s)]
                              /\ k = Len(s) + (k - Len(s))
  <2> TAKE k \in DOMAIN u
  <2>1. CASE k <= Len(s)
    BY <1>1, <2>1
  <2>2. CASE ~(k <= Len(s))
    <3>1. k - Len(s) \in 1..Len(t) /\ Len(s) + (k - Len(s)) = k
      BY <1>1, <2>2
    <3> QED
      BY <1>1, <3>1
  <2> QED
    BY <2>1, <2>2
<1>3. \A k \in DOMAIN s : k \in DOMAIN u
  BY <1>1
<1>4. \A k \in DOMAIN t : Len(s) + k \in DOMAIN u
  BY <1>1
<1>5. Range(u) = Range(s) \cup Range(t)
  <2>1. \A e \in Range(u) : e \in Range(s) \cup Range(t)
    BY <1>2 DEF Range
  <2>2. \A e \in Range(s) : e \in Range(u)
    BY <1>1, <1>3 DEF Range
  <2>3. \A e \in Range(t) : e \in Range(u)
    BY <1>1, <1>4 DEF Range
  <2> QED
    BY <2>1, <2>2, <2>3
<1>6. ASSUME IsInjective(s), IsInjective(t), Range(s) \cap Range(t) = {} PROVE IsInjective(u)
  <2> SUFFICES ASSUME NEW k \in DOMAIN u, NEW l \in DOMAIN u, u[k] = u[l] PROVE k = l
    BY DEF IsInjective
  <2>1. \A i \in DOMAIN s : \A j \in DOMAIN t : s[i] # t[j]
    BY <1>6 DEF Range
  <2>2. CASE k \in DOMAIN s /\ u[k] = s[k] /\ l \in DOMAIN s /\ u[l] = s[l]
    BY <1>6, <2>2 DEF IsInjective
  <2>3. CASE /\ k - Len(s) \in DOMAIN t /\ u[k] = t[k - Len(s)] /\ k = Len(s) + (k - Len(s))
             /\ l - Len(s) \in DOMAIN t /\ u[l] = t[l - Len(s)] /\ l = Len(s) + (l - Len(s))
    <3>1. k - Len(s) = l - Len(s)
      BY <1>6, <2>3 DEF IsInjective
    <3> QED
      BY <2>3, <3>1
  <2> QED
    BY <1>2, <2>1, <2>2, <2>3
<1> QED
  BY <1>5, <1>6 DEF u

\* The same for the empty sequence.
LEMMA HeldEmpty == Range(<<>>) = {} /\ IsInjective(<<>>)
  BY DEF Range, IsInjective

\* A keeper behind a buffer, and a step that leaves it alone.
LEMMA HeldSame ==
  ASSUME AllHeld, prog' = prog, shown' = shown, printed' = printed,
         \A x \in Keepers : Back(x)' = Back(x)
  PROVE  AllHeld'
<1>1. Keepers' = Keepers
  BY DEF Keepers
<1> QED
  BY <1>1 DEF AllHeld

\* Where the account is kept, the buffer that is dropped or copied is empty, or no keeper's.
LEMMA ForkEmpty ==
  ASSUME Settled, Straight, NEW p \in Procs, Fork(p), prog # "wait1"
  PROVE  Back(p) = <<>>
<1>1. Ours(p) /\ Now(p).call = "fork" /\ TypeOK
  BY ForkEffect DEF Settled
<1>2. /\ Place(prog, Now(p).child, 1) /\ Now(p).child # "main"
      /\ Leads(prog, procs[p].at, procs[p].pc, Now(p).child, 1)
  BY <1>1, Here DEF Checked, Voiced
<1>3. Clear(prog, Now(p).child, 1)
  BY <1>2 DEF Clear
<1>4. CASE tty
  BY <1>4 DEF Settled, Buffers, Back
<1>5. CASE prog \notin Early
  BY <1>1, <1>2, <1>3, <1>5 DEF Leads, Settled, Buffers, Back
<1> QED
  BY <1>4, <1>5 DEF Straight

\* exec drops nothing the account needs.
LEMMA ExecEmpty ==
  ASSUME Settled, Straight, NEW p \in Procs, Exec(p)
  PROVE  Back(p) = <<>>
<1>1. Ours(p) /\ Now(p).call = "exec" /\ TypeOK
  BY ExecEffect DEF Settled
<1>2. prog = "execl1" \/ Clear(prog, procs[p].at, procs[p].pc)
  BY <1>1, Here DEF Voiced
<1>3. CASE tty
  BY <1>3 DEF Settled, Buffers, Back
<1>4. CASE prog \notin Early
  BY <1>1, <1>2, <1>4 DEF Early, Settled, Buffers, Back
<1> QED
  BY <1>3, <1>4 DEF Straight

\* A child of wait1 exits with an empty buffer, unless it has strayed.
LEMMA ExitEmpty ==
  ASSUME Settled, Straight, NEW p \in Procs, Exit(p), p \notin Keepers
  PROVE  Back(p) = <<>>
<1>1. Ours(p) /\ Now(p).call = "exit" /\ TypeOK /\ prog = "wait1" /\ p # 1
  BY ExitEffect DEF Settled, Keepers
<1>2. procs[p].at = "main" \/ Clear(prog, procs[p].at, procs[p].pc)
  BY <1>1, Here DEF Voiced
<1>3. CASE tty
  BY <1>3 DEF Settled, Buffers, Back
<1>4. CASE ~tty
  <2>1. procs[p].at # "main" /\ prog \notin Early
    BY <1>1, <1>4 DEF Straight, Strayed, Ours, Running
  <2> QED
    BY <1>1, <1>2, <2>1 DEF Settled, Buffers, Back
<1> QED
  BY <1>3, <1>4

\* Only children of wait1 fault.
LEMMA FaultSpares ==
  ASSUME Settled, NEW p \in Procs, Fault(p)
  PROVE  p \notin Keepers
<1>1. Ours(p) /\ Now(p).call \in {"abort", "divide"} /\ TypeOK
  BY FaultEffect DEF Settled
<1>2. prog = "wait1" /\ procs[p].at # "main"
  BY <1>1, Here DEF Voiced
<1>3. p # 1
  BY <1>1, <1>2 DEF Settled, Strays, Ours
<1> QED
  BY <1>2, <1>3 DEF Keepers

\* Other than p, a step changes no keeper's buffer.
LEMMA OthersHold ==
  ASSUME Settled, Straight, NEW p \in Procs, Step(p), NEW x \in Keepers, x # p
  PROVE  Back(x)' = Back(x)
<1>1. TypeOK /\ x \in Procs
  BY MaxProcsAssumption DEF Settled, Keepers, Procs
<1>2. CASE procs'[x] = procs[x]
  BY <1>2 DEF Back
<1>3. CASE Buries(p, x)
  BY <1>3 DEF Buries, Hoards, Back
<1>4. CASE Bears(p, x)
  <2>1. x # 1 /\ Fork(p) /\ procs'[x].buffer = procs[p].buffer /\ ~Ours(x)
    BY <1>4 DEF Bears, Settled, Born, Ours, Running
  <2>2. prog # "wait1"
    BY <2>1 DEF Keepers
  <2>3. procs[p].buffer = <<>>
    BY <2>1, <2>2, ForkEmpty DEF Back
  <2>4. procs[x].buffer = <<>>
    BY <1>1, <2>1 DEF Settled, Buffers
  <2> QED
    BY <2>1, <2>3, <2>4 DEF Back
<1> QED
  BY <1>1, <1>2, <1>3, <1>4, Change

\* A line that is printed comes out or gets into one buffer.
LEMMA OutputHeld ==
  ASSUME Settled, Straight, AllHeld, NEW p \in Procs, Output(p), prog' = prog,
         \A x \in Keepers : x # p => Back(x)' = Back(x)
  PROVE  AllHeld'
<1>0. TypeOK /\ Keepers' = Keepers /\ Keepers \subseteq Procs
  BY MaxProcsAssumption DEF Settled, Keepers, Procs
<1>1. Ours(p) /\ Now(p).call \in Printing /\ printed' = printed \cup {Item(p)}
  BY <1>0, OutputEffect
<1>2. procs[p].out = "stdout" /\ (prog = "wait1" => procs[p].at = "main")
  BY <1>0, <1>1, Here DEF Voiced, Settled, Open
<1>3. Item(p) \notin printed /\ Item(p) \in Procs \X Texts
  BY <1>0, <1>1, Fresh, Here DEF Settled, Item
<1>4. shown \in Seq(Procs \X Texts) /\ procs[p].buffer \in Seq(Procs \X Texts)
  BY <1>0 DEF TypeOK, Lines, Process
<1>5. CASE Direct(p)
  <2>1. shown' = Append(shown, Item(p)) /\ Back(p)' = Back(p)
    BY <1>0, <1>2, <1>5, OutputEffect DEF Back
  <2>2. \A x \in Keepers : Back(x)' = Back(x)
    BY <2>1
  <2>3. Range(shown') = Range(shown) \cup {Item(p)} /\ IsInjective(shown')
    BY <1>3, <1>4, <2>1, HeldAppend DEF AllHeld
  <2> QED
    BY <1>0, <1>1, <1>3, <2>2, <2>3 DEF AllHeld
<1>6. CASE ~Direct(p)
  <2>1. shown' = shown /\ Back(p)' = Append(Back(p), Item(p)) /\ ~tty
    BY <1>0, <1>6, OutputEffect DEF Back, Direct
  <2>2. p \in Keepers
    BY <1>1, <1>2, <2>1 DEF Keepers, Straight, Strayed, Ours, Running
  <2>3. Range(Back(p)') = Range(Back(p)) \cup {Item(p)} /\ IsInjective(Back(p)')
    BY <1>3, <1>4, <2>1, <2>2, HeldAppend DEF AllHeld, Back
  <2>4. Item(p) \notin Range(shown) /\ \A x \in Keepers : Item(p) \notin Range(Back(x))
    BY <1>3 DEF AllHeld
  <2>5. \A x \in Keepers : Range(Back(x)') =
          (IF x = p THEN Range(Back(p)) \cup {Item(p)} ELSE Range(Back(x)))
    BY <2>3
  <2>6. \A line \in printed' : line \in Range(shown') \/
          \E x \in Keepers : line \in Range(Back(x)')
    <3>1. \A line \in printed : line \in Range(shown) \/
          \E x \in Keepers : line \in Range(Back(x)')
      BY <2>5 DEF AllHeld
    <3>2. Item(p) \in Range(Back(p)')
      BY <2>3
    <3> QED
      BY <1>1, <2>1, <2>2, <3>1, <3>2
  <2>7. Range(shown') \subseteq printed' /\ IsInjective(shown')
    BY <1>1, <2>1 DEF AllHeld
  <2>8. \A x \in Keepers : /\ Range(Back(x)') \subseteq printed' /\ IsInjective(Back(x)')
                          /\ Range(Back(x)') \cap Range(shown') = {}
    <3> TAKE x \in Keepers
    <3>1. CASE x = p
      <4>1. Range(Back(p)) \subseteq printed /\ Range(Back(p)) \cap Range(shown) = {}
        BY <2>2 DEF AllHeld
      <4>2. Range(Back(p)') \cap Range(shown') = {}
        BY <2>1, <2>3, <2>4, <4>1
      <4>3. Range(Back(p)') \subseteq printed'
        BY <1>1, <2>3, <4>1
      <4> QED
        BY <2>3, <3>1, <4>2, <4>3
    <3>2. CASE x # p
      BY <1>1, <2>1, <3>2 DEF AllHeld
    <3> QED
      BY <3>1, <3>2
  <2>9. \A x, y \in Keepers : x # y => Range(Back(x)') \cap Range(Back(y)') = {}
    BY <2>4, <2>5 DEF AllHeld
  <2> QED
    BY <1>0, <2>6, <2>7, <2>8, <2>9 DEF AllHeld
<1> QED
  BY <1>5, <1>6

\* The buffer of a process that exits comes out, and is empty then.
LEMMA ExitHeld ==
  ASSUME Settled, Straight, AllHeld, NEW p \in Procs, Exit(p), prog' = prog, p \in Keepers,
         \A x \in Keepers : x # p => Back(x)' = Back(x)
  PROVE  AllHeld'
<1>0. TypeOK /\ Keepers' = Keepers /\ Keepers \subseteq Procs
  BY MaxProcsAssumption DEF Settled, Keepers, Procs
<1>1. /\ Ours(p) /\ printed' = printed /\ Back(p)' = <<>>
      /\ shown' = IF procs[p].out = "stdout" THEN shown \o Back(p) ELSE shown
  BY <1>0, ExitEffect DEF Finishes, Back
<1>2. shown \in Seq(Procs \X Texts) /\ Back(p) \in Seq(Procs \X Texts)
  BY <1>0 DEF TypeOK, Lines, Process, Back
<1>3. shown' = shown \o Back(p)
  <2>1. CASE tty
    <3>1. Back(p) = <<>>
      BY <2>1 DEF Settled, Buffers, Back
    <3> QED
      BY <1>1, <1>2, <3>1
  <2>2. CASE ~tty
    <3>1. prog \notin {"daemon", "syslog"}
      BY <2>2 DEF Straight, Early
    <3>2. procs[p].out = "stdout"
      BY <1>1, <3>1 DEF Settled, Open, Outward
    <3> QED
      BY <1>1, <3>2
  <2> QED
    BY <2>1, <2>2
<1>4. Range(shown') = Range(shown) \cup Range(Back(p)) /\ IsInjective(shown')
  BY <1>2, <1>3, HeldConcat DEF AllHeld
<1>5. Range(Back(p)') = {} /\ IsInjective(Back(p)')
  BY <1>1, HeldEmpty
<1> QED
  BY <1>0, <1>1, <1>4, <1>5 DEF AllHeld

\* Every step keeps the account.
LEMMA StepAccounted ==
  ASSUME Settled, Accounted, NEW p \in Procs, Step(p)
  PROVE  Accounted'
<1> SUFFICES ASSUME Straight' PROVE AllHeld'
  BY DEF Accounted
<1>0. TypeOK /\ prog' = prog
  BY StepPlaces DEF Settled
<1>1. Straight /\ AllHeld
  BY <1>0, StraightStays DEF Accounted, Settled
<1>2. \A x \in Keepers : x # p => Back(x)' = Back(x)
  BY <1>1, OthersHold
<1>3. CASE Output(p)
  BY <1>0, <1>1, <1>2, <1>3, OutputHeld
<1>4. CASE Exit(p) /\ p \in Keepers
  BY <1>0, <1>1, <1>2, <1>4, ExitHeld
<1>5. ASSUME shown' = shown, printed' = printed,
             p \in Keepers => Back(p)' = Back(p)
      PROVE  AllHeld'
  BY <1>0, <1>1, <1>2, <1>5, HeldSame
<1>6. CASE Exit(p) /\ p \notin Keepers
  <2>1. Back(p) = <<>> /\ printed' = printed
    BY <1>0, <1>1, <1>6, ExitEmpty, ExitEffect
  <2>2. shown' = shown
    <3>1. shown \in Seq(Procs \X Texts)
      BY <1>0 DEF TypeOK, Lines
    <3>2. shown \o <<>> = shown
      BY <3>1
    <3> QED
      BY <1>0, <1>6, <2>1, <3>2, ExitEffect DEF Back
  <2> QED
    BY <1>5, <1>6, <2>1, <2>2
<1>7. CASE Goto(p) \/ Redirect(p)
  BY <1>0, <1>5, <1>7, GotoEffect, RedirectEffect DEF Hoards, Back
<1>8. CASE Fork(p) \/ Wait(p)
  <2>1. shown' = shown /\ printed' = printed /\ Hoards(p)
    BY <1>0, <1>8, ForkEffect, WaitEffect
  <2> QED
    BY <1>5, <2>1 DEF Hoards, Back
<1>9. CASE Exec(p)
  <2>1. Back(p) = <<>>
    BY <1>1, <1>9, ExecEmpty
  <2> QED
    BY <1>0, <1>5, <1>9, <2>1, ExecEffect DEF Hoards, Back
<1>10. CASE OtherEnds(p)
  <2>1. ~Ours(p)
    BY <1>0, <1>10, OtherEndsEffect DEF Ours
  <2>2. Back(p) = <<>>
    BY <2>1 DEF Settled, Buffers, Back
  <2> QED
    BY <1>0, <1>5, <1>10, <2>2, OtherEndsEffect DEF Finishes, Back
<1>11. CASE Fault(p)
  BY <1>0, <1>5, <1>11, FaultEffect, FaultSpares
<1> QED
  BY <1>3, <1>4, <1>6, <1>7, <1>8, <1>9, <1>10, <1>11 DEF Step

\* The invariant holds at the start, in every step, and it implies ShownOnce.
LEMMA InitVoice == Init => VoiceInv
<1> SUFFICES ASSUME Init PROVE VoiceInv
  OBVIOUS
<1>1. TypeOK /\ Born /\ ErrorStays
  BY InitFamily DEF FamilyInv
<1>2. /\ printed = {} /\ shown = <<>>
      /\ \A p \in Procs : /\ procs[p].buffer = <<>> /\ procs[p].out = "stdout"
                          /\ procs[p].at = "main" /\ procs[p].pc = 1
                          /\ p # 1 => procs[p].state = "none"
  <2>1. \A state : /\ NoProcess(state).buffer = <<>> /\ NoProcess(state).out = "stdout"
                   /\ NoProcess(state).at = "main" /\ NoProcess(state).pc = 1
                   /\ NoProcess(state).state = state
    BY DEF NoProcess
  <2> QED
    BY <2>1 DEF Init
<1>3. Printers /\ Buffers /\ Open
  BY <1>2 DEF Printers, Buffers, Open
<1>4. Reports
  BY <1>2 DEF Reports, Reporter, Said
<1>5. Strays
  BY <1>2, MaxProcsAssumption DEF Strays, Child, Running, Procs
<1>6. Accounted
  <2>1. \A p \in Keepers : Back(p) = <<>>
    BY <1>2, MaxProcsAssumption DEF Back, Keepers, Procs
  <2> QED
    BY <1>2, <2>1, HeldEmpty DEF Accounted, AllHeld
<1> QED
  BY <1>1, <1>3, <1>4, <1>5, <1>6 DEF VoiceInv, Settled

LEMMA NextVoice == VoiceInv /\ [Next]_vars => VoiceInv'
<1> SUFFICES ASSUME VoiceInv, [Next]_vars PROVE VoiceInv'
  OBVIOUS
<1>1. CASE UNCHANGED vars
  <2>1. TypeOK'
    BY NextTypes DEF VoiceInv, Settled
  <2>2. prog' = prog /\ tty' = tty /\ procs' = procs /\ shown' = shown /\ printed' = printed
    BY <1>1 DEF vars
  <2>3. Born' /\ ErrorStays' /\ Printers' /\ Buffers' /\ Open'
    BY <2>2 DEF VoiceInv, Settled, Born, ErrorStays, Printers, Buffers, Open, Ours, Running
  <2>4. Reports'
    BY <2>2 DEF VoiceInv, Settled, Reports, Reporter, Said, Gone, Ours, Running
  <2>5. Strays'
    BY <2>2 DEF VoiceInv, Settled, Strays, Child, Strayed, Running
  <2>6. Accounted'
    BY <2>2 DEF VoiceInv, Accounted, Straight, Strayed, AllHeld, Keepers, Back
  <2> QED
    BY <2>1, <2>3, <2>4, <2>5, <2>6 DEF VoiceInv, Settled
<1>2. ASSUME NEW p \in Procs, Step(p) PROVE VoiceInv'
  <2>1. TypeOK'
    BY NextTypes DEF VoiceInv, Settled
  <2>2. Born' /\ ErrorStays'
    BY <1>2, StepBorn DEF VoiceInv, Settled
  <2>3. Printers' /\ Buffers' /\ Open'
    BY <1>2, StepPrinters, StepBuffers, StepOpen DEF VoiceInv, Settled
  <2>4. Reports' /\ Strays'
    BY <1>2, StepReports, StepStrays DEF VoiceInv, Settled
  <2>5. Accounted'
    BY <1>2, StepAccounted DEF VoiceInv
  <2> QED
    BY <2>1, <2>2, <2>3, <2>4, <2>5 DEF VoiceInv, Settled
<1> QED
  BY <1>1, <1>2 DEF Next, Rest

LEMMA VoiceShows == VoiceInv => ShownOnce
<1> SUFFICES ASSUME VoiceInv, Over, tty \/ prog \notin {"fork1", "execl1", "daemon", "syslog"},
                    tty \/ ~Divided, NEW line \in printed
             PROVE  \E k \in DOMAIN shown : \A l \in DOMAIN shown : shown[l] = line <=> l = k
  BY DEF ShownOnce
<1>0. TypeOK
  BY DEF VoiceInv, Settled
<1>1. ~tty => \A p \in Procs : ~Running(p)
  <2> SUFFICES ASSUME ~tty, NEW p \in Procs, Running(p) PROVE FALSE
    OBVIOUS
  <2>1. Ours(p) /\ Now(p).call = "loop"
    BY DEF Over, At
  <2> QED
    BY <1>0, <2>1, Here DEF Voiced
<1>2. Straight
  <2>1. CASE ~tty /\ prog = "wait1"
    <3>1. ASSUME NEW p \in Procs \ {1}, procs[p].state # "none", Strayed(p) PROVE FALSE
      <4>1. procs[p].state \in {"zombie", "gone"}
        BY <1>0, <1>1, <2>1, <3>1 DEF TypeOK, Process, Running
      <4>2. procs[p].status = 1
        BY <2>1, <3>1, <4>1 DEF VoiceInv, Settled, Strays, Child
      <4> QED
        BY <2>1, <3>1, <4>2 DEF Divided
    <3> QED
      BY <2>1, <3>1 DEF Straight, Early
  <2>2. CASE tty \/ prog # "wait1"
    BY <2>2 DEF Straight, Early
  <2> QED
    BY <2>1, <2>2
<1>3. \A p \in Procs : Back(p) = <<>>
  BY <1>1 DEF VoiceInv, Settled, Buffers, Back, Ours
<1>4. AllHeld
  BY <1>2 DEF VoiceInv, Accounted
<1>5. line \in Range(shown)
  <2>1. \A p \in Keepers : Range(Back(p)) = {}
    BY <1>3, HeldEmpty, MaxProcsAssumption DEF Keepers, Procs
  <2> QED
    BY <1>4, <2>1 DEF AllHeld
<1>6. PICK k \in DOMAIN shown : shown[k] = line
  BY <1>5 DEF Range
<1> QED
  BY <1>4, <1>6 DEF AllHeld, IsInjective

\* At the end every printed line has come out once, for any number of processes and any
\* order of their steps: on a terminal always, in a file for the programs with nothing in
\* the buffer at a fork that leads to an exit or at an exec, unless a child of wait1 has
\* gone on behind its division.
THEOREM LinesShownOnce == Spec => []ShownOnce
  BY InitVoice, NextVoice, VoiceShows, PTL DEF Spec
=============================================================================
