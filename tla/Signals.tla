-------------------------------- MODULE Signals --------------------------------
(***************************************************************************)
(* The signal exercises b13 and b14: programs that catch, block and await  *)
(* signals, and jump out of their handlers.                                *)
(*                                                                         *)
(* A program is a record of routines and a routine a sequence of calls, in *)
(* the order of the code; calls that change nothing here (most printfs)    *)
(* are left out, and calls whose failure ends the program do not fail.     *)
(* The kernel and the C library are external: each call is an action, and  *)
(* a signal that is not blocked is delivered in front of the next call.    *)
(*                                                                         *)
(* stack holds main and, above it, the handlers that interrupt it.  A      *)
(* frame keeps the mask its routine runs with; a handler that returns      *)
(* gives the frame below its mask back.  The mask at the start is empty,   *)
(* and a shell leaves every signal to its default action, which is to end  *)
(* the program.                                                            *)
(***************************************************************************)
EXTENDS Naturals, SequencesExt

CONSTANTS
  Program,  \* the programs: a routine for each name, among them main
  Sent,     \* the signals that others send
  MaxSent   \* how many of them

Signals == {"INT", "QUIT", "USR1", "ALRM"}

ASSUME SignalsAssumption ==
  /\ Sent \subseteq Signals \ {"ALRM"}
  /\ MaxSent \in Nat

-----------------------------------------------------------------------------
(***************************************************************************)
(* The calls.  n is the place in the routine where it goes on.             *)
(***************************************************************************)
Call(name)             == [call |-> name]
Handle(s, to, M, F)    == [call |-> "sigaction", sig |-> s, to |-> to, masks |-> M, flags |-> F]
signal(s, to)          == Handle(s, to, {{}}, {{}})
sigaction(s, to, mask) == Handle(s, to, {mask}, {{}})
Mask(on, off)          == [call |-> "sigprocmask", on |-> on, off |-> off]
Block(S)               == Mask(S, {})
Unblock(S)             == Mask({}, S)
SetMask(S)             == Mask(S, Signals)
sigsuspend(S)          == [call |-> "sigsuspend", set |-> S]
kill(s)                == [call |-> "kill", sig |-> s]
show(text)             == [call |-> "show", text |-> text]
setjmp(b, saves, n)    == [call |-> "setjmp", buf |-> b, saves |-> saves, n |-> n]
longjmp(b)             == [call |-> "longjmp", buf |-> b]
unless(what, n)        == [call |-> "unless", what |-> what, n |-> n]
can_jump(v)            == [call |-> "can_jump", value |-> v]
goto(n)                == [call |-> "goto", n |-> n]

pause == Call("pause")  restore == Call("restore")  suspend_old == Call("suspend_old")
sleep == Call("sleep")  alarm   == Call("alarm")    wait_over   == Call("wait_over")
exit  == Call("exit")   return  == Call("return")   abort       == Call("abort")
spin  == Call("spin")   getchar == Call("getchar")

\* What sigaction reads where the program never wrote.
AnyFlags == SUBSET {"nodefer", "resethand"}
AnyMask  == SUBSET Sent

-----------------------------------------------------------------------------
(***************************************************************************)
(* The programs.                                                           *)
(***************************************************************************)
sigaction1 ==
  [main |-> <<sigaction("USR1", "ssu_signal_handler", {}), kill("USR1"), SetMask({"USR1"}),
              kill("USR1"), exit>>,
   ssu_signal_handler |-> <<return>>]

sigaction2 ==
  [main |-> <<sigaction("USR1", "ssu_signal_handler", {}), SetMask({"USR1"}), kill("USR1"),
              show("after_kill"), SetMask({}), show("no_longer_blocked"), exit>>,
   ssu_signal_handler |-> <<return>>]

\* The mask of SIGQUIT's handler left empty.
sigaction3_Open ==
  [main |-> <<Handle("INT", "ssu_signal_handler1", {{"QUIT"}}, AnyFlags),
              sigaction("QUIT", "ssu_signal_handler2", {}), pause, exit>>,
   ssu_signal_handler1 |-> <<sleep, return>>,
   ssu_signal_handler2 |-> <<sleep, return>>]

\* act_int.sa_flags is set behind the call that reads it.
sigaction3 ==
  [main |-> <<Handle("INT", "ssu_signal_handler1", {{"QUIT"}}, AnyFlags),
              sigaction("QUIT", "ssu_signal_handler2", {"INT"}), pause, exit>>,
   ssu_signal_handler1 |-> <<sleep, return>>,
   ssu_signal_handler2 |-> <<sleep, return>>]

sigpending ==
  [main |-> <<SetMask(Signals), sleep, unless("pending", 2), exit>>]

sigprocmask ==
  [main |-> <<Block({"INT"}), sleep, sleep, sleep, Unblock({"INT"}), spin>>]

\* longjmp comes back into the loop, with the mask of the handler.
sigsetjmp1 ==
  [main |-> <<signal("INT", "ssu_signal_handler"), setjmp("jump_buffer", FALSE, 2), pause, goto(2)>>,
   ssu_signal_handler |-> <<signal("INT", "ignore"), getchar, unless("yes", 5), exit,
                            signal("INT", "ssu_signal_handler"), longjmp("jump_buffer")>>]

\* A jump whatever can_jump says.
sigsetjmp2_Jumps ==
  [main |-> <<signal("USR1", "ssu_func"), signal("ALRM", "ssu_alarm"), show("starting_main"),
              setjmp("jump_buf", TRUE, 8), can_jump(TRUE), pause, goto(6),
              show("ending_main"), exit>>,
   ssu_func |-> <<show("starting_ssu_func"), alarm, wait_over,
                  show("ending_ssu_func"), can_jump(FALSE), longjmp("jump_buf")>>,
   ssu_alarm |-> <<show("in_ssu_alarm"), return>>]

\* A buffer without the mask.
sigsetjmp2_NoMask ==
  [main |-> <<signal("USR1", "ssu_func"), signal("ALRM", "ssu_alarm"), show("starting_main"),
              setjmp("jump_buf", FALSE, 8), can_jump(TRUE), pause, goto(6),
              show("ending_main"), exit>>,
   ssu_func |-> <<unless("can_jump", 8), show("starting_ssu_func"), alarm, wait_over,
                  show("ending_ssu_func"), can_jump(FALSE), longjmp("jump_buf"), return>>,
   ssu_alarm |-> <<show("in_ssu_alarm"), return>>]

sigsetjmp2 ==
  [main |-> <<signal("USR1", "ssu_func"), signal("ALRM", "ssu_alarm"), show("starting_main"),
              setjmp("jump_buf", TRUE, 8), can_jump(TRUE), pause, goto(6),
              show("ending_main"), exit>>,
   ssu_func |-> <<unless("can_jump", 8), show("starting_ssu_func"), alarm, wait_over,
                  show("ending_ssu_func"), can_jump(FALSE), longjmp("jump_buf"), return>>,
   ssu_alarm |-> <<show("in_ssu_alarm"), return>>]

\* Neither sa_mask nor sa_flags is ever set.  Of the 20 turns two are kept.
sigsetjmp3 ==
  [main |-> <<setjmp("jmp_buf1", TRUE, 3), Handle("INT", "ssu_signal_handler1", AnyMask, AnyFlags),
              setjmp("jmp_buf2", TRUE, 4), Handle("USR1", "ssu_signal_handler2", AnyMask, AnyFlags),
              sleep, sleep, exit>>,
   ssu_signal_handler1 |-> <<longjmp("jmp_buf1")>>,
   ssu_signal_handler2 |-> <<longjmp("jmp_buf2")>>]

sigsuspend1 ==
  [main |-> <<Block({"INT"}), suspend_old, exit>>]

\* The region left by a pause.
sigsuspend2_Pause ==
  [main |-> <<signal("INT", "ssu_func"), Block({"INT"}), show("in_critical_region"), restore, pause,
              Block({"INT"}), show("after_return_from_sigsuspend"), restore, show("program_exit"), exit>>,
   ssu_func |-> <<show("in_ssu_func"), return>>]

sigsuspend2 ==
  [main |-> <<signal("INT", "ssu_func"), Block({"INT"}), show("in_critical_region"),
              sigsuspend({"USR1"}), show("after_return_from_sigsuspend"), restore,
              show("program_exit"), exit>>,
   ssu_func |-> <<show("in_ssu_func"), return>>]

sigsuspend3 ==
  [main |-> <<sigaction("ALRM", "ssu_signal_handler", {}), alarm,
              sigsuspend(Signals \ {"ALRM"}), exit>>,
   ssu_signal_handler |-> <<return>>]

sleep_c == [main |-> <<sleep, exit>>]
abort_c == [main |-> <<abort, exit>>]

Exercises ==
  [sigaction1  |-> sigaction1,  sigaction2  |-> sigaction2,  sigaction3  |-> sigaction3,
   sigpending  |-> sigpending,  sigprocmask |-> sigprocmask, sigsetjmp1  |-> sigsetjmp1,
   sigsetjmp2  |-> sigsetjmp2,  sigsetjmp3  |-> sigsetjmp3,  sigsuspend1 |-> sigsuspend1,
   sigsuspend2 |-> sigsuspend2, sigsuspend3 |-> sigsuspend3, sleep |-> sleep_c, abort |-> abort_c]

Buffers  == {"jump_buffer", "jump_buf", "jmp_buf1", "jmp_buf2"}
Handlers(P) == DOMAIN P \ {"main"}

\* The calls that wait for a signal.
Waiting == {"pause", "sleep", "sigsuspend", "suspend_old"}

\* The calls the routine does not go on behind.
Final == {"goto", "longjmp", "return", "exit", "abort", "spin"}

\* c may be the n-th of len calls of the routine at of P.  A routine does not run
\* past its last call, jumps within itself and back to main, and only a handler returns.
CallOK(P, at, n, len, c) ==
  /\ n = len => c.call \in Final
  /\ c.call \in {"goto", "unless"} => c.n \in 1..len
  /\ c.call = "sigaction" => /\ c.sig \in Signals
                             /\ c.to \in {"default", "ignore"} \cup Handlers(P)
                             /\ c.masks \subseteq SUBSET Signals /\ c.flags \subseteq AnyFlags
  /\ c.call = "sigprocmask" => c.on \subseteq Signals
  /\ c.call = "sigsuspend" => c.set \subseteq Signals
  /\ c.call = "kill" => c.sig \in Signals
  /\ c.call = "can_jump" => c.value \in BOOLEAN
  /\ c.call = "setjmp" => at = "main" /\ c.buf \in Buffers /\ c.saves \in BOOLEAN /\ c.n \in 1..len
  /\ c.call = "longjmp" => at # "main" /\ c.buf \in Buffers
  /\ c.call = "return" => at # "main"

ASSUME ProgramAssumption ==
  \A p \in DOMAIN Program :
    /\ "main" \in DOMAIN Program[p]
    /\ \A at \in DOMAIN Program[p] :
         LET routine == Program[p][at]
         IN  /\ Len(routine) \in Nat \ {0} /\ DOMAIN routine = 1..Len(routine)
             /\ \A n \in DOMAIN routine : CallOK(Program[p], at, n, Len(routine), routine[n])
-----------------------------------------------------------------------------
VARIABLES
  prog,     \* the program that runs
  state,    \* "running", "exited", "killed", or "undefined"
  stack,    \* the routines at work
  pending,  \* the signals that wait for delivery
  action,   \* what is set up for each signal
  old_mask, \* what the last sigprocmask gave back
  buffers,  \* the jump buffers that are set
  ready,    \* can_jump of sigsetjmp2
  armed,    \* the alarm clock runs
  typed,    \* what getchar read last
  sent      \* how many signals others have sent

vars == <<prog, state, stack, pending, action, old_mask, buffers, ready, armed, typed, sent>>

Top  == Last(stack)
Now  == Program[prog][Top.at][Top.pc]

\* sigsuspend has a mask of its own as long as it waits.
mask ==
  IF ~Top.waits THEN Top.mask
  ELSE CASE Now.call = "sigsuspend"  -> Now.set
         [] Now.call = "suspend_old" -> old_mask
         [] OTHER -> Top.mask

Frame(at, m)  == [at |-> at, pc |-> 1, mask |-> m, waits |-> FALSE]
default       == [to |-> "default", mask |-> {}, flags |-> {}]
unset         == [set |-> FALSE, pc |-> 0, mask |-> {}, saves |-> FALSE]

Frames ==
  [at : UNION {DOMAIN Program[p] : p \in DOMAIN Program}, pc : Nat, mask : SUBSET Signals, waits : BOOLEAN]

TypeOK ==
  /\ prog \in DOMAIN Program
  /\ state \in {"running", "exited", "killed", "undefined"}
  /\ stack \in Seq(Frames) /\ stack # <<>>
  /\ \A k \in DOMAIN stack :
       /\ stack[k].at \in DOMAIN Program[prog]
       /\ stack[k].pc \in DOMAIN Program[prog][stack[k].at]
       /\ k = 1 <=> stack[k].at = "main"
  /\ pending \subseteq Signals
  /\ action \in [Signals -> [to : {"default", "ignore"} \cup Handlers(Program[prog]),
                            mask : SUBSET Signals, flags : AnyFlags]]
  /\ old_mask \subseteq Signals
  /\ buffers \in [Buffers -> [set : BOOLEAN, pc : Nat, mask : SUBSET Signals, saves : BOOLEAN]]
  /\ {ready, armed, typed} \subseteq BOOLEAN
  /\ sent \in 0..MaxSent

Init ==
  /\ prog \in DOMAIN Program
  /\ state = "running"
  /\ stack = <<Frame("main", {})>>
  /\ pending = {}
  /\ action = [s \in Signals |-> default]
  /\ old_mask = {}
  /\ buffers = [b \in Buffers |-> unset]
  /\ ready = FALSE /\ armed = FALSE /\ typed = FALSE
  /\ sent = 0
-----------------------------------------------------------------------------
(***************************************************************************)
(* The kernel and the library.                                             *)
(***************************************************************************)

\* The routine on top comes to this call, with no signal to take first.
At(calls) ==
  /\ state = "running"
  /\ pending \subseteq mask
  /\ ~Top.waits
  /\ Now.call \in calls

GoTo(n) == stack' = Append(Front(stack), [Top EXCEPT !.pc = n, !.waits = FALSE])
Advance == GoTo(Top.pc + 1)

Install ==
  /\ At({"sigaction"})
  /\ \E m \in Now.masks, f \in Now.flags :
       action' = [action EXCEPT ![Now.sig] = [to |-> Now.to, mask |-> m, flags |-> f]]
  /\ pending' = IF Now.to = "ignore" THEN pending \ {Now.sig} ELSE pending
  /\ Advance
  /\ UNCHANGED <<prog, state, old_mask, buffers, ready, armed, typed, sent>>

ChangeMask ==
  /\ At({"sigprocmask", "restore"})
  /\ LET new == IF Now.call = "restore" THEN old_mask ELSE (Top.mask \ Now.off) \cup Now.on
     IN  stack' = Append(Front(stack), [Top EXCEPT !.pc = @ + 1, !.mask = new])
  /\ old_mask' = IF Now.call = "restore" THEN old_mask ELSE Top.mask
  /\ UNCHANGED <<prog, state, pending, action, buffers, ready, armed, typed, sent>>

SendSelf ==
  /\ At({"kill"})
  /\ pending' = pending \cup {Now.sig}
  /\ Advance
  /\ UNCHANGED <<prog, state, action, old_mask, buffers, ready, armed, typed, sent>>

Wait ==
  /\ At({"pause", "sleep", "sigsuspend", "suspend_old"})
  /\ stack' = Append(Front(stack), [Top EXCEPT !.waits = TRUE])
  /\ UNCHANGED <<prog, state, pending, action, old_mask, buffers, ready, armed, typed, sent>>

SleepOver ==
  /\ state = "running"
  /\ pending \subseteq mask
  /\ Top.waits /\ Now.call = "sleep"
  /\ Advance
  /\ UNCHANGED <<prog, state, pending, action, old_mask, buffers, ready, armed, typed, sent>>

\* Calls that only go on; five seconds are over behind an alarm after three.
Go ==
  /\ At({"show", "goto", "unless", "wait_over"})
  /\ CASE Now.call = "goto"   -> GoTo(Now.n)
       [] Now.call = "unless" ->
            IF CASE Now.what = "pending"  -> "INT" \in pending
                 [] Now.what = "can_jump" -> ready
                 [] Now.what = "yes"      -> typed
            THEN Advance ELSE GoTo(Now.n)
       [] Now.call = "wait_over" -> ~armed /\ Advance
       [] OTHER -> Advance
  /\ UNCHANGED <<prog, state, pending, action, old_mask, buffers, ready, armed, typed, sent>>

Assign ==
  /\ At({"can_jump", "alarm"})
  /\ ready' = IF Now.call = "can_jump" THEN Now.value ELSE ready
  /\ armed' = (Now.call = "alarm" \/ armed)
  /\ Advance
  /\ UNCHANGED <<prog, state, pending, action, old_mask, buffers, typed, sent>>

SetJump ==
  /\ At({"setjmp"})
  /\ buffers' = [buffers EXCEPT ![Now.buf] =
                   [set |-> TRUE, pc |-> Now.n, mask |-> Top.mask, saves |-> Now.saves]]
  /\ Advance
  /\ UNCHANGED <<prog, state, pending, action, old_mask, ready, armed, typed, sent>>

\* All buffers are set in main: the handlers above it are gone.
LongJump ==
  /\ At({"longjmp"})
  /\ LET b == buffers[Now.buf]
     IN  IF b.set
         THEN /\ stack' = <<[stack[1] EXCEPT !.pc = b.pc, !.waits = FALSE,
                                             !.mask = IF b.saves THEN b.mask ELSE Top.mask]>>
              /\ UNCHANGED state
         ELSE state' = "undefined" /\ UNCHANGED stack
  /\ UNCHANGED <<prog, pending, action, old_mask, buffers, ready, armed, typed, sent>>

\* Every call is over when the handler returns.
Return_Skips ==
  /\ At({"return"})
  /\ LET below == stack[Len(stack) - 1]
     IN  stack' = Append(Front(Front(stack)), [below EXCEPT !.pc = @ + 1, !.waits = FALSE])
  /\ UNCHANGED <<prog, state, pending, action, old_mask, buffers, ready, armed, typed, sent>>

\* What the handler interrupted goes on; a call that waited is over.
Return ==
  /\ At({"return"})
  /\ LET below == stack[Len(stack) - 1]
     IN  stack' = Append(Front(Front(stack)),
                         IF below.waits THEN [below EXCEPT !.pc = @ + 1, !.waits = FALSE] ELSE below)
  /\ UNCHANGED <<prog, state, pending, action, old_mask, buffers, ready, armed, typed, sent>>

End ==
  /\ At({"exit", "abort"})
  /\ state' = IF Now.call = "exit" THEN "exited" ELSE "killed"
  /\ UNCHANGED <<prog, stack, pending, action, old_mask, buffers, ready, armed, typed, sent>>

\* A signal that waits is blocked with its handler's mask and, unless the flags
\* say otherwise, itself.
Deliver(s) ==
  /\ state = "running"
  /\ s \in pending \ mask
  /\ pending' = pending \ {s}
  /\ CASE action[s].to = "default" -> state' = "killed" /\ UNCHANGED <<stack, action>>
       [] action[s].to = "ignore"  -> UNCHANGED <<state, stack, action>>
       [] OTHER ->
            /\ LET itself == IF "nodefer" \in action[s].flags THEN {} ELSE {s}
               IN  stack' = Append(stack, Frame(action[s].to, mask \cup action[s].mask \cup itself))
            /\ action' = IF "resethand" \in action[s].flags
                         THEN [action EXCEPT ![s] = default] ELSE action
            /\ UNCHANGED state
  /\ UNCHANGED <<prog, old_mask, buffers, ready, armed, typed, sent>>

Ring ==
  /\ state = "running"
  /\ armed
  /\ armed' = FALSE
  /\ pending' = pending \cup {"ALRM"}
  /\ UNCHANGED <<prog, state, stack, action, old_mask, buffers, ready, typed, sent>>

Type ==
  /\ At({"getchar"})
  /\ typed' \in BOOLEAN
  /\ Advance
  /\ UNCHANGED <<prog, state, pending, action, old_mask, buffers, ready, armed, sent>>

Send ==
  /\ state = "running"
  /\ sent < MaxSent
  /\ sent' = sent + 1
  /\ \E s \in Sent : pending' = pending \cup {s}
  /\ UNCHANGED <<prog, state, stack, action, old_mask, buffers, ready, armed, typed>>

Run ==
  \/ Install
  \/ ChangeMask
  \/ SendSelf
  \/ Wait
  \/ SleepOver
  \/ Go
  \/ Assign
  \/ SetJump
  \/ LongJump
  \/ Return
  \/ End
  \/ \E s \in Signals : Deliver(s)
  \/ Ring

Next == Run \/ Type \/ Send

\* The program is scheduled and clocks run down; nobody has to type or to send.
Spec == Init /\ [][Next]_vars /\ WF_vars(Run)
-----------------------------------------------------------------------------
(***************************************************************************)
(* Properties.                                                             *)
(***************************************************************************)

\* What the comments say each program shows.  The comment of ssu_func in
\* sigsuspend2 is about a SIGINT that comes during sigsuspend.
Said ==
  /\ prog = "sigsetjmp2" =>
       CASE Now.text \in {"starting_main", "ending_main"}         -> mask = {}
         [] Now.text \in {"starting_ssu_func", "ending_ssu_func"} -> mask = {"USR1"}
         [] OTHER                                                 -> mask = {"USR1", "ALRM"}
  /\ prog = "sigsuspend2" =>
       CASE Now.text = "program_exit" -> mask = {}
         [] Now.text = "in_ssu_func"  -> stack[1].waits => mask = {"INT", "USR1"}
         [] OTHER                     -> mask = {"INT"}
  /\ prog = "sigaction2" =>
       ("USR1" \in pending <=> Now.text = "after_kill")

\* Whenever a program prints its mask or asks what is pending, it finds what the
\* comment beside it says, whatever signals came before and wherever (sigsetjmp2
\* lines 30 to 99, sigsuspend2 lines 32 to 85, sigaction2 line 41).
ShowsAsSaid == At({"show"}) => Said

\* The two handlers of sigaction3 never interrupt one another, also with the flags
\* it forgets to set ("each blocks the other's signal", line 35); and ssu_func of
\* sigsuspend2 gets into the critical region only while sigsuspend waits.
Excluded ==
  /\ prog = "sigaction3" =>
       \A k, l \in 2..Len(stack) : stack[k].at = stack[l].at
  /\ prog = "sigsuspend2" /\ Len(stack) > 1 /\ stack[1].pc \in 3..6 => stack[1].waits

\* sigsetjmp2 and sigsetjmp3 never jump to a buffer that is not set, whenever the
\* signal comes, and are back in main with the mask they had there.
JumpsHome ==
  prog \in {"sigsetjmp2", "sigsetjmp3"} =>
    /\ state # "undefined"
    /\ Len(stack) = 1 => mask = {}

\* s has come while it is blocked, by main itself or during a wait of main.
\* sigpending and sigsuspend2 wait for SIGINT.  Not so sigsetjmp1, whose comment at
\* line 20 says that Ctrl-C stays blocked, nor sigsuspend3, whose alarm may ring in
\* front of sigsuspend.
Awaited(s) ==
  /\ s \in pending /\ s \in mask
  /\ s \in stack[1].mask \/ stack[1].waits
  /\ prog \notin {"sigsetjmp1", "sigsuspend3"}
  /\ prog \in {"sigpending", "sigsuspend2"} => s = "INT"

\* A signal that came while it was blocked is never lost: the program that blocked
\* it comes to an end, by that signal or behind it ("SIGINT is blocked and waiting,
\* the loop ends", sigpending line 27; what sigsuspend is for in sigsuspend2).
EndsWhenTold ==
  \A s \in Signals : Awaited(s) ~> state # "running"
=============================================================================
