---------------------------- MODULE SignalsProofs ----------------------------
(***************************************************************************)
(* Theorems about Signals, for any number of signals that others send.     *)
(***************************************************************************)
EXTENDS Signals, TLAPS

-----------------------------------------------------------------------------
(***************************************************************************)
(* The kernel and the library, for any programs.                           *)
(***************************************************************************)

Routines == Program[prog]

FrameOK(frame) ==
  /\ frame \in Frames
  /\ frame.at \in DOMAIN Routines
  /\ frame.pc \in DOMAIN Routines[frame.at]
  /\ frame.waits => Routines[frame.at][frame.pc].call \in Waiting

StackOK ==
  /\ stack \in Seq(Frames) /\ Len(stack) >= 1
  /\ \A k \in 1..Len(stack) : FrameOK(stack[k]) /\ (k = 1 <=> stack[k].at = "main")

Targets == {"default", "ignore"} \cup Handlers(Routines)
ActionOK == action \in [Signals -> [to : Targets, mask : SUBSET Signals, flags : AnyFlags]]

BuffersOK ==
  /\ buffers \in [Buffers -> [set : BOOLEAN, pc : Nat, mask : SUBSET Signals, saves : BOOLEAN]]
  /\ \A b \in Buffers : buffers[b].set => buffers[b].pc \in DOMAIN Routines["main"]

\* TypeOK, and that frames wait only at calls that do, that signals lead to handlers of
\* the program, and that buffers lead back into main.
KernelInv ==
  /\ prog \in DOMAIN Program
  /\ state \in {"running", "exited", "killed", "undefined"}
  /\ StackOK /\ ActionOK /\ BuffersOK
  /\ pending \subseteq Signals /\ old_mask \subseteq Signals
  /\ ready \in BOOLEAN /\ armed \in BOOLEAN /\ typed \in BOOLEAN
  /\ sent \in 0..MaxSent

LEMMA KernelTypes == KernelInv => TypeOK
  BY DEF KernelInv, StackOK, FrameOK, ActionOK, BuffersOK, TypeOK, Routines, Targets

\* A routine has a first call and goes on behind every call that is not final.
LEMMA RoutineProps ==
  ASSUME prog \in DOMAIN Program, NEW at \in DOMAIN Routines
  PROVE  /\ 1 \in DOMAIN Routines[at] /\ DOMAIN Routines[at] \subseteq Nat
         /\ \A n \in DOMAIN Routines[at] :
              /\ CallOK(Routines, at, n, Len(Routines[at]), Routines[at][n])
              /\ Routines[at][n].call \notin Final => n + 1 \in DOMAIN Routines[at]
              /\ \A m \in 1..Len(Routines[at]) : m \in DOMAIN Routines[at]
<1>1. /\ Len(Routines[at]) \in Nat \ {0} /\ DOMAIN Routines[at] = 1..Len(Routines[at])
      /\ \A n \in DOMAIN Routines[at] : CallOK(Routines, at, n, Len(Routines[at]), Routines[at][n])
  BY ProgramAssumption DEF Routines
<1>2. \A n \in DOMAIN Routines[at] : Routines[at][n].call \notin Final => n # Len(Routines[at])
  BY <1>1 DEF CallOK
<1> HIDE DEF Routines
<1> QED
  BY <1>1, <1>2

LEMMA TopProps ==
  ASSUME KernelInv
  PROVE  /\ Len(stack) \in Nat \ {0} /\ stack[Len(stack)] = Top /\ FrameOK(Top)
         /\ Front(stack) = SubSeq(stack, 1, Len(stack) - 1)
         /\ Now = Routines[Top.at][Top.pc]
         /\ Top.at \in DOMAIN Routines /\ Top.pc \in DOMAIN Routines[Top.at] /\ Top.pc \in Nat
         /\ CallOK(Routines, Top.at, Top.pc, Len(Routines[Top.at]), Now)
         /\ Now.call \notin Final => Top.pc + 1 \in DOMAIN Routines[Top.at]
<1>1. Len(stack) \in Nat \ {0} /\ stack[Len(stack)] = Top /\ FrameOK(Top) /\ prog \in DOMAIN Program
  BY DEF KernelInv, StackOK, Top, Last
<1>2. Top.at \in DOMAIN Routines /\ Top.pc \in DOMAIN Routines[Top.at] /\ Top.pc \in Nat
  BY <1>1 DEF FrameOK, Frames
<1>3. Now = Routines[Top.at][Top.pc]
  BY DEF Now, Routines
<1> QED
  BY <1>1, <1>2, <1>3, RoutineProps DEF Front

LEMMA LastReplaced ==
  ASSUME NEW S, NEW s \in Seq(S), Len(s) >= 1, NEW e \in S
  PROVE  Append(SubSeq(s, 1, Len(s) - 1), e) = [s EXCEPT ![Len(s)] = e]
<1> DEFINE f == SubSeq(s, 1, Len(s) - 1)
           new == [s EXCEPT ![Len(s)] = e]
<1>1. Len(s) \in Nat /\ Len(s) - 1 \in Nat
  OBVIOUS
<1>2. f \in Seq(S) /\ Len(f) = Len(s) - 1 /\ \A k \in 1..(Len(s) - 1) : f[k] = s[k]
  <2>1. f \in Seq(S)
    BY <1>1
  <2>2. f = [k \in 1..(Len(s) - 1) |-> s[k]]
    BY <1>1
  <2> HIDE DEF f
  <2>3. Len(f) = Len(s) - 1
    BY <1>1, <2>2
  <2> QED
    BY <2>1, <2>2, <2>3
<1>3. new \in Seq(S) /\ Len(new) = Len(s)
  BY <1>1
<1>4. \A k \in 1..Len(s) : new[k] = IF k = Len(s) THEN e ELSE s[k]
  BY <1>1
<1> HIDE DEF f, new
<1>5. Append(f, e) \in Seq(S) /\ Len(Append(f, e)) = Len(s)
  BY <1>1, <1>2
<1>6. \A k \in 1..Len(s) : Append(f, e)[k] = IF k = Len(s) THEN e ELSE s[k]
  BY <1>1, <1>2
<1>7. Append(f, e) = new
  BY <1>3, <1>4, <1>5, <1>6
<1> QED
  BY <1>7 DEF f, new

LEMMA Pushed ==
  ASSUME NEW S, NEW s \in Seq(S), NEW e
  PROVE  /\ Len(Append(s, e)) = Len(s) + 1
         /\ \A k \in 1..Len(s) : Append(s, e)[k] = s[k]
         /\ Append(s, e)[Len(s) + 1] = e
<1>1. s \in Seq(S \cup {e}) /\ e \in S \cup {e} /\ Len(s) \in Nat
  OBVIOUS
<1> QED
  BY <1>1

\* The frame on top gets another place, another mask, or begins to wait.
LEMMA TopReplaced ==
  ASSUME KernelInv, NEW frame, FrameOK(frame), frame.at = Top.at, UNCHANGED prog,
         stack' = Append(Front(stack), frame)
  PROVE  stack' = [stack EXCEPT ![Len(stack)] = frame] /\ StackOK'
<1>1. Len(stack) \in Nat \ {0} /\ stack \in Seq(Frames) /\ frame \in Frames
  BY DEF KernelInv, StackOK, FrameOK
<1>2. /\ stack' = Append(SubSeq(stack, 1, Len(stack) - 1), frame)
      /\ stack[Len(stack)] = Top
  BY TopProps
<1>3. stack' = [stack EXCEPT ![Len(stack)] = frame]
  BY <1>1, <1>2, LastReplaced
<1>4. stack' \in Seq(Frames) /\ Len(stack') = Len(stack)
  BY <1>1, <1>3
<1>5. \A k \in 1..Len(stack) : stack'[k] = IF k = Len(stack) THEN frame ELSE stack[k]
  BY <1>1, <1>3
<1>7. \A f : FrameOK(f) => FrameOK(f)'
  BY DEF FrameOK, Routines
<1>8. \A k \in 1..Len(stack) : FrameOK(stack[k]) /\ (k = 1 <=> stack[k].at = "main")
  BY DEF KernelInv, StackOK
<1>9. Len(stack) = 1 <=> frame.at = "main"
  <2>1. Len(stack) \in 1..Len(stack) /\ frame.at = stack[Len(stack)].at
    BY <1>1, <1>2
  <2> QED
    BY <1>8, <2>1
<1>10. \A k \in 1..Len(stack') : FrameOK(stack[k])' /\ (k = 1 <=> stack'[k].at = "main")
  <2> TAKE k \in 1..Len(stack')
  <2>1. CASE k = Len(stack)
    BY <1>4, <1>5, <1>7, <1>9, <2>1
  <2>2. CASE k # Len(stack)
    BY <1>4, <1>5, <1>7, <1>8, <2>2
  <2> QED
    BY <2>1, <2>2
<1>11. Len(stack') >= 1
  BY <1>1, <1>4
<1> QED
  BY <1>3, <1>4, <1>10, <1>11 DEF StackOK
\* The routine on top goes on at n.
LEMMA GoToStack ==
  ASSUME KernelInv, UNCHANGED prog, NEW n \in DOMAIN Routines[Top.at], GoTo(n)
  PROVE  /\ stack' = [stack EXCEPT ![Len(stack)] = [Top EXCEPT !.pc = n, !.waits = FALSE]]
         /\ StackOK'
<1> DEFINE frame == [Top EXCEPT !.pc = n, !.waits = FALSE]
<1>1. FrameOK(Top) /\ Top.at \in DOMAIN Routines /\ prog \in DOMAIN Program
  BY TopProps DEF KernelInv
<1>2. n \in Nat
  BY <1>1, RoutineProps
<1>3. FrameOK(frame) /\ frame.at = Top.at
  BY <1>1, <1>2 DEF FrameOK, Frames
<1>4. stack' = Append(Front(stack), frame)
  BY DEF GoTo
<1> HIDE DEF frame
<1>5. stack' = [stack EXCEPT ![Len(stack)] = frame] /\ StackOK'
  BY <1>3, <1>4, TopReplaced
<1> QED
  BY <1>5 DEF frame

LEMMA AdvanceStack ==
  ASSUME KernelInv, UNCHANGED prog, Now.call \notin Final, Advance
  PROVE  /\ stack' = [stack EXCEPT ![Len(stack)] = [Top EXCEPT !.pc = Top.pc + 1, !.waits = FALSE]]
         /\ StackOK'
  BY TopProps, GoToStack DEF Advance

\* What does not depend on the stack.
LEMMA OthersStay ==
  ASSUME KernelInv, UNCHANGED prog
  PROVE  /\ Routines' = Routines
         /\ UNCHANGED stack => StackOK'
         /\ UNCHANGED action => ActionOK'
         /\ UNCHANGED buffers => BuffersOK'
  BY DEF KernelInv, StackOK, FrameOK, ActionOK, BuffersOK, Routines, Targets

LEMMA InitKernel == Init => KernelInv
<1> SUFFICES ASSUME Init PROVE KernelInv
  OBVIOUS
<1>1. prog \in DOMAIN Program /\ "main" \in DOMAIN Routines
  BY ProgramAssumption DEF Init, Routines
<1>2. 1 \in DOMAIN Routines["main"]
  BY <1>1, RoutineProps
<1>3. FrameOK(Frame("main", {}))
  BY <1>1, <1>2 DEF FrameOK, Frame, Frames, Routines
<1>4. StackOK
  <2>1. stack = <<Frame("main", {})>> /\ Frame("main", {}).at = "main"
    BY DEF Init, Frame
  <2>2. FrameOK(stack[1]) /\ stack[1].at = "main" /\ Len(stack) = 1
    BY <1>3, <2>1
  <2>3. stack \in Seq(Frames)
    BY <1>3, <2>1 DEF FrameOK
  <2> QED
    BY <2>2, <2>3 DEF StackOK
<1>5. ActionOK
  <2>1. action = [s \in Signals |-> default]
    BY DEF Init
  <2>2. default.to \in Targets /\ default.mask \in SUBSET Signals /\ default.flags \in AnyFlags
    BY DEF default, AnyFlags, Targets
  <2>3. default = [to |-> default.to, mask |-> default.mask, flags |-> default.flags]
    BY DEF default
  <2>4. default \in [to : Targets, mask : SUBSET Signals, flags : AnyFlags]
    BY <2>2, <2>3
  <2> QED
    BY <2>1, <2>4 DEF ActionOK
<1>6. BuffersOK
  BY DEF Init, BuffersOK, unset
<1>7. sent \in 0..MaxSent
  BY SignalsAssumption DEF Init
<1>8. state = "running" /\ pending \subseteq Signals /\ old_mask \subseteq Signals
  BY DEF Init
<1>9. ready \in BOOLEAN /\ armed \in BOOLEAN /\ typed \in BOOLEAN
  BY DEF Init
<1> QED
  BY <1>1, <1>4, <1>5, <1>6, <1>7, <1>8, <1>9 DEF KernelInv

LEMMA InstallKernel == KernelInv /\ Install => KernelInv'
<1> SUFFICES ASSUME KernelInv, Install PROVE KernelInv'
  OBVIOUS
<1>1. Now.call = "sigaction" /\ Now.call \notin Final
  BY DEF Install, At, Final
<1>2. StackOK' /\ BuffersOK' /\ Routines' = Routines
  BY <1>1, AdvanceStack, OthersStay DEF Install
<1>3. ActionOK'
  <2>1. PICK m \in Now.masks, f \in Now.flags :
          action' = [action EXCEPT ![Now.sig] = [to |-> Now.to, mask |-> m, flags |-> f]]
    BY DEF Install
  <2>2. /\ Now.sig \in Signals /\ Now.to \in Targets
        /\ m \in SUBSET Signals /\ f \in AnyFlags
    BY <1>1, <2>1, TopProps DEF CallOK, Targets
  <2> QED
    BY <1>2, <2>1, <2>2 DEF ActionOK, Targets, KernelInv
<1> QED
  BY <1>2, <1>3 DEF Install, KernelInv

LEMMA ChangeMaskKernel == KernelInv /\ ChangeMask => KernelInv'
<1> SUFFICES ASSUME KernelInv, ChangeMask PROVE KernelInv'
  OBVIOUS
<1> DEFINE new == IF Now.call = "restore" THEN old_mask ELSE (Top.mask \ Now.off) \cup Now.on
           frame == [Top EXCEPT !.pc = @ + 1, !.mask = new]
<1>1. Now.call \in {"sigprocmask", "restore"} /\ Now.call \notin Final /\ ~Top.waits
  BY DEF ChangeMask, At, Final
<1>2. FrameOK(Top) /\ Top.pc + 1 \in DOMAIN Routines[Top.at] /\ Top.pc \in Nat
  BY <1>1, TopProps
<1>3. Top \in Frames /\ Top.mask \subseteq Signals
  BY <1>2 DEF FrameOK, Frames
<1>4. new \subseteq Signals
  BY <1>1, <1>3, TopProps DEF KernelInv, CallOK
<1> HIDE DEF new
<1>5. FrameOK(frame) /\ frame.at = Top.at
  <2>0. Top \in Frames /\ Top.pc + 1 \in Nat /\ new \in SUBSET Signals
    BY <1>2, <1>3, <1>4
  <2>1. frame.at = Top.at /\ frame.waits = Top.waits
    BY <2>0 DEF Frames
  <2>2. frame.pc = Top.pc + 1
    BY <2>0 DEF Frames
  <2>3. frame \in Frames
    BY <2>0 DEF Frames
  <2> QED
    BY <1>1, <1>2, <2>1, <2>2, <2>3 DEF FrameOK
<1>6. stack' = Append(Front(stack), frame)
  BY DEF ChangeMask, new
<1> HIDE DEF frame
<1>7. StackOK' /\ ActionOK' /\ BuffersOK'
  BY <1>5, <1>6, TopReplaced, OthersStay DEF ChangeMask
<1> QED
  BY <1>3, <1>7 DEF ChangeMask, KernelInv

LEMMA WaitKernel == KernelInv /\ Wait => KernelInv'
<1> SUFFICES ASSUME KernelInv, Wait PROVE KernelInv'
  OBVIOUS
<1> DEFINE frame == [Top EXCEPT !.waits = TRUE]
<1>1. Now.call \in Waiting
  BY DEF Wait, At, Waiting
<1>2. FrameOK(frame) /\ frame.at = Top.at
  <2>1. FrameOK(Top) /\ Routines[Top.at][Top.pc].call \in Waiting
    BY <1>1, TopProps
  <2>2. Top \in Frames
    BY <2>1 DEF FrameOK
  <2>3. frame \in Frames /\ frame.at = Top.at /\ frame.pc = Top.pc
    BY <2>2 DEF Frames
  <2> QED
    BY <2>1, <2>3 DEF FrameOK
<1>3. stack' = Append(Front(stack), frame)
  BY DEF Wait
<1> HIDE DEF frame
<1>4. StackOK' /\ ActionOK' /\ BuffersOK'
  BY <1>2, <1>3, TopReplaced, OthersStay DEF Wait
<1> QED
  BY <1>4 DEF Wait, KernelInv

\* The calls that go on and change nothing the types depend on.
LEMMA PlainKernel ==
  ASSUME KernelInv, SendSelf \/ SleepOver \/ Assign \/ Type
  PROVE  KernelInv'
<1>1. Now.call \notin Final /\ UNCHANGED prog /\ Advance
  BY DEF SendSelf, SleepOver, Assign, Type, At, Final
<1>2. StackOK' /\ (UNCHANGED action => ActionOK') /\ (UNCHANGED buffers => BuffersOK')
  BY <1>1, AdvanceStack, OthersStay
<1>3. CASE SendSelf
  <2>1. Now.sig \in Signals
    BY <1>3, TopProps DEF SendSelf, At, CallOK
  <2> QED
    BY <1>2, <1>3, <2>1 DEF SendSelf, KernelInv
<1>4. CASE SleepOver
  BY <1>2, <1>4 DEF SleepOver, KernelInv
<1>5. CASE Assign
  <2>1. Now.call = "can_jump" => Now.value \in BOOLEAN
    BY TopProps DEF CallOK
  <2>2. ready' \in BOOLEAN /\ armed' \in BOOLEAN
    BY <1>5, <2>1 DEF Assign, KernelInv
  <2> QED
    BY <1>2, <1>5, <2>2 DEF Assign, KernelInv
<1>6. CASE Type
  BY <1>2, <1>6 DEF Type, KernelInv
<1> QED
  BY <1>3, <1>4, <1>5, <1>6

LEMMA GoKernel == KernelInv /\ Go => KernelInv'
<1> SUFFICES ASSUME KernelInv, Go PROVE KernelInv'
  OBVIOUS
<1>1. Now.call \in {"show", "goto", "unless", "wait_over"} /\ UNCHANGED prog
  BY DEF Go, At
<1>2. Advance \/ (Now.call \in {"goto", "unless"} /\ GoTo(Now.n))
  BY <1>1 DEF Go
<1>3. CASE Now.call \in {"goto", "unless"} /\ GoTo(Now.n)
  <2>1. Now.n \in DOMAIN Routines[Top.at]
    BY <1>3, TopProps, RoutineProps DEF CallOK, KernelInv
  <2> QED
    BY <1>1, <1>3, <2>1, GoToStack, OthersStay DEF Go, KernelInv
<1>4. CASE Advance /\ ~(Now.call \in {"goto", "unless"} /\ GoTo(Now.n))
  <2>1. Now.call # "goto"
    BY <1>4 DEF Go
  <2>2. StackOK'
    BY <1>1, <1>4, <2>1, AdvanceStack DEF Final
  <2> QED
    BY <1>1, <2>2, OthersStay DEF Go, KernelInv
<1> QED
  BY <1>2, <1>3, <1>4

LEMMA SetJumpKernel == KernelInv /\ SetJump => KernelInv'
<1> SUFFICES ASSUME KernelInv, SetJump PROVE KernelInv'
  OBVIOUS
<1>1. Now.call = "setjmp" /\ Now.call \notin Final /\ UNCHANGED prog /\ Advance
  BY DEF SetJump, At, Final
<1>2. StackOK' /\ ActionOK' /\ Routines' = Routines
  BY <1>1, AdvanceStack, OthersStay DEF SetJump
<1>3. /\ Top.at = "main" /\ Now.buf \in Buffers /\ Now.saves \in BOOLEAN
      /\ Now.n \in DOMAIN Routines["main"] /\ Now.n \in Nat
  BY <1>1, TopProps, RoutineProps DEF CallOK, KernelInv
<1>4. Top.mask \subseteq Signals
  BY TopProps DEF FrameOK, Frames
<1>5. BuffersOK'
  BY <1>2, <1>3, <1>4 DEF SetJump, KernelInv, BuffersOK
<1> QED
  BY <1>2, <1>5 DEF SetJump, KernelInv

LEMMA LongJumpKernel == KernelInv /\ LongJump => KernelInv'
<1> SUFFICES ASSUME KernelInv, LongJump PROVE KernelInv'
  OBVIOUS
<1> DEFINE b == buffers[Now.buf]
           m == IF b.saves THEN b.mask ELSE Top.mask
           frame == [stack[1] EXCEPT !.pc = b.pc, !.waits = FALSE, !.mask = m]
<1>1. Now.call = "longjmp" /\ UNCHANGED <<prog, action, buffers>>
  BY DEF LongJump, At
<1>2. Now.buf \in Buffers /\ Top.mask \subseteq Signals
  BY <1>1, TopProps DEF CallOK, FrameOK, Frames
<1>3. b.pc \in Nat /\ m \in SUBSET Signals
  BY <1>2 DEF KernelInv, BuffersOK
<1>4. stack[1] \in Frames /\ stack[1].at = "main"
  BY DEF KernelInv, StackOK, FrameOK
<1>5. CASE b.set
  <2>1. stack' = <<frame>> /\ UNCHANGED state
    BY <1>5 DEF LongJump
  <2>2. b.pc \in DOMAIN Routines["main"] /\ "main" \in DOMAIN Routines
    BY <1>2, <1>5, ProgramAssumption DEF KernelInv, BuffersOK, Routines
  <2>3. frame \in Frames /\ frame.at = "main" /\ frame.pc = b.pc /\ ~frame.waits
    BY <1>3, <1>4 DEF Frames
  <2>4. FrameOK(frame) /\ \A f : FrameOK(f) => FrameOK(f)'
    BY <1>1, <2>2, <2>3 DEF FrameOK, Routines
  <2> HIDE DEF frame
  <2>5. StackOK'
    <3>1. stack' \in Seq(Frames) /\ Len(stack') = 1 /\ stack'[1] = frame
      BY <2>1, <2>3
    <3>2. FrameOK(stack[1])' /\ stack'[1].at = "main"
      BY <2>3, <2>4, <3>1
    <3> QED
      BY <3>1, <3>2 DEF StackOK
  <2> QED
    BY <1>1, <2>1, <2>5, OthersStay DEF LongJump, KernelInv
<1>6. CASE ~b.set
  BY <1>1, <1>6, OthersStay DEF LongJump, KernelInv
<1> QED
  BY <1>5, <1>6

LEMMA FrontProps ==
  ASSUME NEW S, NEW s \in Seq(S), Len(s) >= 1
  PROVE  /\ Front(s) \in Seq(S) /\ Len(Front(s)) = Len(s) - 1
         /\ \A k \in 1..(Len(s) - 1) : Front(s)[k] = s[k]
<1>1. Len(s) \in Nat /\ Len(s) - 1 \in Nat
  OBVIOUS
<1>2. Front(s) \in Seq(S)
  BY <1>1 DEF Front
<1>3. Front(s) = [k \in 1..(Len(s) - 1) |-> s[k]]
  BY <1>1 DEF Front
<1>4. Len(Front(s)) = Len(s) - 1
  BY <1>1, <1>3
<1> QED
  BY <1>2, <1>3, <1>4

LEMMA LastTwoReplaced ==
  ASSUME NEW S, NEW s \in Seq(S), Len(s) >= 2, NEW e \in S
  PROVE  Append(Front(Front(s)), e) =
           [k \in 1..(Len(s) - 1) |-> IF k = Len(s) - 1 THEN e ELSE s[k]]
<1> DEFINE f == Front(Front(s))
           new == [k \in 1..(Len(s) - 1) |-> IF k = Len(s) - 1 THEN e ELSE s[k]]
<1>1. Len(s) \in Nat /\ Len(s) - 1 \in Nat /\ Len(s) - 2 \in Nat
  OBVIOUS
<1>2. Front(s) \in Seq(S) /\ Len(Front(s)) = Len(s) - 1 /\ \A k \in 1..(Len(s) - 1) : Front(s)[k] = s[k]
  BY FrontProps
<1>3. f \in Seq(S) /\ Len(f) = Len(Front(s)) - 1 /\ \A k \in 1..(Len(Front(s)) - 1) : f[k] = Front(s)[k]
  BY <1>1, <1>2, FrontProps
<1> HIDE DEF f
<1>4. f \in Seq(S) /\ Len(f) = Len(s) - 2 /\ \A k \in 1..(Len(s) - 2) : f[k] = s[k]
  BY <1>1, <1>2, <1>3
<1>5. new \in Seq(S) /\ Len(new) = Len(s) - 1
  BY <1>1
<1>6. Append(f, e) \in Seq(S) /\ Len(Append(f, e)) = Len(s) - 1
  BY <1>1, <1>4
<1>7. \A k \in 1..(Len(s) - 1) : Append(f, e)[k] = IF k = Len(s) - 1 THEN e ELSE s[k]
  BY <1>1, <1>4
<1>8. \A k \in 1..(Len(s) - 1) : new[k] = IF k = Len(s) - 1 THEN e ELSE s[k]
  OBVIOUS
<1> HIDE DEF new
<1>9. Append(f, e) = new
  BY <1>5, <1>6, <1>7, <1>8
<1> QED
  BY <1>9 DEF f, new

\* The frames below the handler that returns.
LEMMA ReturnStack ==
  ASSUME KernelInv, Return
  PROVE  LET below == stack[Len(stack) - 1]
             frame == IF below.waits THEN [below EXCEPT !.pc = @ + 1, !.waits = FALSE] ELSE below
         IN  /\ Len(stack) >= 2
             /\ frame.at = below.at /\ frame.mask = below.mask
             /\ ~below.waits => frame = below
             /\ below.waits => frame.pc = below.pc + 1 /\ ~frame.waits
             /\ stack' = [k \in 1..(Len(stack) - 1) |-> IF k = Len(stack) - 1 THEN frame ELSE stack[k]]
             /\ StackOK'
<1> DEFINE below == stack[Len(stack) - 1]
           frame == IF below.waits THEN [below EXCEPT !.pc = @ + 1, !.waits = FALSE] ELSE below
<1>1. Now.call = "return" /\ UNCHANGED prog /\ stack' = Append(Front(Front(stack)), frame)
  BY DEF Return, At
<1>2. Len(stack) \in Nat /\ Len(stack) >= 2
  <2>1. Top.at # "main" /\ stack[Len(stack)] = Top /\ Len(stack) \in Nat \ {0}
    BY <1>1, TopProps DEF CallOK
  <2> QED
    BY <2>1 DEF KernelInv, StackOK
<1>3. stack \in Seq(Frames) /\ FrameOK(below) /\ below \in Frames /\ (Len(stack) = 2 <=> below.at = "main")
  <2>1. Len(stack) - 1 \in 1..Len(stack)
    BY <1>2
  <2>2. FrameOK(below) /\ (Len(stack) - 1 = 1 <=> below.at = "main")
    BY <2>1 DEF KernelInv, StackOK
  <2> QED
    BY <1>2, <2>2 DEF KernelInv, StackOK, FrameOK
<1>4. /\ frame.at = below.at /\ frame.mask = below.mask
      /\ below.waits => frame.pc = below.pc + 1 /\ ~frame.waits
      /\ ~below.waits => frame = below
  BY <1>3 DEF Frames
<1>5. frame \in Frames
  <2>1. below.pc \in Nat
    BY <1>3 DEF Frames
  <2>2. CASE below.waits
    <3>1. [below EXCEPT !.pc = below.pc + 1, !.waits = FALSE] \in Frames
      <4>1. below \in Frames /\ below.pc + 1 \in Nat
        BY <1>3, <2>1
      <4> HIDE DEF below
      <4> QED
        BY <4>1 DEF Frames
    <3> QED
      BY <2>2, <3>1
  <2>3. CASE ~below.waits
    BY <1>3, <2>3
  <2> QED
    BY <2>2, <2>3
<1>6. FrameOK(frame)
  <2>1. CASE below.waits
    <3>1. below.pc + 1 \in DOMAIN Routines[below.at]
      BY <1>3, <2>1, RoutineProps DEF FrameOK, KernelInv, Waiting, Final
    <3> QED
      BY <1>3, <1>4, <1>5, <2>1, <3>1 DEF FrameOK
  <2>2. CASE ~below.waits
    BY <1>3, <1>4, <2>2
  <2> QED
    BY <2>1, <2>2
<1> HIDE DEF frame
<1>8. stack' = [k \in 1..(Len(stack) - 1) |-> IF k = Len(stack) - 1 THEN frame ELSE stack[k]]
  BY <1>1, <1>2, <1>3, <1>5, LastTwoReplaced
<1>9. StackOK'
  <2>1. stack' \in Seq(Frames) /\ Len(stack') = Len(stack) - 1
    BY <1>2, <1>3, <1>5, <1>8
  <2>2. \A f : FrameOK(f) => FrameOK(f)'
    BY <1>1 DEF FrameOK, Routines
  <2>3. \A k \in 1..(Len(stack) - 1) : FrameOK(stack[k])' /\ (k = 1 <=> stack'[k].at = "main")
    BY <1>2, <1>3, <1>4, <1>6, <1>8, <2>2 DEF KernelInv, StackOK
  <2> QED
    BY <1>2, <2>1, <2>3 DEF StackOK
<1> QED
  BY <1>2, <1>4, <1>8, <1>9 DEF frame

LEMMA ReturnKernel == KernelInv /\ Return => KernelInv'
  BY ReturnStack, OthersStay DEF Return, KernelInv

LEMMA MaskType == KernelInv => mask \subseteq Signals
<1> SUFFICES ASSUME KernelInv PROVE mask \subseteq Signals
  OBVIOUS
<1>1. Top.mask \subseteq Signals
  BY TopProps DEF FrameOK, Frames
<1>2. Now.call = "sigsuspend" => Now.set \subseteq Signals
  BY TopProps DEF CallOK
<1> QED
  BY <1>1, <1>2 DEF mask, KernelInv

\* What a delivery does to the stack.
LEMMA DeliverStack ==
  ASSUME KernelInv, NEW s \in Signals, Deliver(s)
  PROVE  LET itself == IF "nodefer" \in action[s].flags THEN {} ELSE {s}
             frame  == Frame(action[s].to, mask \cup action[s].mask \cup itself)
         IN  /\ \/ action[s].to \in {"default", "ignore"} /\ UNCHANGED <<stack, action>>
                \/ /\ action[s].to \in Handlers(Routines)
                   /\ stack' = Append(stack, frame) /\ UNCHANGED state
                   /\ action' = action \/ action' = [action EXCEPT ![s] = default]
             /\ StackOK' /\ ActionOK'
<1> DEFINE itself == IF "nodefer" \in action[s].flags THEN {} ELSE {s}
           frame  == Frame(action[s].to, mask \cup action[s].mask \cup itself)
<1>1. UNCHANGED prog /\ Routines' = Routines
  BY OthersStay DEF Deliver
<1>2. action[s] \in [to : Targets, mask : SUBSET Signals, flags : AnyFlags]
  BY DEF KernelInv, ActionOK
<1>3. CASE action[s].to \in {"default", "ignore"}
  <2>1. UNCHANGED <<stack, action>>
    BY <1>3 DEF Deliver
  <2> QED
    BY <1>1, <1>3, <2>1, OthersStay
<1>4. CASE action[s].to \notin {"default", "ignore"}
  <2>1. action[s].to \in Handlers(Routines)
    BY <1>2, <1>4 DEF Targets
  <2>2. /\ stack' = Append(stack, frame) /\ UNCHANGED state
        /\ action' = action \/ action' = [action EXCEPT ![s] = default]
    BY <1>4 DEF Deliver
  <2>3. action[s].to \in DOMAIN Routines /\ action[s].to # "main" /\ prog \in DOMAIN Program
    BY <2>1 DEF Handlers, KernelInv
  <2>4. 1 \in DOMAIN Routines[action[s].to]
    BY <2>3, RoutineProps
  <2>5. mask \cup action[s].mask \cup itself \subseteq Signals
    BY <1>2, MaskType
  <2>6. frame.at = action[s].to /\ frame.pc = 1 /\ ~frame.waits
    BY DEF Frame
  <2>7. frame \in Frames
    BY <2>3, <2>5 DEF Frame, Frames, Routines
  <2>8. FrameOK(frame)
    BY <2>3, <2>4, <2>6, <2>7 DEF FrameOK
  <2> HIDE DEF frame
  <2>9. StackOK'
    <3>1. \A f : FrameOK(f) => FrameOK(f)'
      BY <1>1 DEF FrameOK
    <3>2. /\ stack \in Seq(Frames) /\ Len(stack) \in Nat /\ Len(stack) >= 1
          /\ \A k \in 1..Len(stack) : FrameOK(stack[k]) /\ (k = 1 <=> stack[k].at = "main")
      BY DEF KernelInv, StackOK
    <3>3. /\ stack' \in Seq(Frames) /\ Len(stack') = Len(stack) + 1
          /\ \A k \in 1..(Len(stack) + 1) :
               stack'[k] = IF k = Len(stack) + 1 THEN frame ELSE stack[k]
      BY <2>2, <2>7, <3>2
    <3>4. \A k \in 1..(Len(stack) + 1) : FrameOK(stack[k])' /\ (k = 1 <=> stack'[k].at = "main")
      BY <2>3, <2>6, <2>8, <3>1, <3>2, <3>3
    <3> QED
      BY <3>2, <3>3, <3>4 DEF StackOK
  <2>10. ActionOK'
    <3>1. default.to \in Targets /\ default.mask \in SUBSET Signals /\ default.flags \in AnyFlags
      BY DEF default, AnyFlags, Targets
    <3>2. default = [to |-> default.to, mask |-> default.mask, flags |-> default.flags]
      BY DEF default
    <3>3. default \in [to : Targets, mask : SUBSET Signals, flags : AnyFlags]
      BY <3>1, <3>2
    <3>4. Targets' = Targets
      BY <1>1 DEF Targets
    <3> QED
      BY <2>2, <3>3, <3>4 DEF ActionOK, KernelInv
  <2> QED
    BY <2>1, <2>2, <2>9, <2>10 DEF frame
<1> QED
  BY <1>3, <1>4

LEMMA DeliverKernel == ASSUME KernelInv, NEW s \in Signals, Deliver(s) PROVE KernelInv'
<1>1. StackOK' /\ ActionOK'
  BY DeliverStack
<1>2. BuffersOK'
  BY OthersStay DEF Deliver
<1>3. state' \in {"running", "exited", "killed", "undefined"}
  BY DEF Deliver, KernelInv
<1> QED
  BY <1>1, <1>2, <1>3 DEF Deliver, KernelInv

LEMMA NextKernel == KernelInv /\ [Next]_vars => KernelInv'
<1> SUFFICES ASSUME KernelInv, [Next]_vars PROVE KernelInv'
  OBVIOUS
<1>1. CASE UNCHANGED vars
  BY <1>1, OthersStay DEF vars, KernelInv
<1>2. CASE End
  BY <1>2, OthersStay DEF End, KernelInv
<1>3. CASE Ring
  BY <1>3, OthersStay DEF Ring, KernelInv, Signals
<1>4. CASE Send
  <2>1. pending' \subseteq Signals /\ sent' \in 0..MaxSent
    BY <1>4, SignalsAssumption DEF Send, KernelInv
  <2> QED
    BY <1>4, <2>1, OthersStay DEF Send, KernelInv
<1> QED
  BY <1>1, <1>2, <1>3, <1>4, InstallKernel, ChangeMaskKernel, WaitKernel, PlainKernel, GoKernel,
     SetJumpKernel, LongJumpKernel, ReturnKernel, DeliverKernel DEF Next, Run

LEMMA KernelAlways == Spec => []KernelInv
  BY InitKernel, NextKernel, PTL DEF Spec

\* The types: no routine runs past its end, for any programs that are well-formed,
\* and however many signals come.
THEOREM TypeCorrect == Spec => []TypeOK
  BY KernelAlways, KernelTypes, PTL
-----------------------------------------------------------------------------
(***************************************************************************)
(* The steps, by what they do to the stack.                                *)
(***************************************************************************)

\* The routine on top makes a call that changes neither its mask nor the handlers.
PlainStep ==
  Install \/ SendSelf \/ Wait \/ SleepOver \/ Go \/ Assign \/ SetJump \/ Type

\* Nothing is executed.
StillStep == Ring \/ Send \/ End \/ UNCHANGED vars

LEMMA Steps ==
  ASSUME [Next]_vars
  PROVE  \/ PlainStep \/ StillStep \/ ChangeMask \/ LongJump \/ Return
         \/ \E s \in Signals : Deliver(s)
  BY DEF Next, Run, PlainStep, StillStep

LEMMA ProgramStays == [Next]_vars => UNCHANGED prog
  BY DEF Next, Run, vars, Install, ChangeMask, SendSelf, Wait, SleepOver, Go, Assign, SetJump,
         LongJump, Return, End, Deliver, Ring, Type, Send

LEMMA PlainCall ==
  ASSUME PlainStep
  PROVE  /\ Now.call \notin {"sigprocmask", "restore", "longjmp", "return", "exit", "abort", "spin"}
         /\ Top.waits => Now.call = "sleep"
  BY DEF PlainStep, Install, SendSelf, Wait, SleepOver, Go, Assign, SetJump, Type, At

LEMMA PlainSteps ==
  ASSUME PlainStep
  PROVE  /\ Now.call = "sigaction" <=> Install
         /\ Now.call = "kill" <=> SendSelf
         /\ Now.call = "setjmp" <=> SetJump
         /\ Now.call \in {"can_jump", "alarm"} <=> Assign
         /\ Now.call \in {"show", "goto", "unless", "wait_over"} <=> Go
         /\ ~Install => UNCHANGED action
         /\ ~SetJump => UNCHANGED buffers
         /\ ~Install /\ ~SendSelf => UNCHANGED pending
         /\ ~Assign => UNCHANGED <<ready, armed>>
<1>1. /\ Install => Now.call = "sigaction"
      /\ SendSelf => Now.call = "kill"
      /\ SetJump => Now.call = "setjmp"
      /\ Assign => Now.call \in {"can_jump", "alarm"}
      /\ Go => Now.call \in {"show", "goto", "unless", "wait_over"}
      /\ Wait => Now.call \in {"pause", "sleep", "sigsuspend", "suspend_old"}
      /\ SleepOver => Now.call = "sleep"
      /\ Type => Now.call = "getchar"
  BY DEF Install, SendSelf, Wait, SleepOver, Go, Assign, SetJump, Type, At
<1>2. /\ ~Install => UNCHANGED action
      /\ ~SetJump => UNCHANGED buffers
      /\ ~Install /\ ~SendSelf => UNCHANGED pending
      /\ ~Assign => UNCHANGED <<ready, armed>>
  BY DEF PlainStep, Install, SendSelf, Wait, SleepOver, Go, Assign, SetJump, Type
<1> QED
  BY <1>1, <1>2 DEF PlainStep

LEMMA StillStack ==
  ASSUME StillStep
  PROVE  /\ UNCHANGED <<prog, stack, action, old_mask, buffers, ready>>
         /\ state' # "undefined" \/ UNCHANGED state
  BY DEF StillStep, Ring, Send, End, vars

LEMMA PlainStack ==
  ASSUME KernelInv, PlainStep
  PROVE  /\ UNCHANGED <<prog, state, old_mask>>
         /\ Len(stack') = Len(stack)
         /\ \A k \in 1..Len(stack) :
              /\ stack'[k].at = stack[k].at /\ stack'[k].mask = stack[k].mask
              /\ k < Len(stack) => stack'[k] = stack[k]
         /\ IF Now.call \in Waiting /\ ~Top.waits
            THEN stack'[Len(stack)].pc = Top.pc /\ stack'[Len(stack)].waits
            ELSE /\ ~stack'[Len(stack)].waits
                 /\ \/ stack'[Len(stack)].pc = Top.pc + 1 /\ Now.call # "goto"
                    \/ stack'[Len(stack)].pc = Now.n /\ Now.call \in {"goto", "unless"}
<1> DEFINE waiting == [Top EXCEPT !.waits = TRUE]
           gone(n) == [Top EXCEPT !.pc = n, !.waits = FALSE]
<1>1. UNCHANGED <<prog, state, old_mask>>
  BY DEF PlainStep, Install, SendSelf, Wait, SleepOver, Go, Assign, SetJump, Type
<1>2. /\ Top \in Frames /\ stack[Len(stack)] = Top /\ stack \in Seq(Frames) /\ Len(stack) \in Nat \ {0}
      /\ FrameOK(Top) /\ Now = Routines[Top.at][Top.pc]
  BY TopProps DEF KernelInv, StackOK, FrameOK
<1>3. CASE Wait
  <2>1. Now.call \in Waiting /\ ~Top.waits
    BY <1>3 DEF Wait, At, Waiting
  <2>2. FrameOK(waiting) /\ waiting.at = Top.at /\ waiting.mask = Top.mask /\ waiting.pc = Top.pc /\ waiting.waits
    <3>1. waiting \in Frames /\ waiting.at = Top.at /\ waiting.pc = Top.pc
      BY <1>2 DEF Frames
    <3>2. waiting.mask = Top.mask /\ waiting.waits
      BY <1>2 DEF Frames
    <3> QED
      BY <1>2, <2>1, <3>1, <3>2 DEF FrameOK
  <2>3. stack' = Append(Front(stack), waiting)
    BY <1>3 DEF Wait
  <2> HIDE DEF waiting
  <2>4. stack' = [stack EXCEPT ![Len(stack)] = waiting]
    BY <1>1, <2>2, <2>3, TopReplaced
  <2> QED
    BY <1>1, <1>2, <2>1, <2>2, <2>4
<1>4. CASE ~Wait
  <2>1. \/ Now.call \notin Waiting
        \/ Top.waits /\ Now.call = "sleep"
    BY <1>4 DEF PlainStep, Install, SendSelf, SleepOver, Go, Assign, SetJump, Type, At, Waiting
  <2>2. PICK n \in DOMAIN Routines[Top.at] :
          /\ GoTo(n)
          /\ \/ n = Top.pc + 1 /\ Now.call # "goto"
             \/ n = Now.n /\ Now.call \in {"goto", "unless"}
    <3>1. Now.call \in {"goto", "unless"} => Now.n \in DOMAIN Routines[Top.at]
      BY TopProps, RoutineProps DEF CallOK, KernelInv
    <3>2. Now.call \notin Final => Top.pc + 1 \in DOMAIN Routines[Top.at]
      BY TopProps
    <3>3. CASE Go
      BY <1>4, <3>1, <3>2, <3>3 DEF Go, At, Advance, Final
    <3>4. CASE ~Go
      <4>1. Advance /\ Now.call \notin Final
        BY <1>4, <3>4 DEF PlainStep, Install, SendSelf, SleepOver, Assign, SetJump, Type, At, Final
      <4> QED
        BY <3>2, <4>1 DEF Advance, Final
    <3> QED
      BY <3>3, <3>4
  <2>3. stack' = [stack EXCEPT ![Len(stack)] = gone(n)]
    BY <1>1, <2>2, GoToStack
  <2>4. gone(n).at = Top.at /\ gone(n).mask = Top.mask /\ gone(n).pc = n /\ ~gone(n).waits
    BY <1>2 DEF Frames
  <2> HIDE DEF gone
  <2> QED
    BY <1>1, <1>2, <2>1, <2>2, <2>3, <2>4 DEF Waiting
<1> QED
  BY <1>3, <1>4

LEMMA ReturnFrames ==
  ASSUME KernelInv, Return
  PROVE  /\ Len(stack) \in Nat /\ Len(stack) >= 2 /\ Len(stack') = Len(stack) - 1
         /\ \A k \in 1..(Len(stack) - 1) :
              /\ stack'[k].at = stack[k].at /\ stack'[k].mask = stack[k].mask
              /\ k < Len(stack) - 1 \/ ~stack[k].waits => stack'[k] = stack[k]
              /\ k = Len(stack) - 1 /\ stack[k].waits =>
                   stack'[k].pc = stack[k].pc + 1 /\ ~stack'[k].waits
<1> DEFINE n == Len(stack) - 1
           below == stack[n]
           frame == IF below.waits THEN [below EXCEPT !.pc = @ + 1, !.waits = FALSE] ELSE below
<1>1. /\ Len(stack) >= 2
      /\ frame.at = below.at /\ frame.mask = below.mask
      /\ ~below.waits => frame = below
      /\ below.waits => frame.pc = below.pc + 1 /\ ~frame.waits
      /\ stack' = [k \in 1..n |-> IF k = n THEN frame ELSE stack[k]]
  BY ReturnStack
<1>2. Len(stack) \in Nat
  BY TopProps
<1>3. n \in Nat /\ Len(stack') = n
  BY <1>1, <1>2
<1> HIDE DEF frame
<1>4. ASSUME NEW k \in 1..n
      PROVE  /\ stack'[k].at = stack[k].at /\ stack'[k].mask = stack[k].mask
             /\ k < n \/ ~stack[k].waits => stack'[k] = stack[k]
             /\ k = n /\ stack[k].waits => stack'[k].pc = stack[k].pc + 1 /\ ~stack'[k].waits
  <2>1. stack'[k] = IF k = n THEN frame ELSE stack[k]
    BY <1>1
  <2>2. CASE k = n
    BY <1>1, <2>1, <2>2
  <2>3. CASE k < n
    BY <2>1, <2>3
  <2> QED
    BY <1>3, <2>2, <2>3
<1> QED
  BY <1>1, <1>2, <1>3, <1>4

LEMMA ChangeMaskStack ==
  ASSUME KernelInv, ChangeMask
  PROVE  /\ Len(stack') = Len(stack)
         /\ \A k \in 1..(Len(stack) - 1) : stack'[k] = stack[k]
         /\ stack'[Len(stack)].at = Top.at /\ stack'[Len(stack)].pc = Top.pc + 1
         /\ stack'[Len(stack)].mask =
              IF Now.call = "restore" THEN old_mask ELSE (Top.mask \ Now.off) \cup Now.on
         /\ ~stack'[Len(stack)].waits
<1> DEFINE new == IF Now.call = "restore" THEN old_mask ELSE (Top.mask \ Now.off) \cup Now.on
           frame == [Top EXCEPT !.pc = @ + 1, !.mask = new]
<1>1. ~Top.waits /\ stack' = Append(Front(stack), frame)
  BY DEF ChangeMask, At
<1>2. Top \in Frames /\ stack \in Seq(Frames) /\ Len(stack) \in Nat \ {0} /\ Top.pc + 1 \in Nat
  BY TopProps DEF KernelInv, StackOK, FrameOK
<1>3. new \in SUBSET Signals
  <2>1. Now.call # "restore" => Now.on \subseteq Signals
    BY TopProps DEF ChangeMask, At, CallOK
  <2> QED
    BY <1>2, <2>1 DEF KernelInv, Frames
<1> HIDE DEF new
<1>4. frame.at = Top.at /\ frame.waits = Top.waits
  BY <1>2, <1>3 DEF Frames
<1>5. frame.pc = Top.pc + 1 /\ frame.mask = new
  BY <1>2, <1>3 DEF Frames
<1>6. frame \in Frames
  BY <1>2, <1>3 DEF Frames
<1> HIDE DEF frame
<1>7. stack' = [stack EXCEPT ![Len(stack)] = frame]
  BY <1>1, <1>2, <1>6, LastReplaced DEF Front
<1> QED
  BY <1>1, <1>2, <1>4, <1>5, <1>7 DEF new
LEMMA LongJumpStack ==
  ASSUME KernelInv, LongJump
  PROVE  LET b == buffers[Now.buf]
         IN  /\ Now.call = "longjmp" /\ Now.buf \in Buffers
             /\ UNCHANGED <<prog, pending, action, buffers, ready, armed>>
             /\ b.set => /\ UNCHANGED state /\ Len(stack') = 1
                         /\ stack'[1].pc = b.pc /\ ~stack'[1].waits
                         /\ stack'[1].mask = IF b.saves THEN b.mask ELSE Top.mask
<1> DEFINE b == buffers[Now.buf]
           m == IF b.saves THEN b.mask ELSE Top.mask
           frame == [stack[1] EXCEPT !.pc = b.pc, !.waits = FALSE, !.mask = m]
<1>1. Now.call = "longjmp" /\ UNCHANGED <<prog, pending, action, buffers, ready, armed>>
  BY DEF LongJump, At
<1>2. Now.buf \in Buffers
  BY <1>1, TopProps DEF CallOK
<1>3. stack[1] \in Frames
  BY DEF KernelInv, StackOK, FrameOK
<1>4. frame.pc = b.pc /\ ~frame.waits /\ frame.mask = m
  BY <1>3 DEF Frames
<1>5. b.set => stack' = <<frame>> /\ UNCHANGED state
  BY DEF LongJump
<1> HIDE DEF frame
<1>6. b.set => Len(stack') = 1 /\ stack'[1] = frame
  BY <1>5
<1> QED
  BY <1>1, <1>2, <1>4, <1>5, <1>6

\* Only a jump to a buffer that is not set is undefined.
LEMMA StateStays ==
  ASSUME [Next]_vars, ~LongJump, state # "undefined"
  PROVE  state' # "undefined"
  BY DEF Next, Run, vars, Install, ChangeMask, SendSelf, Wait, SleepOver, Go, Assign, SetJump,
         Return, End, Deliver, Ring, Type, Send

-----------------------------------------------------------------------------
(***************************************************************************)
(* sigaction3: the two handlers never interrupt one another.               *)
(***************************************************************************)

LEMMA Calls_sigaction3 ==
  ASSUME Program = Exercises, prog = "sigaction3",
         NEW at \in DOMAIN Routines, NEW n \in DOMAIN Routines[at]
  PROVE  LET c == Routines[at][n]
         IN  /\ at \in {"main", "ssu_signal_handler1", "ssu_signal_handler2"}
             /\ c.call \in {"sigaction", "pause", "sleep", "exit", "return"}
             /\ c.call = "sigaction" =>
                  \/ c.sig = "INT" /\ c.to = "ssu_signal_handler1" /\ c.masks = {{"QUIT"}}
                  \/ c.sig = "QUIT" /\ c.to = "ssu_signal_handler2" /\ c.masks = {{"INT"}}
<1>1. Routines = sigaction3
  BY DEF Routines, Exercises
<1>2. at \in {"main", "ssu_signal_handler1", "ssu_signal_handler2"}
  BY <1>1 DEF sigaction3
<1>3. CASE at = "main"
  <2>1. Routines[at] = <<Handle("INT", "ssu_signal_handler1", {{"QUIT"}}, AnyFlags),
                         sigaction("QUIT", "ssu_signal_handler2", {"INT"}), pause, exit>>
    BY <1>1, <1>3 DEF sigaction3
  <2>2. n \in 1..4
    BY <2>1
  <2> QED
    BY <1>2, <2>1, <2>2 DEF Handle, sigaction, pause, exit, Call
<1>4. CASE at # "main"
  <2>1. Routines[at] = <<sleep, return>>
    BY <1>1, <1>2, <1>4 DEF sigaction3
  <2>2. n \in 1..2
    BY <2>1
  <2> QED
    BY <1>2, <2>1, <2>2 DEF sleep, return, Call
<1> QED
  BY <1>3, <1>4

\* Each handler is set up to block the signal of the other, runs with it blocked, and
\* everything above main is the same handler.
Apart3 ==
  prog = "sigaction3" =>
    /\ \A s \in Signals :
         /\ action[s].to = "ssu_signal_handler1" => s = "INT" /\ "QUIT" \in action[s].mask
         /\ action[s].to = "ssu_signal_handler2" => s = "QUIT" /\ "INT" \in action[s].mask
    /\ \A k \in 2..Len(stack) :
         /\ stack[k].at = "ssu_signal_handler1" => "QUIT" \in stack[k].mask
         /\ stack[k].at = "ssu_signal_handler2" => "INT" \in stack[k].mask
    /\ \A k, l \in 2..Len(stack) : stack[k].at = stack[l].at

LEMMA InitApart3 == Init => Apart3
<1> SUFFICES ASSUME Init PROVE Apart3
  OBVIOUS
<1>1. Len(stack) = 1 /\ \A s \in Signals : action[s] = default
  BY DEF Init
<1> QED
  BY <1>1 DEF Apart3, default

LEMMA NextApart3 ==
  ASSUME Program = Exercises, KernelInv, Apart3, [Next]_vars
  PROVE  Apart3'
<1>1. UNCHANGED prog
  BY ProgramStays
<1>2. CASE prog # "sigaction3"
  BY <1>1, <1>2 DEF Apart3
<1> SUFFICES ASSUME prog = "sigaction3" PROVE Apart3'
  BY <1>2
<1>3. /\ Now.call \in {"sigaction", "pause", "sleep", "exit", "return"}
      /\ Now.call = "sigaction" =>
           \/ Now.sig = "INT" /\ Now.to = "ssu_signal_handler1" /\ Now.masks = {{"QUIT"}}
           \/ Now.sig = "QUIT" /\ Now.to = "ssu_signal_handler2" /\ Now.masks = {{"INT"}}
  BY TopProps, Calls_sigaction3
<1>4. Len(stack) \in Nat \ {0} /\ stack \in Seq(Frames)
  BY TopProps DEF KernelInv, StackOK
<1>5. CASE PlainStep
  <2>1. /\ Len(stack') = Len(stack)
        /\ \A k \in 1..Len(stack) : stack'[k].at = stack[k].at /\ stack'[k].mask = stack[k].mask
    BY <1>5, PlainStack
  <2>2. \A s \in Signals :
          /\ action'[s].to = "ssu_signal_handler1" => s = "INT" /\ "QUIT" \in action'[s].mask
          /\ action'[s].to = "ssu_signal_handler2" => s = "QUIT" /\ "INT" \in action'[s].mask
    <3>1. CASE Install
      <4>1. PICK m \in Now.masks, f \in Now.flags :
              action' = [action EXCEPT ![Now.sig] = [to |-> Now.to, mask |-> m, flags |-> f]]
        BY <3>1 DEF Install
      <4> QED
        BY <1>3, <3>1, <4>1 DEF Install, At, Apart3, KernelInv, ActionOK
    <3>2. CASE ~Install
      BY <1>5, <3>2 DEF PlainStep, SendSelf, Wait, SleepOver, Go, Assign, SetJump, Type, Apart3
    <3> QED
      BY <3>1, <3>2
  <2> QED
    BY <1>1, <1>4, <2>1, <2>2 DEF Apart3
<1>6. CASE StillStep
  BY <1>6, StillStack DEF Apart3
<1>7. CASE Return
  <2>1. /\ Len(stack) >= 2
        /\ Len(stack') = Len(stack) - 1
        /\ \A k \in 1..(Len(stack) - 1) : stack'[k].at = stack[k].at /\ stack'[k].mask = stack[k].mask
    BY <1>7, ReturnFrames
  <2>2. \A k \in 2..Len(stack') : k \in 2..Len(stack) /\ k \in 1..(Len(stack) - 1)
    BY <1>4, <2>1
  <2>3. \A k \in 2..Len(stack') :
          /\ stack'[k].at = "ssu_signal_handler1" => "QUIT" \in stack'[k].mask
          /\ stack'[k].at = "ssu_signal_handler2" => "INT" \in stack'[k].mask
    BY <2>1, <2>2 DEF Apart3
  <2>4. \A k, l \in 2..Len(stack') : stack'[k].at = stack'[l].at
    BY <2>1, <2>2 DEF Apart3
  <2>5. action' = action
    BY <1>7 DEF Return
  <2> QED
    BY <1>1, <2>3, <2>4, <2>5 DEF Apart3
<1>8. ASSUME NEW s \in Signals, Deliver(s)
      PROVE  Apart3'
  <2>1. CASE UNCHANGED <<stack, action>>
    BY <1>1, <2>1 DEF Apart3
  <2>2. CASE ~UNCHANGED <<stack, action>>
    <3> DEFINE itself == IF "nodefer" \in action[s].flags THEN {} ELSE {s}
               frame  == Frame(action[s].to, mask \cup action[s].mask \cup itself)
    <3>1. /\ action[s].to \in Handlers(Routines)
          /\ stack' = Append(stack, frame)
          /\ action' = action \/ action' = [action EXCEPT ![s] = default]
      BY <1>8, <2>2, DeliverStack
    <3>2. action[s].to \in {"ssu_signal_handler1", "ssu_signal_handler2"}
      <4>1. action[s].to \in DOMAIN Routines /\ action[s].to # "main"
        BY <3>1 DEF Handlers
      <4>2. 1 \in DOMAIN Routines[action[s].to]
        BY <4>1, RoutineProps DEF KernelInv
      <4> QED
        BY <4>1, <4>2, Calls_sigaction3
    <3>3. mask = Top.mask
      BY <1>3 DEF mask
    <3>4. s \notin Top.mask /\ Top = stack[Len(stack)]
      BY <1>8, <3>3, TopProps DEF Deliver
    <3>5. frame.at = action[s].to /\ action[s].mask \subseteq frame.mask
      BY DEF Frame
    <3> HIDE DEF frame
    <3>6. /\ Len(stack') = Len(stack) + 1
          /\ \A k \in 1..(Len(stack) + 1) :
               stack'[k] = IF k = Len(stack) + 1 THEN frame ELSE stack[k]
      BY <1>4, <3>1
    <3>7. \A k \in 2..Len(stack) : stack[k].at = action[s].to
      <4>1. \A k \in 2..Len(stack) : stack[k].at \in {"ssu_signal_handler1", "ssu_signal_handler2"}
        <5> TAKE k \in 2..Len(stack)
        <5>1. FrameOK(stack[k]) /\ stack[k].at # "main"
          BY <1>4 DEF KernelInv, StackOK
        <5> QED
          BY <5>1, Calls_sigaction3 DEF FrameOK
      <4>2. CASE Len(stack) = 1
        BY <4>2
      <4>3. CASE Len(stack) >= 2
        <5>1. stack[Len(stack)].at = action[s].to
          BY <1>4, <3>2, <3>4, <4>1, <4>3 DEF Apart3
        <5> QED
          BY <1>4, <4>3, <5>1 DEF Apart3
      <4> QED
        BY <1>4, <4>2, <4>3
    <3>8. \A k \in 2..Len(stack') :
            /\ stack'[k].at = "ssu_signal_handler1" => "QUIT" \in stack'[k].mask
            /\ stack'[k].at = "ssu_signal_handler2" => "INT" \in stack'[k].mask
      BY <1>4, <3>5, <3>6 DEF Apart3
    <3>9. \A k, l \in 2..Len(stack') : stack'[k].at = stack'[l].at
      BY <1>4, <3>5, <3>6, <3>7
    <3>10. \A t \in Signals : action'[t] \in {action[t], default}
      BY <3>1 DEF KernelInv, ActionOK
    <3> QED
      BY <1>1, <3>8, <3>9, <3>10 DEF Apart3, default
  <2> QED
    BY <2>1, <2>2
<1>9. ~ChangeMask /\ ~LongJump
  BY <1>3 DEF ChangeMask, LongJump, At
<1> QED
  BY <1>5, <1>6, <1>7, <1>8, <1>9, Steps
-----------------------------------------------------------------------------
(***************************************************************************)
(* sigsuspend2: the critical region.                                       *)
(***************************************************************************)

LEMMA Calls_sigsuspend2 ==
  ASSUME Program = Exercises, prog = "sigsuspend2"
  PROVE  /\ DOMAIN Routines = {"main", "ssu_func"}
         /\ DOMAIN Routines["main"] = 1..8 /\ DOMAIN Routines["ssu_func"] = 1..2
         /\ LET c == Routines["main"]
            IN  /\ c[1].call = "sigaction" /\ c[1].sig = "INT" /\ c[1].to = "ssu_func"
                /\ c[1].masks = {{}} /\ c[1].flags = {{}}
                /\ c[2].call = "sigprocmask" /\ c[2].on = {"INT"} /\ c[2].off = {}
                /\ c[3].call = "show" /\ c[3].text = "in_critical_region"
                /\ c[4].call = "sigsuspend" /\ c[4].set = {"USR1"}
                /\ c[5].call = "show" /\ c[5].text = "after_return_from_sigsuspend"
                /\ c[6].call = "restore"
                /\ c[7].call = "show" /\ c[7].text = "program_exit"
                /\ c[8].call = "exit"
         /\ LET c == Routines["ssu_func"]
            IN  c[1].call = "show" /\ c[1].text = "in_ssu_func" /\ c[2].call = "return"
<1>1. Routines = sigsuspend2
  BY DEF Routines, Exercises
<1>2. /\ DOMAIN Routines = {"main", "ssu_func"}
      /\ Routines["main"] = <<signal("INT", "ssu_func"), Block({"INT"}), show("in_critical_region"),
              sigsuspend({"USR1"}), show("after_return_from_sigsuspend"), restore,
              show("program_exit"), exit>>
      /\ Routines["ssu_func"] = <<show("in_ssu_func"), return>>
  BY <1>1 DEF sigsuspend2
<1>3. /\ DOMAIN Routines["main"] = 1..8 /\ Routines["main"][1] = signal("INT", "ssu_func")
      /\ Routines["main"][2] = Block({"INT"}) /\ Routines["main"][3] = show("in_critical_region")
      /\ Routines["main"][4] = sigsuspend({"USR1"})
      /\ Routines["main"][5] = show("after_return_from_sigsuspend") /\ Routines["main"][6] = restore
      /\ Routines["main"][7] = show("program_exit") /\ Routines["main"][8] = exit
  BY <1>2
<1>4. /\ DOMAIN Routines["ssu_func"] = 1..2 /\ Routines["ssu_func"][1] = show("in_ssu_func")
      /\ Routines["ssu_func"][2] = return
  BY <1>2
<1> HIDE DEF Routines
<1> QED
  BY <1>2, <1>3, <1>4 DEF signal, Handle, Block, Mask, show, sigsuspend, restore, exit, return, Call

\* SIGINT is blocked in the region, and ssu_func gets into it only from sigsuspend, with
\* the mask of sigsuspend.
Region ==
  prog = "sigsuspend2" =>
    /\ old_mask = {}
    /\ \A s \in Signals :
         \/ action[s].to = "default"
         \/ s = "INT" /\ action[s].to = "ssu_func" /\ action[s].mask = {} /\ action[s].flags = {}
    /\ stack[1].mask = IF stack[1].pc \in 3..6 THEN {"INT"} ELSE {}
    /\ stack[1].waits => stack[1].pc = 4
    /\ Len(stack) <= 2
    /\ Len(stack) = 2 =>
         /\ stack[2].at = "ssu_func" /\ "INT" \in stack[2].mask
         /\ stack[1].pc \in 3..6 => stack[1].waits
         /\ stack[1].waits => stack[2].mask = {"INT", "USR1"}

LEMMA InitRegion == Init => Region
<1> SUFFICES ASSUME Init PROVE Region
  OBVIOUS
<1>1. stack = <<Frame("main", {})>> /\ old_mask = {} /\ \A s \in Signals : action[s].to = "default"
  BY DEF Init, default
<1>2. Frame("main", {}).pc = 1 /\ Frame("main", {}).mask = {} /\ ~Frame("main", {}).waits
  BY DEF Frame
<1> HIDE DEF Init
<1> QED
  BY <1>1, <1>2 DEF Region

LEMMA NextRegion ==
  ASSUME Program = Exercises, KernelInv, Region, [Next]_vars
  PROVE  Region'
<1>1. UNCHANGED prog
  BY ProgramStays
<1>2. CASE prog # "sigsuspend2"
  BY <1>1, <1>2 DEF Region
<1> SUFFICES ASSUME prog = "sigsuspend2" PROVE Region'
  BY <1>2
<1> DEFINE main == stack[1]
<1>3. /\ Len(stack) \in {1, 2} /\ stack \in Seq(Frames) /\ Top = stack[Len(stack)]
      /\ Len(stack) = 1 => Top.at = "main"
      /\ Len(stack) = 2 => Top.at = "ssu_func"
  <2>1. Len(stack) \in Nat \ {0} /\ Top = stack[Len(stack)] /\ stack \in Seq(Frames)
    BY TopProps DEF KernelInv, StackOK
  <2>2. stack[1].at = "main"
    BY <2>1 DEF KernelInv, StackOK
  <2>3. Len(stack) <= 2 /\ (Len(stack) = 2 => stack[2].at = "ssu_func")
    BY DEF Region
  <2> QED
    BY <2>1, <2>2, <2>3
<1>4. Now = Routines[Top.at][Top.pc] /\ Top.pc \in DOMAIN Routines[Top.at]
  BY TopProps
<1>5. Len(stack) = 1 => Now = Routines["main"][main.pc] /\ main.pc \in 1..8
  BY <1>3, <1>4, Calls_sigsuspend2
<1>6. Len(stack) = 2 => Now.call \in {"show", "return"} /\ ~Top.waits
  BY <1>3, <1>4, TopProps, Calls_sigsuspend2 DEF FrameOK, Waiting
<1>7. CASE PlainStep
  <2>1. UNCHANGED <<prog, state, old_mask>> /\ Len(stack') = Len(stack)
    BY <1>7, PlainStack
  <2>2. CASE Len(stack) = 1
    <3>1. /\ stack'[1].mask = main.mask
          /\ IF Now.call \in Waiting /\ ~main.waits
             THEN stack'[1].pc = main.pc /\ stack'[1].waits
             ELSE ~stack'[1].waits /\ stack'[1].pc = main.pc + 1
      BY <1>3, <1>5, <1>7, <2>2, PlainStack, Calls_sigsuspend2
    <3>2. main.pc \in {1, 3, 4, 5, 7} /\ (main.pc = 4 => ~main.waits)
      BY <1>3, <1>5, <1>7, <2>2, PlainCall, Calls_sigsuspend2
    <3>3. \A s \in Signals :
            \/ action'[s].to = "default"
            \/ /\ s = "INT" /\ action'[s].to = "ssu_func"
               /\ action'[s].mask = {} /\ action'[s].flags = {}
      <4>1. CASE Install
        <5>1. main.pc = 1
          BY <1>5, <2>2, <4>1, Calls_sigsuspend2 DEF Install, At
        <5>2. PICK m \in Now.masks, f \in Now.flags :
                action' = [action EXCEPT ![Now.sig] = [to |-> Now.to, mask |-> m, flags |-> f]]
          BY <4>1 DEF Install
        <5>3. Now.sig = "INT" /\ Now.to = "ssu_func" /\ m = {} /\ f = {}
          BY <1>5, <2>2, <5>1, Calls_sigsuspend2
        <5> QED
          BY <5>2, <5>3 DEF Region, KernelInv, ActionOK
      <4>2. CASE ~Install
        BY <1>7, <4>2 DEF PlainStep, SendSelf, Wait, SleepOver, Go, Assign, SetJump, Type, Region
      <4> QED
        BY <4>1, <4>2
    <3> QED
      BY <1>1, <1>5, <2>1, <2>2, <3>1, <3>2, <3>3, Calls_sigsuspend2 DEF Region, Waiting
  <2>3. CASE Len(stack) = 2
    <3>1. stack'[1] = stack[1] /\ stack'[2].at = "ssu_func" /\ stack'[2].mask = stack[2].mask
      BY <1>3, <1>7, <2>3, PlainStack
    <3>2. UNCHANGED action
      BY <1>6, <1>7, <2>3 DEF PlainStep, Install, SendSelf, Wait, SleepOver, Go, Assign, SetJump, Type, At
    <3> QED
      BY <1>1, <2>1, <2>3, <3>1, <3>2 DEF Region
  <2> QED
    BY <1>3, <2>2, <2>3
<1>8. CASE StillStep
  BY <1>8, StillStack DEF Region
<1>9. CASE ChangeMask
  <2>1. Now.call \in {"sigprocmask", "restore"}
    BY <1>9 DEF ChangeMask, At
  <2>2. Len(stack) = 1 /\ main.pc \in {2, 6}
    BY <1>3, <1>5, <1>6, <2>1, Calls_sigsuspend2
  <2>3. /\ Len(stack') = 1 /\ stack'[1].pc = main.pc + 1 /\ ~stack'[1].waits
        /\ stack'[1].mask = IF Now.call = "restore" THEN {} ELSE (main.mask \ Now.off) \cup Now.on
    BY <1>3, <1>9, <2>2, ChangeMaskStack DEF Region
  <2>4. UNCHANGED action /\ old_mask' = IF Now.call = "restore" THEN {} ELSE main.mask
    BY <1>3, <1>9, <2>2 DEF ChangeMask, Region
  <2>5. CASE main.pc = 2
    BY <1>1, <1>5, <2>2, <2>3, <2>4, <2>5, Calls_sigsuspend2 DEF Region
  <2>6. CASE main.pc = 6
    BY <1>1, <1>5, <2>2, <2>3, <2>4, <2>6, Calls_sigsuspend2 DEF Region
  <2> QED
    BY <2>2, <2>5, <2>6
<1>10. CASE Return
  <2>1. Len(stack) = 2 /\ Len(stack') = 1 /\ UNCHANGED <<action, old_mask>>
    BY <1>3, <1>10, ReturnFrames DEF Return
  <2>2. /\ stack'[1].mask = main.mask
        /\ ~main.waits => stack'[1] = main
        /\ main.waits => stack'[1].pc = main.pc + 1 /\ ~stack'[1].waits
    BY <1>10, <2>1, ReturnFrames
  <2>3. CASE main.waits
    BY <1>1, <2>1, <2>2, <2>3 DEF Region
  <2>4. CASE ~main.waits
    BY <1>1, <2>1, <2>2, <2>4 DEF Region
  <2> QED
    BY <2>3, <2>4
<1>11. ASSUME NEW s \in Signals, Deliver(s)
       PROVE  Region'
  <2> DEFINE itself == IF "nodefer" \in action[s].flags THEN {} ELSE {s}
             frame  == Frame(action[s].to, mask \cup action[s].mask \cup itself)
  <2>0. UNCHANGED old_mask /\ s \notin mask
    BY <1>11 DEF Deliver
  <2>1. CASE UNCHANGED <<stack, action>>
    BY <1>1, <2>0, <2>1 DEF Region
  <2>2. CASE ~UNCHANGED <<stack, action>>
    <3>1. /\ action[s].to \in Handlers(Routines)
          /\ stack' = Append(stack, frame)
          /\ action' = action \/ action' = [action EXCEPT ![s] = default]
      BY <1>11, <2>2, DeliverStack
    <3>2. action[s].to # "default"
      BY <1>11, <2>2 DEF Deliver
    <3>3. s = "INT" /\ action[s].to = "ssu_func" /\ action[s].mask = {} /\ action[s].flags = {}
      BY <3>2 DEF Region
    <3>4. Len(stack) = 1
      <4>1. CASE Len(stack) = 2
        BY <1>3, <1>6, <2>0, <3>3, <4>1 DEF mask, Region
      <4> QED
        BY <1>3, <4>1
    <3>5. mask = IF main.waits THEN {"USR1"} ELSE main.mask
      <4>1. Top = main
        BY <1>3, <3>4
      <4>2. CASE main.waits
        <5>1. Now.call = "sigsuspend" /\ Now.set = {"USR1"}
          BY <1>5, <3>4, <4>2, Calls_sigsuspend2 DEF Region
        <5> QED
          BY <4>1, <4>2, <5>1 DEF mask
      <4>3. CASE ~main.waits
        BY <4>1, <4>3 DEF mask
      <4> QED
        BY <4>2, <4>3
    <3>6. frame.at = "ssu_func" /\ frame.mask = mask \cup {"INT"}
      BY <3>3 DEF Frame
    <3>7. main.pc \in 3..6 => main.waits
      BY <2>0, <3>3, <3>5 DEF Region
    <3> HIDE DEF frame
    <3>8. Len(stack') = 2 /\ stack'[1] = main /\ stack'[2] = frame
      <4>1. /\ Len(Append(stack, frame)) = Len(stack) + 1
            /\ \A k \in 1..Len(stack) : Append(stack, frame)[k] = stack[k]
            /\ Append(stack, frame)[Len(stack) + 1] = frame
        BY <1>3, Pushed
      <4>2. 1 \in 1..Len(stack) /\ Len(stack) + 1 = 2
        BY <3>4
      <4> QED
        BY <3>1, <4>1, <4>2
    <3>9. \A t \in Signals : action'[t] \in {action[t], default}
      BY <3>1 DEF KernelInv, ActionOK
    <3>10. main.waits => frame.mask = {"INT", "USR1"}
      BY <3>5, <3>6
    <3> QED
      BY <1>1, <2>0, <3>4, <3>6, <3>7, <3>8, <3>9, <3>10 DEF Region, default
  <2> QED
    BY <2>1, <2>2
<1>12. ~LongJump
  BY <1>3, <1>5, <1>6, Calls_sigsuspend2 DEF LongJump, At
<1> QED
  BY <1>7, <1>8, <1>9, <1>10, <1>11, <1>12, Steps
-----------------------------------------------------------------------------
(***************************************************************************)
(* sigaction2: the signal waits from kill() to the second sigprocmask().   *)
(***************************************************************************)

LEMMA Calls_sigaction2 ==
  ASSUME Program = Exercises, prog = "sigaction2"
  PROVE  /\ DOMAIN Routines = {"main", "ssu_signal_handler"}
         /\ DOMAIN Routines["main"] = 1..7 /\ DOMAIN Routines["ssu_signal_handler"] = {1}
         /\ LET c == Routines["main"]
            IN  /\ c[1].call = "sigaction" /\ c[1].sig = "USR1" /\ c[1].to = "ssu_signal_handler"
                /\ c[2].call = "sigprocmask" /\ c[2].on = {"USR1"} /\ c[2].off = Signals
                /\ c[3].call = "kill" /\ c[3].sig = "USR1"
                /\ c[4].call = "show" /\ c[4].text = "after_kill"
                /\ c[5].call = "sigprocmask" /\ c[5].on = {} /\ c[5].off = Signals
                /\ c[6].call = "show" /\ c[6].text = "no_longer_blocked"
                /\ c[7].call = "exit"
         /\ Routines["ssu_signal_handler"][1].call = "return"
<1>1. Routines = sigaction2
  BY DEF Routines, Exercises
<1>2. /\ DOMAIN Routines = {"main", "ssu_signal_handler"}
      /\ Routines["main"] = <<sigaction("USR1", "ssu_signal_handler", {}), SetMask({"USR1"}), kill("USR1"),
              show("after_kill"), SetMask({}), show("no_longer_blocked"), exit>>
      /\ Routines["ssu_signal_handler"] = <<return>>
  BY <1>1 DEF sigaction2
<1>3. /\ DOMAIN Routines["main"] = 1..7
      /\ Routines["main"][1] = sigaction("USR1", "ssu_signal_handler", {})
      /\ Routines["main"][2] = SetMask({"USR1"}) /\ Routines["main"][3] = kill("USR1")
      /\ Routines["main"][4] = show("after_kill") /\ Routines["main"][5] = SetMask({})
      /\ Routines["main"][6] = show("no_longer_blocked") /\ Routines["main"][7] = exit
  BY <1>2
<1>4. DOMAIN Routines["ssu_signal_handler"] = {1} /\ Routines["ssu_signal_handler"][1] = return
  BY <1>2
<1> HIDE DEF Routines
<1> QED
  BY <1>2, <1>3, <1>4 DEF sigaction, Handle, SetMask, Mask, kill, show, exit, return, Call

\* While main has SIGUSR1 blocked no handler runs, and once sent it waits.
Held ==
  prog = "sigaction2" =>
    /\ \A s \in Signals : action[s].to = "default" \/ s = "USR1"
    /\ stack[1].pc \in 3..5 => Len(stack) = 1 /\ stack[1].mask = {"USR1"}
    /\ stack[1].pc \in 4..5 => "USR1" \in pending
    /\ stack[1].pc = 6 => stack[1].mask = {}

LEMMA InitHeld == Init => Held
<1> SUFFICES ASSUME Init PROVE Held
  OBVIOUS
<1>1. stack = <<Frame("main", {})>> /\ \A s \in Signals : action[s].to = "default"
  BY DEF Init, default
<1>2. Frame("main", {}).pc = 1
  BY DEF Frame
<1> HIDE DEF Init
<1> QED
  BY <1>1, <1>2 DEF Held

LEMMA NextHeld ==
  ASSUME Program = Exercises, KernelInv, Held, [Next]_vars
  PROVE  Held'
<1>1. UNCHANGED prog
  BY ProgramStays
<1>2. CASE prog # "sigaction2"
  BY <1>1, <1>2 DEF Held
<1> SUFFICES ASSUME prog = "sigaction2" PROVE Held'
  BY <1>2
<1> DEFINE main == stack[1]
<1>3. /\ Len(stack) \in Nat \ {0} /\ stack \in Seq(Frames) /\ Top = stack[Len(stack)]
      /\ Len(stack) = 1 <=> Top.at = "main"
      /\ main.at = "main" /\ main.pc \in Nat /\ main \in Frames
  <2>1. Len(stack) \in Nat \ {0} /\ Top = stack[Len(stack)] /\ stack \in Seq(Frames)
    BY TopProps DEF KernelInv, StackOK
  <2>2. main.at = "main" /\ (Len(stack) = 1 <=> Top.at = "main")
    <3>1. 1 \in 1..Len(stack) /\ Len(stack) \in 1..Len(stack)
      BY <2>1
    <3>2. \A k \in 1..Len(stack) : k = 1 <=> stack[k].at = "main"
      BY DEF KernelInv, StackOK
    <3> QED
      BY <2>1, <3>1, <3>2
  <2>3. main \in Frames
    BY <2>1
  <2> QED
    BY <2>1, <2>2, <2>3 DEF Frames
<1>4. Now = Routines[Top.at][Top.pc] /\ Top.at \in DOMAIN Routines /\ Top.pc \in DOMAIN Routines[Top.at]
  BY TopProps
<1>5. Len(stack) = 1 => Now = Routines["main"][main.pc] /\ main.pc \in 1..7
  BY <1>3, <1>4, Calls_sigaction2
<1>6. Len(stack) # 1 => Now.call = "return"
  BY <1>3, <1>4, Calls_sigaction2
<1>7. ~main.waits
  <2>1. FrameOK(main)
    BY <1>3 DEF KernelInv, StackOK
  <2>2. main.pc \in 1..7 /\ (main.waits => Routines["main"][main.pc].call \in Waiting)
    BY <1>3, <2>1, Calls_sigaction2 DEF FrameOK
  <2> QED
    BY <2>2, Calls_sigaction2 DEF Waiting
<1>8. CASE PlainStep
  <2>1. Len(stack) = 1 /\ main.pc \in {1, 3, 4, 6}
    BY <1>3, <1>5, <1>6, <1>8, PlainCall, Calls_sigaction2
  <2>2. Len(stack') = 1 /\ stack'[1].mask = main.mask /\ stack'[1].pc = main.pc + 1
    BY <1>3, <1>5, <1>8, <2>1, PlainStack, Calls_sigaction2 DEF Waiting
  <2>3. \A s \in Signals : action'[s].to = "default" \/ s = "USR1"
    <3>1. CASE Install
      <4>1. PICK m \in Now.masks, f \in Now.flags :
              action' = [action EXCEPT ![Now.sig] = [to |-> Now.to, mask |-> m, flags |-> f]]
        BY <3>1 DEF Install
      <4>2. Now.sig = "USR1"
        BY <1>5, <2>1, <3>1, Calls_sigaction2 DEF Install, At
      <4> QED
        BY <4>1, <4>2 DEF Held, KernelInv, ActionOK
    <3>2. CASE ~Install
      BY <1>8, <3>2 DEF PlainStep, SendSelf, Wait, SleepOver, Go, Assign, SetJump, Type, Held
    <3> QED
      BY <3>1, <3>2
  <2>4. main.pc \in 3..5 => "USR1" \in pending'
    <3>1. main.pc = 3 => SendSelf /\ Now.sig = "USR1"
      BY <1>5, <1>8, <2>1, Calls_sigaction2
         DEF PlainStep, Install, SendSelf, Wait, SleepOver, Go, Assign, SetJump, Type, At
    <3>2. main.pc = 4 => Now.call = "show" /\ "USR1" \in pending
      BY <1>5, <2>1, Calls_sigaction2 DEF Held
    <3>3. Now.call = "show" => UNCHANGED pending
      BY <1>8 DEF PlainStep, Install, SendSelf, Wait, SleepOver, Go, Assign, SetJump, Type, At
    <3> QED
      BY <2>1, <3>1, <3>2, <3>3 DEF SendSelf
  <2> QED
    BY <1>1, <2>1, <2>2, <2>3, <2>4 DEF Held
<1>9. CASE StillStep
  <2>1. UNCHANGED <<prog, stack, action>> /\ pending \subseteq pending'
    BY <1>9 DEF StillStep, Ring, Send, End, vars
  <2> QED
    BY <2>1 DEF Held
<1>10. CASE ChangeMask
  <2>1. Now.call \in {"sigprocmask", "restore"}
    BY <1>10 DEF ChangeMask, At
  <2>2. Len(stack) = 1 /\ main.pc \in {2, 5} /\ Now.call = "sigprocmask" /\ Now.off = Signals
    BY <1>3, <1>5, <1>6, <2>1, Calls_sigaction2
  <2>3. /\ Len(stack') = 1 /\ stack'[1].pc = main.pc + 1
        /\ stack'[1].mask = (main.mask \ Signals) \cup Now.on
    BY <1>3, <1>10, <2>2, ChangeMaskStack
  <2>4. main.mask \subseteq Signals
    BY <1>3 DEF Frames
  <2>5. UNCHANGED <<action, pending>>
    BY <1>10 DEF ChangeMask
  <2>6. CASE main.pc = 2
    BY <1>1, <1>5, <2>2, <2>3, <2>4, <2>5, <2>6, Calls_sigaction2 DEF Held
  <2>7. CASE main.pc = 5
    BY <1>1, <1>5, <2>2, <2>3, <2>4, <2>5, <2>7, Calls_sigaction2 DEF Held
  <2> QED
    BY <2>2, <2>6, <2>7
<1>11. CASE Return
  <2>1. Len(stack) >= 2 /\ stack'[1] = main /\ UNCHANGED <<action, pending>>
    BY <1>3, <1>7, <1>11, ReturnFrames DEF Return
  <2> QED
    BY <1>1, <1>3, <2>1 DEF Held
<1>12. ASSUME NEW s \in Signals, Deliver(s)
       PROVE  Held'
  <2> DEFINE itself == IF "nodefer" \in action[s].flags THEN {} ELSE {s}
             frame  == Frame(action[s].to, mask \cup action[s].mask \cup itself)
  <2>0. s \notin mask /\ pending' = pending \ {s}
    BY <1>12 DEF Deliver
  <2>1. main.pc \in 3..5 => s # "USR1"
    BY <1>3, <1>7, <2>0 DEF mask, Held
  <2>2. CASE UNCHANGED <<stack, action>>
    BY <1>1, <2>0, <2>1, <2>2 DEF Held
  <2>3. CASE ~UNCHANGED <<stack, action>>
    <3>1. /\ stack' = Append(stack, frame)
          /\ action' = action \/ action' = [action EXCEPT ![s] = default]
      BY <1>12, <2>3, DeliverStack
    <3>2. action[s].to # "default"
      BY <1>12, <2>3 DEF Deliver
    <3>3. main.pc \notin 3..5
      BY <2>1, <3>2 DEF Held
    <3> HIDE DEF frame
    <3>4. stack'[1] = main
      BY <1>3, <3>1, Pushed
    <3>5. \A t \in Signals : action'[t] \in {action[t], default}
      BY <3>1 DEF KernelInv, ActionOK
    <3> QED
      BY <1>1, <3>3, <3>4, <3>5 DEF Held, default
  <2> QED
    BY <2>2, <2>3
<1>13. ~LongJump
  BY <1>3, <1>5, <1>6, Calls_sigaction2 DEF LongJump, At
<1> QED
  BY <1>8, <1>9, <1>10, <1>11, <1>12, <1>13, Steps
-----------------------------------------------------------------------------
(***************************************************************************)
(* sigsetjmp2: the jump out of ssu_func.                                   *)
(***************************************************************************)

LEMMA Calls_sigsetjmp2 ==
  ASSUME Program = Exercises, prog = "sigsetjmp2"
  PROVE  /\ DOMAIN Routines = {"main", "ssu_func", "ssu_alarm"}
         /\ DOMAIN Routines["main"] = 1..9 /\ DOMAIN Routines["ssu_func"] = 1..8
         /\ DOMAIN Routines["ssu_alarm"] = 1..2
         /\ LET c == Routines["main"]
            IN  /\ c[1].call = "sigaction" /\ c[1].sig = "USR1" /\ c[1].to = "ssu_func"
                /\ c[1].masks = {{}} /\ c[1].flags = {{}}
                /\ c[2].call = "sigaction" /\ c[2].sig = "ALRM" /\ c[2].to = "ssu_alarm"
                /\ c[2].masks = {{}} /\ c[2].flags = {{}}
                /\ c[3].call = "show" /\ c[3].text = "starting_main"
                /\ c[4].call = "setjmp" /\ c[4].buf = "jump_buf" /\ c[4].saves
                /\ c[5].call = "can_jump" /\ c[6].call = "pause"
                /\ c[7].call = "goto" /\ c[7].n = 6
                /\ c[8].call = "show" /\ c[8].text = "ending_main"
                /\ c[9].call = "exit"
         /\ LET c == Routines["ssu_func"]
            IN  /\ c[1].call = "unless" /\ c[1].what = "can_jump" /\ c[1].n = 8
                /\ c[2].call = "show" /\ c[2].text = "starting_ssu_func"
                /\ c[3].call = "alarm" /\ c[4].call = "wait_over"
                /\ c[5].call = "show" /\ c[5].text = "ending_ssu_func"
                /\ c[6].call = "can_jump" /\ ~c[6].value
                /\ c[7].call = "longjmp" /\ c[7].buf = "jump_buf"
                /\ c[8].call = "return"
         /\ LET c == Routines["ssu_alarm"]
            IN  c[1].call = "show" /\ c[1].text = "in_ssu_alarm" /\ c[2].call = "return"
<1>1. Routines = sigsetjmp2
  BY DEF Routines, Exercises
<1>2. /\ DOMAIN Routines = {"main", "ssu_func", "ssu_alarm"}
      /\ Routines["main"] = <<signal("USR1", "ssu_func"), signal("ALRM", "ssu_alarm"), show("starting_main"),
              setjmp("jump_buf", TRUE, 8), can_jump(TRUE), pause, goto(6),
              show("ending_main"), exit>>
      /\ Routines["ssu_func"] = <<unless("can_jump", 8), show("starting_ssu_func"), alarm, wait_over,
                  show("ending_ssu_func"), can_jump(FALSE), longjmp("jump_buf"), return>>
      /\ Routines["ssu_alarm"] = <<show("in_ssu_alarm"), return>>
  BY <1>1 DEF sigsetjmp2
<1>3. /\ DOMAIN Routines["main"] = 1..9 /\ Routines["main"][1] = signal("USR1", "ssu_func")
      /\ Routines["main"][2] = signal("ALRM", "ssu_alarm") /\ Routines["main"][3] = show("starting_main")
      /\ Routines["main"][4] = setjmp("jump_buf", TRUE, 8) /\ Routines["main"][5] = can_jump(TRUE)
      /\ Routines["main"][6] = pause /\ Routines["main"][7] = goto(6)
      /\ Routines["main"][8] = show("ending_main") /\ Routines["main"][9] = exit
  BY <1>2
<1>4. /\ DOMAIN Routines["ssu_func"] = 1..8 /\ Routines["ssu_func"][1] = unless("can_jump", 8)
      /\ Routines["ssu_func"][2] = show("starting_ssu_func") /\ Routines["ssu_func"][3] = alarm
      /\ Routines["ssu_func"][4] = wait_over /\ Routines["ssu_func"][5] = show("ending_ssu_func")
      /\ Routines["ssu_func"][6] = can_jump(FALSE) /\ Routines["ssu_func"][7] = longjmp("jump_buf")
      /\ Routines["ssu_func"][8] = return
  BY <1>2
<1>5. /\ DOMAIN Routines["ssu_alarm"] = 1..2 /\ Routines["ssu_alarm"][1] = show("in_ssu_alarm")
      /\ Routines["ssu_alarm"][2] = return
  BY <1>2
<1> HIDE DEF Routines
<1>6. Routines["main"][1].masks = {{}} /\ Routines["main"][2].masks = {{}}
  BY <1>3 DEF signal, Handle
<1>7. Routines["main"][1].flags = {{}} /\ Routines["main"][2].flags = {{}}
  BY <1>3 DEF signal, Handle
<1>8. LET c == Routines["main"]
      IN  /\ c[1].call = "sigaction" /\ c[1].sig = "USR1" /\ c[1].to = "ssu_func"
          /\ c[2].call = "sigaction" /\ c[2].sig = "ALRM" /\ c[2].to = "ssu_alarm"
          /\ c[3].call = "show" /\ c[3].text = "starting_main"
  BY <1>3 DEF signal, Handle, show
<1>9. LET c == Routines["main"]
      IN  /\ c[4].call = "setjmp" /\ c[4].buf = "jump_buf" /\ c[4].saves
          /\ c[5].call = "can_jump" /\ c[6].call = "pause" /\ c[7].call = "goto" /\ c[7].n = 6
          /\ c[8].call = "show" /\ c[8].text = "ending_main" /\ c[9].call = "exit"
  BY <1>3 DEF show, setjmp, can_jump, pause, goto, exit, Call
<1>10. LET c == Routines["ssu_func"]
       IN  /\ c[1].call = "unless" /\ c[1].what = "can_jump" /\ c[1].n = 8
           /\ c[2].call = "show" /\ c[2].text = "starting_ssu_func"
           /\ c[3].call = "alarm" /\ c[4].call = "wait_over"
           /\ c[5].call = "show" /\ c[5].text = "ending_ssu_func"
  BY <1>4 DEF unless, show, alarm, wait_over, Call
<1>11. LET c == Routines["ssu_func"]
       IN  /\ c[6].call = "can_jump" /\ ~c[6].value
           /\ c[7].call = "longjmp" /\ c[7].buf = "jump_buf" /\ c[8].call = "return"
  BY <1>4 DEF can_jump, longjmp, return, Call
<1>12. LET c == Routines["ssu_alarm"]
       IN  c[1].call = "show" /\ c[1].text = "in_ssu_alarm" /\ c[2].call = "return"
  BY <1>5 DEF show, return, Call
<1> QED
  BY <1>2, <1>3, <1>4, <1>5, <1>6, <1>7, <1>8, <1>9, <1>10, <1>11, <1>12

\* SIGUSR1 is handled only over main and SIGALRM only while ssu_func waits for it; whatever
\* leads to the longjmp comes after the setjmp, which saves the empty mask of main.
Jumps2 ==
  prog = "sigsetjmp2" =>
    /\ state # "undefined"
    /\ \A s \in Signals :
         \/ action[s].to = "default"
         \/ /\ action[s].mask = {} /\ action[s].flags = {}
            /\ \/ s = "USR1" /\ action[s].to = "ssu_func"
               \/ s = "ALRM" /\ action[s].to = "ssu_alarm"
    /\ stack[1].mask = {} /\ Len(stack) <= 3
    /\ Len(stack) >= 2 => stack[2].at = "ssu_func" /\ stack[2].mask = {"USR1"}
    /\ Len(stack) = 3 => stack[3].at = "ssu_alarm" /\ stack[3].mask = {"USR1", "ALRM"}
    /\ armed \/ "ALRM" \in pending => Len(stack) = 2
    /\ armed \/ "ALRM" \in pending \/ Len(stack) = 3 => stack[2].pc = 4
    /\ ~(armed /\ "ALRM" \in pending)
    /\ buffers["jump_buf"].set => buffers["jump_buf"].saves /\ buffers["jump_buf"].mask = {}
    /\ stack[1].pc >= 5 => buffers["jump_buf"].set
    /\ ready \/ (Len(stack) >= 2 /\ stack[2].pc \in 2..7) => buffers["jump_buf"].set

LEMMA InitJumps2 == Init => Jumps2
<1> SUFFICES ASSUME Init PROVE Jumps2
  OBVIOUS
<1>1. stack = <<Frame("main", {})>> /\ \A s \in Signals : action[s].to = "default"
  BY DEF Init, default
<1>2. ~buffers["jump_buf"].set
  BY DEF Init, unset, Buffers
<1>3. Frame("main", {}).mask = {} /\ Frame("main", {}).pc = 1
  BY DEF Frame
<1>4. state = "running" /\ ~armed /\ pending = {} /\ ~ready
  BY DEF Init
<1> HIDE DEF Init
<1>5. Len(stack) = 1 /\ stack[1].mask = {} /\ stack[1].pc = 1
  BY <1>1, <1>3
<1> QED
  BY <1>1, <1>2, <1>4, <1>5 DEF Jumps2

LEMMA NextJumps2 ==
  ASSUME Program = Exercises, KernelInv, Jumps2, [Next]_vars
  PROVE  Jumps2'
<1>1. UNCHANGED prog
  BY ProgramStays
<1>2. CASE prog # "sigsetjmp2"
  BY <1>1, <1>2 DEF Jumps2
<1> SUFFICES ASSUME prog = "sigsetjmp2" PROVE Jumps2'
  BY <1>2
<1> DEFINE main == stack[1]
           buf  == buffers["jump_buf"]
<1>3. /\ Len(stack) \in {1, 2, 3} /\ stack \in Seq(Frames) /\ Top = stack[Len(stack)]
      /\ Len(stack) = 1 => Top.at = "main"
      /\ Len(stack) = 2 => Top.at = "ssu_func"
      /\ Len(stack) = 3 => Top.at = "ssu_alarm"
  <2>1. Len(stack) \in Nat \ {0} /\ Top = stack[Len(stack)] /\ stack \in Seq(Frames)
    BY TopProps DEF KernelInv, StackOK
  <2>2. stack[1].at = "main"
    BY <2>1 DEF KernelInv, StackOK
  <2>3. /\ Len(stack) <= 3 /\ (Len(stack) >= 2 => stack[2].at = "ssu_func")
        /\ Len(stack) = 3 => stack[3].at = "ssu_alarm"
    BY DEF Jumps2
  <2>4. Len(stack) \in {1, 2, 3}
    <3>1. \A n \in Nat \ {0} : n <= 3 => n \in {1, 2, 3}
      OBVIOUS
    <3> QED
      BY <2>1, <2>3, <3>1
  <2> QED
    BY <2>1, <2>2, <2>3, <2>4
<1>4. Now = Routines[Top.at][Top.pc] /\ Top.pc \in DOMAIN Routines[Top.at]
  BY TopProps
<1>5. Len(stack) = 1 => Now = Routines["main"][main.pc] /\ main.pc \in 1..9
  BY <1>3, <1>4, Calls_sigsetjmp2
<1>6. Len(stack) = 2 => Now = Routines["ssu_func"][stack[2].pc] /\ stack[2].pc \in 1..8
  BY <1>3, <1>4, Calls_sigsetjmp2
<1>7. Len(stack) = 3 => Now.call \in {"show", "return"}
  <2>1. Len(stack) = 3 => Top.pc \in 1..2 /\ Now = Routines["ssu_alarm"][Top.pc]
    BY <1>3, <1>4, Calls_sigsetjmp2
  <2> QED
    BY <2>1, Calls_sigsetjmp2
<1>8. /\ main.waits => main.pc = 6
      /\ Len(stack) >= 2 => ~stack[2].waits
  <2>1. FrameOK(main) /\ main.at = "main" /\ (Len(stack) >= 2 => FrameOK(stack[2]))
    BY <1>3 DEF KernelInv, StackOK
  <2>2. main.pc \in 1..9 /\ (main.waits => Routines["main"][main.pc].call \in Waiting)
    BY <2>1, Calls_sigsetjmp2 DEF FrameOK
  <2>3. Len(stack) >= 2 =>
          /\ stack[2].pc \in 1..8
          /\ stack[2].waits => Routines["ssu_func"][stack[2].pc].call \in Waiting
    BY <2>1, Calls_sigsetjmp2 DEF FrameOK, Jumps2
  <2> QED
    BY <2>2, <2>3, Calls_sigsetjmp2 DEF Waiting
<1>9. mask = Top.mask
  BY <1>3, <1>5, <1>6, <1>7, Calls_sigsetjmp2 DEF mask
<1>10. ~LongJump => state' # "undefined"
  BY StateStays DEF Jumps2
<1>11. CASE PlainStep
  <2>1. ~LongJump /\ Len(stack') = Len(stack)
    BY <1>11, PlainCall, PlainStack DEF LongJump, At
  <2>2. CASE Len(stack) = 1
    <3>1. /\ stack'[1].mask = {}
          /\ stack'[1].pc >= 5 => main.pc >= 4
          /\ main.pc = 4 \/ main.pc >= 5 \/ stack'[1].pc < 5
      BY <1>3, <1>5, <1>11, <2>2, PlainStack, Calls_sigsetjmp2 DEF Jumps2, Waiting
    <3>2. /\ SetJump => main.pc = 4
          /\ main.pc = 4 => SetJump
          /\ Install => main.pc \in {1, 2}
          /\ Assign => main.pc = 5 /\ Now.call = "can_jump"
          /\ ~SendSelf
      BY <1>5, <1>11, <2>2, PlainSteps, Calls_sigsetjmp2
    <3>3. buffers'["jump_buf"].set => buffers'["jump_buf"].saves /\ buffers'["jump_buf"].mask = {}
      <4>1. CASE SetJump
        <5>1. Now.buf = "jump_buf" /\ Now.saves
          BY <1>5, <2>2, <3>2, <4>1, Calls_sigsetjmp2
        <5>2. Top.mask = {}
          BY <1>3, <2>2 DEF Jumps2
        <5> QED
          BY <4>1, <5>1, <5>2 DEF SetJump, KernelInv, BuffersOK, Buffers
      <4>2. CASE ~SetJump
        BY <1>11, <4>2, PlainSteps DEF Jumps2
      <4> QED
        BY <4>1, <4>2
    <3>4. main.pc >= 4 => buffers'["jump_buf"].set
      <4>1. CASE SetJump
        <5>1. Now.buf = "jump_buf"
          BY <1>5, <2>2, <3>2, <4>1, Calls_sigsetjmp2
        <5> QED
          BY <4>1, <5>1 DEF SetJump, KernelInv, BuffersOK, Buffers
      <4>2. CASE ~SetJump
        <5>1. main.pc >= 4 => main.pc >= 5
          BY <1>5, <2>2, <3>2, <4>2
        <5> QED
          BY <1>11, <4>2, <5>1, PlainSteps DEF Jumps2
      <4> QED
        BY <4>1, <4>2
    <3>5. ready' => buffers'["jump_buf"].set
      <4>1. CASE Assign
        BY <3>2, <3>4, <4>1
      <4>2. CASE SetJump
        BY <3>2, <3>4, <4>2
      <4>3. CASE ~Assign /\ ~SetJump
        BY <1>11, <4>3, PlainSteps DEF Jumps2
      <4> QED
        BY <4>1, <4>2, <4>3
    <3>6. ~armed' /\ "ALRM" \notin pending'
      <4>1. ~armed /\ "ALRM" \notin pending
        BY <2>2 DEF Jumps2
      <4>2. Install => pending' \subseteq pending
        BY DEF Install
      <4>3. Assign => ~armed'
        BY <3>2, <4>1 DEF Assign
      <4> QED
        BY <1>11, <3>2, <4>1, <4>2, <4>3, PlainSteps
    <3>7. \A s \in Signals :
            \/ action'[s].to = "default"
            \/ /\ action'[s].mask = {} /\ action'[s].flags = {}
               /\ \/ s = "USR1" /\ action'[s].to = "ssu_func"
                  \/ s = "ALRM" /\ action'[s].to = "ssu_alarm"
      <4>1. CASE Install
        <5>1. PICK m \in Now.masks, f \in Now.flags :
                action' = [action EXCEPT ![Now.sig] = [to |-> Now.to, mask |-> m, flags |-> f]]
          BY <4>1 DEF Install
        <5>2. /\ m = {} /\ f = {}
              /\ \/ Now.sig = "USR1" /\ Now.to = "ssu_func"
                 \/ Now.sig = "ALRM" /\ Now.to = "ssu_alarm"
          BY <1>5, <2>2, <3>2, <4>1, <5>1, Calls_sigsetjmp2
        <5> QED
          BY <5>1, <5>2 DEF Jumps2, KernelInv, ActionOK
      <4>2. CASE ~Install
        BY <1>11, <4>2, PlainSteps DEF Jumps2
      <4> QED
        BY <4>1, <4>2
    <3> QED
      BY <1>1, <1>10, <2>1, <2>2, <3>1, <3>3, <3>4, <3>5, <3>6, <3>7 DEF Jumps2
  <2>3. CASE Len(stack) = 2
    <3>1. /\ stack'[1] = main /\ stack'[2].at = "ssu_func" /\ stack'[2].mask = {"USR1"}
          /\ stack'[2].pc = stack[2].pc + 1 \/ (stack[2].pc = 1 /\ stack'[2].pc = 8)
      BY <1>3, <1>6, <1>11, <2>3, PlainStack, Calls_sigsetjmp2 DEF Jumps2, Waiting
    <3>2. /\ ~Install /\ ~SetJump /\ ~SendSelf
          /\ Assign <=> stack[2].pc \in {3, 6}
          /\ stack[2].pc = 4 => Go /\ Now.call = "wait_over"
          /\ stack[2].pc = 1 => Go /\ Now.call = "unless" /\ Now.what = "can_jump" /\ Now.n = 8
      BY <1>6, <1>11, <2>3, PlainSteps, Calls_sigsetjmp2
    <3>3. UNCHANGED <<pending, action, buffers>>
      BY <1>11, <3>2, PlainSteps
    <3>4. stack[2].pc = 1 => ready \/ stack'[2].pc = 8
      <4>1. stack[2].pc = 1 /\ ~ready => stack' = Append(Front(stack), [Top EXCEPT !.pc = 8, !.waits = FALSE])
        BY <3>2 DEF Go, GoTo
      <4>2. LET frame == [Top EXCEPT !.pc = 8, !.waits = FALSE]
            IN  frame \in Frames /\ frame.pc = 8
        <5>1. Top \in Frames
          BY <1>3, <2>3
        <5> QED
          BY <5>1 DEF Frames
      <4>3. stack[2].pc = 1 /\ ~ready => stack'[2] = [Top EXCEPT !.pc = 8, !.waits = FALSE]
        BY <1>3, <2>3, <4>1, <4>2, LastReplaced DEF Front
      <4> QED
        BY <4>2, <4>3
    <3>5. ready' => ready
      <4>1. CASE Assign
        <5>1. Now.call = "alarm" \/ ~Now.value
          BY <1>6, <2>3, <3>2, <4>1, Calls_sigsetjmp2
        <5>2. Now.call \in {"can_jump", "alarm"} /\ ready' = IF Now.call = "can_jump" THEN Now.value ELSE ready
          BY <4>1 DEF Assign, At
        <5> QED
          BY <5>1, <5>2
      <4>2. CASE ~Assign
        BY <1>11, <4>2, PlainSteps
      <4> QED
        BY <4>1, <4>2
    <3>6. stack[2].pc = 4 => ~armed' /\ "ALRM" \notin pending'
      <4>1. stack[2].pc = 4 => pending \subseteq Top.mask /\ ~armed /\ UNCHANGED armed
        BY <1>9, <3>2 DEF Go, At
      <4> QED
        BY <1>3, <2>3, <3>2, <3>3, <4>1 DEF Jumps2
    <3>7. stack[2].pc = 3 => stack'[2].pc = 4 /\ "ALRM" \notin pending'
      BY <3>1, <3>3 DEF Jumps2
    <3>8. stack[2].pc \notin {3, 4} => ~armed' /\ "ALRM" \notin pending'
      <4>1. stack[2].pc \notin {3, 4} => ~armed /\ "ALRM" \notin pending
        BY DEF Jumps2
      <4>2. stack[2].pc # 3 => armed' = armed
        <5>1. CASE Assign
          <6>1. stack[2].pc # 3 => Now.call = "can_jump"
            BY <1>6, <2>3, <3>2, <5>1, Calls_sigsetjmp2
          <6> QED
            BY <5>1, <6>1 DEF Assign, KernelInv
        <5>2. CASE ~Assign
          BY <1>11, <5>2, PlainSteps
        <5> QED
          BY <5>1, <5>2
      <4> QED
        BY <3>3, <4>1, <4>2
    <3>9. stack'[2].pc \in 2..7 => buffers["jump_buf"].set
      BY <1>6, <2>3, <3>1, <3>4 DEF Jumps2
    <3> QED
      BY <1>1, <1>10, <2>1, <2>3, <3>1, <3>3, <3>5, <3>6, <3>7, <3>8, <3>9 DEF Jumps2
  <2>4. CASE Len(stack) = 3
    <3>1. stack'[1] = main /\ stack'[2] = stack[2] /\ stack'[3].at = "ssu_alarm" /\ stack'[3].mask = stack[3].mask
      BY <1>3, <1>11, <2>4, PlainStack
    <3>2. UNCHANGED <<pending, action, buffers, ready, armed>>
      BY <1>7, <1>11, <2>4 DEF PlainStep, Install, SendSelf, Wait, SleepOver, Go, Assign, SetJump, Type, At
    <3> QED
      BY <1>1, <1>10, <2>1, <2>4, <3>1, <3>2 DEF Jumps2
  <2> QED
    BY <1>3, <2>2, <2>3, <2>4
<1>12. CASE StillStep
  <2>1. /\ armed' => armed
        /\ "ALRM" \in pending' => armed \/ "ALRM" \in pending
        /\ ~(armed' /\ "ALRM" \in pending')
    BY <1>12, SignalsAssumption DEF StillStep, Ring, Send, End, vars, Jumps2
  <2>2. UNCHANGED <<stack, action, buffers, ready>> /\ state' # "undefined"
    BY <1>12, StillStack DEF Jumps2
  <2> QED
    BY <1>1, <2>1, <2>2 DEF Jumps2
<1>13. CASE Return
  <2>1. /\ Len(stack) >= 2 /\ Len(stack') = Len(stack) - 1 /\ Now.call = "return"
        /\ UNCHANGED <<pending, action, buffers, ready, armed>> /\ ~LongJump
    BY <1>13, ReturnFrames DEF Return, LongJump, At
  <2>2. stack'[1].mask = {} /\ (stack'[1].pc >= 5 => buf.set)
    BY <1>3, <1>8, <1>13, <2>1, ReturnFrames DEF Jumps2
  <2>3. CASE Len(stack) = 2
    <3>1. stack[2].pc = 8
      BY <1>6, <2>1, <2>3, Calls_sigsetjmp2
    <3> QED
      BY <1>1, <1>10, <2>1, <2>2, <2>3, <3>1 DEF Jumps2
  <2>4. CASE Len(stack) = 3
    <3>1. stack'[2] = stack[2]
      BY <1>8, <1>13, <2>4, ReturnFrames
    <3> QED
      BY <1>1, <1>10, <2>1, <2>2, <2>4, <3>1 DEF Jumps2
  <2> QED
    BY <1>3, <2>1, <2>3, <2>4
<1>14. CASE LongJump
  <2>1. Now.call = "longjmp" /\ UNCHANGED <<pending, action, buffers, ready, armed>>
    BY <1>14, LongJumpStack
  <2>2. Len(stack) = 2 /\ stack[2].pc = 7 /\ Now.buf = "jump_buf"
    BY <1>3, <1>5, <1>6, <1>7, <2>1, Calls_sigsetjmp2
  <2>3. buf.set /\ buf.saves /\ buf.mask = {}
    BY <2>2 DEF Jumps2
  <2>4. Len(stack') = 1 /\ stack'[1].mask = {} /\ UNCHANGED state
    BY <1>14, <2>2, <2>3, LongJumpStack
  <2>5. ~armed /\ "ALRM" \notin pending
    BY <2>2 DEF Jumps2
  <2> QED
    BY <1>1, <2>1, <2>3, <2>4, <2>5 DEF Jumps2
<1>15. ASSUME NEW s \in Signals, Deliver(s)
       PROVE  Jumps2'
  <2> DEFINE itself == IF "nodefer" \in action[s].flags THEN {} ELSE {s}
             frame  == Frame(action[s].to, mask \cup action[s].mask \cup itself)
  <2>1. /\ s \in pending /\ s \notin mask /\ pending' = pending \ {s}
        /\ UNCHANGED <<buffers, ready, armed>> /\ state' # "undefined"
    BY <1>15 DEF Deliver, Jumps2
  <2>2. CASE UNCHANGED <<stack, action>>
    BY <1>1, <2>1, <2>2 DEF Jumps2
  <2>3. CASE ~UNCHANGED <<stack, action>>
    <3>1. /\ stack' = Append(stack, frame)
          /\ action' = action \/ action' = [action EXCEPT ![s] = default]
      BY <1>15, <2>3, DeliverStack
    <3>2. action[s].to # "default"
      BY <1>15, <2>3 DEF Deliver
    <3>3. /\ action[s].mask = {} /\ action[s].flags = {}
          /\ \/ s = "USR1" /\ action[s].to = "ssu_func"
             \/ s = "ALRM" /\ action[s].to = "ssu_alarm"
      BY <3>2 DEF Jumps2
    <3>4. frame.at = action[s].to /\ frame.mask = mask \cup {s} /\ frame.pc = 1
      BY <3>3 DEF Frame
    <3> HIDE DEF frame
    <3>5. /\ Len(stack') = Len(stack) + 1 /\ stack'[Len(stack) + 1] = frame
          /\ \A k \in 1..Len(stack) : stack'[k] = stack[k]
      BY <1>3, <3>1, Pushed
    <3>6. \A t \in Signals : action'[t] \in {action[t], default}
      BY <3>1 DEF KernelInv, ActionOK
    <3>7. CASE Len(stack) = 1
      <4>1. s = "USR1"
        BY <2>1, <3>3, <3>7 DEF Jumps2
      <4>2. mask = {} /\ ~armed /\ "ALRM" \notin pending
        BY <1>3, <1>9, <3>7 DEF Jumps2
      <4>3. Len(stack') = 2 /\ stack'[1] = main /\ stack'[2] = frame
        BY <3>5, <3>7
      <4> QED
        BY <1>1, <2>1, <3>3, <3>4, <3>6, <3>7, <4>1, <4>2, <4>3 DEF Jumps2, default
    <3>8. CASE Len(stack) = 2
      <4>1. mask = {"USR1"}
        BY <1>3, <1>9, <3>8 DEF Jumps2
      <4>2. s = "ALRM" /\ stack[2].pc = 4 /\ ~armed
        BY <2>1, <3>3, <4>1 DEF Jumps2
      <4>3. Len(stack') = 3 /\ stack'[1] = main /\ stack'[2] = stack[2] /\ stack'[3] = frame
        BY <3>5, <3>8
      <4> QED
        BY <1>1, <2>1, <3>3, <3>4, <3>6, <3>8, <4>1, <4>2, <4>3 DEF Jumps2, default
    <3>9. CASE Len(stack) = 3
      <4>1. mask = {"USR1", "ALRM"}
        BY <1>3, <1>9, <3>9 DEF Jumps2
      <4> QED
        BY <2>1, <3>3, <4>1
    <3> QED
      BY <1>3, <3>7, <3>8, <3>9
  <2> QED
    BY <2>2, <2>3
<1>16. ~ChangeMask
  BY <1>3, <1>5, <1>6, <1>7, Calls_sigsetjmp2 DEF ChangeMask, At
<1> QED
  BY <1>11, <1>12, <1>13, <1>14, <1>15, <1>16, Steps
-----------------------------------------------------------------------------
(***************************************************************************)
(* sigsetjmp3: the jumps out of both handlers.                             *)
(***************************************************************************)

LEMMA Calls_sigsetjmp3 ==
  ASSUME Program = Exercises, prog = "sigsetjmp3"
  PROVE  /\ DOMAIN Routines = {"main", "ssu_signal_handler1", "ssu_signal_handler2"}
         /\ DOMAIN Routines["main"] = 1..7
         /\ DOMAIN Routines["ssu_signal_handler1"] = {1} /\ DOMAIN Routines["ssu_signal_handler2"] = {1}
         /\ LET c == Routines["main"]
            IN  /\ c[1].call = "setjmp" /\ c[1].buf = "jmp_buf1" /\ c[1].saves /\ c[1].n = 3
                /\ c[2].call = "sigaction" /\ c[2].to = "ssu_signal_handler1"
                /\ c[3].call = "setjmp" /\ c[3].buf = "jmp_buf2" /\ c[3].saves
                /\ c[4].call = "sigaction" /\ c[4].to = "ssu_signal_handler2"
                /\ c[5].call = "sleep" /\ c[6].call = "sleep" /\ c[7].call = "exit"
         /\ LET c == Routines["ssu_signal_handler1"] IN c[1].call = "longjmp" /\ c[1].buf = "jmp_buf1"
         /\ LET c == Routines["ssu_signal_handler2"] IN c[1].call = "longjmp" /\ c[1].buf = "jmp_buf2"
<1>1. Routines = sigsetjmp3
  BY DEF Routines, Exercises
<1>2. /\ DOMAIN Routines = {"main", "ssu_signal_handler1", "ssu_signal_handler2"}
      /\ Routines["main"] = <<setjmp("jmp_buf1", TRUE, 3), Handle("INT", "ssu_signal_handler1", AnyMask, AnyFlags),
              setjmp("jmp_buf2", TRUE, 4), Handle("USR1", "ssu_signal_handler2", AnyMask, AnyFlags),
              sleep, sleep, exit>>
      /\ Routines["ssu_signal_handler1"] = <<longjmp("jmp_buf1")>>
      /\ Routines["ssu_signal_handler2"] = <<longjmp("jmp_buf2")>>
  BY <1>1 DEF sigsetjmp3
<1>3. /\ DOMAIN Routines["main"] = 1..7 /\ Routines["main"][1] = setjmp("jmp_buf1", TRUE, 3)
      /\ Routines["main"][2] = Handle("INT", "ssu_signal_handler1", AnyMask, AnyFlags)
      /\ Routines["main"][3] = setjmp("jmp_buf2", TRUE, 4)
      /\ Routines["main"][4] = Handle("USR1", "ssu_signal_handler2", AnyMask, AnyFlags)
      /\ Routines["main"][5] = sleep /\ Routines["main"][6] = sleep /\ Routines["main"][7] = exit
  BY <1>2
<1>4. /\ DOMAIN Routines["ssu_signal_handler1"] = {1} /\ DOMAIN Routines["ssu_signal_handler2"] = {1}
      /\ Routines["ssu_signal_handler1"][1] = longjmp("jmp_buf1")
      /\ Routines["ssu_signal_handler2"][1] = longjmp("jmp_buf2")
  BY <1>2
<1> HIDE DEF Routines
<1>5. LET c == Routines["main"]
      IN  /\ c[1].call = "setjmp" /\ c[1].buf = "jmp_buf1" /\ c[1].saves /\ c[1].n = 3
          /\ c[3].call = "setjmp" /\ c[3].buf = "jmp_buf2" /\ c[3].saves
  BY <1>3 DEF setjmp
<1>6. LET c == Routines["main"]
      IN  /\ c[2].call = "sigaction" /\ c[2].to = "ssu_signal_handler1"
          /\ c[4].call = "sigaction" /\ c[4].to = "ssu_signal_handler2"
          /\ c[5].call = "sleep" /\ c[6].call = "sleep" /\ c[7].call = "exit"
  BY <1>3 DEF Handle, sleep, exit, Call
<1>7. /\ LET c == Routines["ssu_signal_handler1"] IN c[1].call = "longjmp" /\ c[1].buf = "jmp_buf1"
      /\ LET c == Routines["ssu_signal_handler2"] IN c[1].call = "longjmp" /\ c[1].buf = "jmp_buf2"
  BY <1>4 DEF longjmp
<1> QED
  BY <1>2, <1>3, <1>4, <1>5, <1>6, <1>7

\* Each buffer is set before its handler is set up, in main and with an empty mask.
Jumps3 ==
  prog = "sigsetjmp3" =>
    /\ state # "undefined"
    /\ stack[1].mask = {}
    /\ stack[1].pc >= 2 => buffers["jmp_buf1"].set
    /\ stack[1].pc >= 4 => buffers["jmp_buf2"].set
    /\ \A b \in Buffers : buffers[b].set => buffers[b].saves /\ buffers[b].mask = {}
    /\ buffers["jmp_buf1"].set => buffers["jmp_buf1"].pc = 3
    /\ buffers["jmp_buf2"].set => buffers["jmp_buf1"].set
    /\ \A s \in Signals :
         /\ action[s].to = "ssu_signal_handler1" => buffers["jmp_buf1"].set
         /\ action[s].to = "ssu_signal_handler2" => buffers["jmp_buf2"].set
    /\ \A k \in 2..Len(stack) :
         /\ stack[k].at = "ssu_signal_handler1" => buffers["jmp_buf1"].set
         /\ stack[k].at = "ssu_signal_handler2" => buffers["jmp_buf2"].set

LEMMA InitJumps3 == Init => Jumps3
<1> SUFFICES ASSUME Init PROVE Jumps3
  OBVIOUS
<1>1. stack = <<Frame("main", {})>> /\ \A s \in Signals : action[s].to = "default"
  BY DEF Init, default
<1>2. \A b \in Buffers : ~buffers[b].set
  BY DEF Init, unset
<1>3. Frame("main", {}).mask = {} /\ Frame("main", {}).pc = 1
  BY DEF Frame
<1>4. state = "running"
  BY DEF Init
<1> HIDE DEF Init
<1>5. Len(stack) = 1 /\ stack[1].mask = {} /\ stack[1].pc = 1
  BY <1>1, <1>3
<1> QED
  BY <1>1, <1>2, <1>4, <1>5 DEF Jumps3, Buffers

LEMMA NextJumps3 ==
  ASSUME Program = Exercises, KernelInv, Jumps3, [Next]_vars
  PROVE  Jumps3'
<1>1. UNCHANGED prog
  BY ProgramStays
<1>2. CASE prog # "sigsetjmp3"
  BY <1>1, <1>2 DEF Jumps3
<1> SUFFICES ASSUME prog = "sigsetjmp3" PROVE Jumps3'
  BY <1>2
<1> DEFINE main == stack[1]
<1>3. /\ Len(stack) \in Nat \ {0} /\ stack \in Seq(Frames) /\ Top = stack[Len(stack)]
      /\ Len(stack) = 1 <=> Top.at = "main"
      /\ main.at = "main" /\ main.pc \in 1..7 /\ Top.pc \in DOMAIN Routines[Top.at]
      /\ Top.at \in {"main", "ssu_signal_handler1", "ssu_signal_handler2"}
      /\ Now = Routines[Top.at][Top.pc]
  <2>1. /\ Len(stack) \in Nat \ {0} /\ Top = stack[Len(stack)] /\ stack \in Seq(Frames)
        /\ Top.at \in DOMAIN Routines /\ Top.pc \in DOMAIN Routines[Top.at]
        /\ Now = Routines[Top.at][Top.pc]
    BY TopProps DEF KernelInv, StackOK
  <2>2. 1 \in 1..Len(stack) /\ Len(stack) \in 1..Len(stack)
    BY <2>1
  <2>3. \A k \in 1..Len(stack) : FrameOK(stack[k]) /\ (k = 1 <=> stack[k].at = "main")
    BY DEF KernelInv, StackOK
  <2>4. main.at = "main" /\ (Len(stack) = 1 <=> Top.at = "main") /\ FrameOK(main)
    BY <2>1, <2>2, <2>3
  <2>5. main.pc \in 1..7
    BY <2>4, Calls_sigsetjmp3 DEF FrameOK
  <2> QED
    BY <2>1, <2>4, <2>5, Calls_sigsetjmp3
<1>4. /\ Len(stack) = 1 => Now = Routines["main"][main.pc]
      /\ Len(stack) # 1 =>
           /\ Now.call = "longjmp"
           /\ \/ Top.at = "ssu_signal_handler1" /\ Now.buf = "jmp_buf1"
              \/ Top.at = "ssu_signal_handler2" /\ Now.buf = "jmp_buf2"
  BY <1>3, Calls_sigsetjmp3
<1>5. ~LongJump => state' # "undefined"
  BY StateStays DEF Jumps3
<1>6. CASE PlainStep
  <2>1. Len(stack) = 1 /\ Now = Routines["main"][main.pc] /\ ~LongJump
    BY <1>4, <1>6, PlainCall DEF LongJump, At
  <2>2. Len(stack') = 1 /\ stack'[1].mask = {} /\ Top = main
    BY <1>3, <1>6, <2>1, PlainStack DEF Jumps3
  <2>3. \/ stack'[1].pc = main.pc + 1
        \/ stack'[1].pc = main.pc /\ Now.call \in Waiting
    BY <1>3, <1>6, <2>1, <2>2, PlainStack, Calls_sigsetjmp3 DEF Waiting
  <2>4. /\ SetJump <=> main.pc \in {1, 3}
        /\ Install => main.pc \in {2, 4}
        /\ Now.call \in Waiting => main.pc \in {5, 6}
    BY <1>3, <1>6, <2>1, PlainSteps, Calls_sigsetjmp3 DEF Waiting
  <2>5. /\ \A b \in Buffers : buffers'[b].set => buffers'[b].saves /\ buffers'[b].mask = {}
        /\ buffers'["jmp_buf1"].set => buffers'["jmp_buf1"].pc = 3
        /\ \A b \in Buffers : buffers[b].set => buffers'[b].set
        /\ main.pc = 1 => buffers'["jmp_buf1"].set /\ buffers'["jmp_buf2"].set = buffers["jmp_buf2"].set
        /\ main.pc = 3 => buffers'["jmp_buf2"].set
        /\ main.pc \notin {1, 3} => UNCHANGED buffers
    <3>1. CASE SetJump
      <4>1. /\ Now.saves /\ main.mask = {} /\ Now.buf \in Buffers
            /\ main.pc = 1 => Now.buf = "jmp_buf1" /\ Now.n = 3
            /\ main.pc = 3 => Now.buf = "jmp_buf2"
        BY <2>1, <2>4, <3>1, Calls_sigsetjmp3 DEF Jumps3, Buffers
      <4>2. buffers' = [buffers EXCEPT ![Now.buf] =
                         [set |-> TRUE, pc |-> Now.n, mask |-> main.mask, saves |-> Now.saves]]
        BY <2>2, <3>1 DEF SetJump
      <4>3. \A b \in Buffers :
              IF b = Now.buf
              THEN buffers'[b].set /\ buffers'[b].pc = Now.n /\ buffers'[b].mask = {} /\ buffers'[b].saves
              ELSE buffers'[b] = buffers[b]
        BY <4>1, <4>2 DEF KernelInv, BuffersOK
      <4> QED
        BY <2>4, <3>1, <4>1, <4>3 DEF Jumps3, Buffers
    <3>2. CASE ~SetJump
      BY <1>6, <2>4, <3>2, PlainSteps DEF Jumps3
    <3> QED
      BY <3>1, <3>2
  <2>6. /\ stack'[1].pc >= 2 => buffers'["jmp_buf1"].set
        /\ stack'[1].pc >= 4 => buffers'["jmp_buf2"].set
        /\ buffers'["jmp_buf2"].set => buffers'["jmp_buf1"].set
    BY <1>3, <2>3, <2>4, <2>5 DEF Jumps3, Buffers
  <2>7. \A s \in Signals :
          /\ action'[s].to = "ssu_signal_handler1" => buffers'["jmp_buf1"].set
          /\ action'[s].to = "ssu_signal_handler2" => buffers'["jmp_buf2"].set
    <3>1. CASE Install
      <4>1. PICK m \in Now.masks, f \in Now.flags :
              action' = [action EXCEPT ![Now.sig] = [to |-> Now.to, mask |-> m, flags |-> f]]
        BY <3>1 DEF Install
      <4>2. \A s \in Signals : action'[s].to \in {action[s].to, Now.to}
        BY <4>1 DEF KernelInv, ActionOK
      <4>3. /\ Now.to = "ssu_signal_handler1" => buffers["jmp_buf1"].set
            /\ Now.to = "ssu_signal_handler2" => buffers["jmp_buf2"].set
        BY <2>1, <2>4, <3>1, Calls_sigsetjmp3 DEF Jumps3
      <4> QED
        BY <2>5, <4>2, <4>3 DEF Jumps3, Buffers
    <3>2. CASE ~Install
      <4>1. UNCHANGED action
        BY <1>6, <3>2, PlainSteps
      <4> QED
        BY <2>5, <4>1 DEF Jumps3, Buffers
    <3> QED
      BY <3>1, <3>2
  <2> QED
    BY <1>1, <1>5, <2>1, <2>2, <2>5, <2>6, <2>7 DEF Jumps3
<1>7. CASE StillStep
  <2>1. UNCHANGED <<stack, action, buffers>> /\ state' # "undefined"
    BY <1>7, StillStack DEF Jumps3
  <2> QED
    BY <1>1, <2>1 DEF Jumps3
<1>8. CASE LongJump
  <2>1. UNCHANGED <<action, buffers>> /\ Now.call = "longjmp"
    BY <1>8, LongJumpStack
  <2>2. Len(stack) # 1
    BY <1>3, <1>4, <2>1, Calls_sigsetjmp3
  <2>3. /\ Now.buf = "jmp_buf1" => buffers["jmp_buf1"].set
        /\ Now.buf = "jmp_buf2" => buffers["jmp_buf2"].set
        /\ Now.buf \in {"jmp_buf1", "jmp_buf2"}
    <3>1. Len(stack) \in 2..Len(stack)
      BY <1>3, <2>2
    <3> QED
      BY <1>3, <1>4, <2>2, <3>1 DEF Jumps3
  <2>4. buffers[Now.buf].set /\ buffers[Now.buf].saves /\ buffers[Now.buf].mask = {}
    BY <2>3 DEF Jumps3, Buffers
  <2>5. Len(stack') = 1 /\ stack'[1].mask = {} /\ UNCHANGED state /\ stack'[1].pc = buffers[Now.buf].pc
    BY <1>8, <2>4, LongJumpStack
  <2>6. buffers["jmp_buf1"].set /\ (stack'[1].pc >= 4 => buffers["jmp_buf2"].set)
    BY <2>3, <2>5 DEF Jumps3
  <2> QED
    BY <1>1, <2>1, <2>5, <2>6 DEF Jumps3
<1>9. ASSUME NEW s \in Signals, Deliver(s)
      PROVE  Jumps3'
  <2> DEFINE itself == IF "nodefer" \in action[s].flags THEN {} ELSE {s}
             frame  == Frame(action[s].to, mask \cup action[s].mask \cup itself)
  <2>1. UNCHANGED buffers /\ state' # "undefined"
    BY <1>9 DEF Deliver, Jumps3
  <2>2. CASE UNCHANGED <<stack, action>>
    BY <1>1, <2>1, <2>2 DEF Jumps3
  <2>3. CASE ~UNCHANGED <<stack, action>>
    <3>1. /\ stack' = Append(stack, frame)
          /\ action' = action \/ action' = [action EXCEPT ![s] = default]
      BY <1>9, <2>3, DeliverStack
    <3>2. frame.at = action[s].to
      BY DEF Frame
    <3> HIDE DEF frame
    <3>3. /\ Len(stack') = Len(stack) + 1 /\ stack'[Len(stack) + 1] = frame
          /\ \A k \in 1..Len(stack) : stack'[k] = stack[k]
      BY <1>3, <3>1, Pushed
    <3>4. \A t \in Signals : action'[t] \in {action[t], default}
      BY <3>1 DEF KernelInv, ActionOK
    <3>5. stack'[1] = main
      BY <1>3, <3>3
    <3>6. \A k \in 2..Len(stack') :
            /\ stack'[k].at = "ssu_signal_handler1" => buffers["jmp_buf1"].set
            /\ stack'[k].at = "ssu_signal_handler2" => buffers["jmp_buf2"].set
      <4> TAKE k \in 2..Len(stack')
      <4>1. CASE k = Len(stack) + 1
        BY <3>2, <3>3, <4>1 DEF Jumps3
      <4>2. CASE k # Len(stack) + 1
        <5>1. k \in 2..Len(stack) /\ k \in 1..Len(stack)
          BY <1>3, <3>3, <4>2
        <5> QED
          BY <3>3, <5>1 DEF Jumps3
      <4> QED
        BY <4>1, <4>2
    <3> QED
      BY <1>1, <2>1, <3>4, <3>5, <3>6 DEF Jumps3, default
  <2> QED
    BY <2>2, <2>3
<1>10. ~ChangeMask /\ ~Return
  BY <1>3, <1>4, Calls_sigsetjmp3 DEF ChangeMask, Return, At
<1> QED
  BY <1>6, <1>7, <1>8, <1>9, <1>10, Steps
-----------------------------------------------------------------------------
(***************************************************************************)
(* What the comments of the exercises say.                                 *)
(***************************************************************************)

LEMMA AlwaysHold ==
  ASSUME Program = Exercises
  PROVE  Spec => [](KernelInv /\ Apart3 /\ Region /\ Held /\ Jumps2 /\ Jumps3)
<1> DEFINE I == KernelInv /\ Apart3 /\ Region /\ Held /\ Jumps2 /\ Jumps3
<1>1. Init => I
  BY InitKernel, InitApart3, InitRegion, InitHeld, InitJumps2, InitJumps3
<1>2. I /\ [Next]_vars => I'
  BY NextKernel, NextApart3, NextRegion, NextHeld, NextJumps2, NextJumps3
<1> QED
  BY <1>1, <1>2, PTL DEF Spec

\* The handlers of sigaction3 never interrupt one another and ssu_func of sigsuspend2 gets
\* into the critical region only from sigsuspend, however many signals come.
THEOREM HandlersExcluded == ASSUME Program = Exercises PROVE Spec => []Excluded
<1>1. KernelInv /\ Apart3 /\ Region => Excluded
  <2> SUFFICES ASSUME KernelInv, Apart3, Region PROVE Excluded
    OBVIOUS
  <2>1. Len(stack) \in Nat
    BY TopProps
  <2>2. prog = "sigaction3" => \A k, l \in 2..Len(stack) : stack[k].at = stack[l].at
    BY DEF Apart3
  <2>3. prog = "sigsuspend2" /\ Len(stack) > 1 /\ stack[1].pc \in 3..6 => stack[1].waits
    <3>0. \A n \in Nat : n > 1 /\ n <= 2 => n = 2
      OBVIOUS
    <3>1. Len(stack) > 1 /\ Len(stack) <= 2 => Len(stack) = 2
      BY <2>1, <3>0
    <3> QED
      BY <3>1 DEF Region
  <2> QED
    BY <2>2, <2>3 DEF Excluded
<1> QED
  BY <1>1, AlwaysHold, PTL

\* sigsetjmp2 and sigsetjmp3 jump only to buffers that are set and are back in main with
\* the empty mask, however many signals come and however deep their handlers nest.
THEOREM JumpsGoHome == ASSUME Program = Exercises PROVE Spec => []JumpsHome
<1>1. KernelInv /\ Jumps2 /\ Jumps3 => JumpsHome
  <2> SUFFICES ASSUME KernelInv, Jumps2, Jumps3, prog \in {"sigsetjmp2", "sigsetjmp3"}
               PROVE  state # "undefined" /\ (Len(stack) = 1 => mask = {})
    BY DEF JumpsHome
  <2>1. state # "undefined" /\ stack[1].mask = {}
    BY DEF Jumps2, Jumps3
  <2>2. ASSUME Len(stack) = 1 PROVE mask = {}
    <3>1. Top = stack[1] /\ Top.at = "main" /\ Now = Routines["main"][Top.pc] /\ Top.pc \in DOMAIN Routines["main"]
      BY <2>2, TopProps DEF KernelInv, StackOK
    <3>2. Now.call \notin {"sigsuspend", "suspend_old"}
      BY <3>1, Calls_sigsetjmp2, Calls_sigsetjmp3
    <3> QED
      BY <2>1, <3>1, <3>2 DEF mask
  <2> QED
    BY <2>1, <2>2
<1> QED
  BY <1>1, AlwaysHold, PTL

\* sigsetjmp2, sigsuspend2 and sigaction2 find the mask and the signals that wait as their
\* comments say wherever they show them, however many signals come.
THEOREM ShownAsSaid == ASSUME Program = Exercises PROVE Spec => []ShowsAsSaid
<1>1. KernelInv /\ Region /\ Held /\ Jumps2 => ShowsAsSaid
  <2> SUFFICES ASSUME KernelInv, Region, Held, Jumps2, At({"show"}) PROVE Said
    BY DEF ShowsAsSaid
  <2>1. /\ Now.call = "show" /\ mask = Top.mask /\ pending \subseteq Top.mask
        /\ Top = stack[Len(stack)] /\ Len(stack) \in Nat \ {0}
        /\ Top.at \in DOMAIN Routines /\ Top.pc \in DOMAIN Routines[Top.at]
        /\ Now = Routines[Top.at][Top.pc]
    BY TopProps DEF At, mask
  <2>2. Len(stack) = 1 <=> Top.at = "main"
    <3>1. Len(stack) \in 1..Len(stack)
      BY <2>1
    <3> QED
      BY <2>1, <3>1 DEF KernelInv, StackOK
  <2>3. CASE prog = "sigsetjmp2"
    <3>1. CASE Len(stack) = 1
      <4>1. Now.text \in {"starting_main", "ending_main"}
        BY <2>1, <2>2, <2>3, <3>1, Calls_sigsetjmp2
      <4> QED
        BY <2>1, <2>3, <3>1, <4>1 DEF Jumps2, Said
    <3>2. CASE Len(stack) = 2
      <4>1. Now.text \in {"starting_ssu_func", "ending_ssu_func"}
        BY <2>1, <2>3, <3>2, Calls_sigsetjmp2 DEF Jumps2
      <4> QED
        BY <2>1, <2>3, <3>2, <4>1 DEF Jumps2, Said
    <3>3. CASE Len(stack) = 3
      <4>1. Now.text = "in_ssu_alarm"
        BY <2>1, <2>3, <3>3, Calls_sigsetjmp2 DEF Jumps2
      <4> QED
        BY <2>1, <2>3, <3>3, <4>1 DEF Jumps2, Said
    <3>4. Len(stack) \in {1, 2, 3}
      <4>1. \A n \in Nat \ {0} : n <= 3 => n \in {1, 2, 3}
        OBVIOUS
      <4> QED
        BY <2>1, <2>3, <4>1 DEF Jumps2
    <3> QED
      BY <2>1, <3>1, <3>2, <3>3, <3>4
  <2>4. CASE prog = "sigsuspend2"
    <3>1. CASE Len(stack) = 1
      <4>1. /\ Top = stack[1] /\ Top.pc \in {3, 5, 7}
            /\ Now.text = "program_exit" <=> Top.pc = 7
            /\ Now.text # "in_ssu_func"
        BY <2>1, <2>2, <2>4, <3>1, Calls_sigsuspend2
      <4>2. Top.mask = IF Top.pc \in 3..6 THEN {"INT"} ELSE {}
        BY <2>4, <4>1 DEF Region
      <4>3. CASE Top.pc = 7
        BY <2>1, <2>4, <4>1, <4>2, <4>3 DEF Said
      <4>4. CASE Top.pc # 7
        BY <2>1, <2>4, <4>1, <4>2, <4>4 DEF Said
      <4> QED
        BY <4>3, <4>4
    <3>2. CASE Len(stack) = 2
      <4>1. Now.text = "in_ssu_func"
        BY <2>1, <2>4, <3>2, Calls_sigsuspend2 DEF Region
      <4> QED
        BY <2>1, <2>4, <3>2, <4>1 DEF Region, Said
    <3>3. Len(stack) \in {1, 2}
      <4>1. \A n \in Nat \ {0} : n <= 2 => n \in {1, 2}
        OBVIOUS
      <4> QED
        BY <2>1, <2>4, <4>1 DEF Region
    <3> QED
      BY <2>1, <3>1, <3>2, <3>3
  <2>5. CASE prog = "sigaction2"
    <3>1. Len(stack) = 1 /\ Top = stack[1] /\ Now = Routines["main"][Top.pc] /\ Top.pc \in {4, 6}
      BY <2>1, <2>2, <2>5, Calls_sigaction2
    <3>2. Now.text = "after_kill" <=> Top.pc = 4
      BY <2>5, <3>1, Calls_sigaction2
    <3>3. Top.pc = 4 => "USR1" \in pending
      BY <2>5, <3>1 DEF Held
    <3>4. Top.pc = 6 => "USR1" \notin pending
      BY <2>1, <2>5, <3>1 DEF Held
    <3> QED
      BY <2>5, <3>1, <3>2, <3>3, <3>4 DEF Said
  <2> QED
    BY <2>3, <2>4, <2>5 DEF Said
<1> QED
  BY <1>1, AlwaysHold, PTL
=============================================================================
