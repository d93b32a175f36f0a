--------------------------- MODULE SoftUartProofs ---------------------------
(***************************************************************************)
(* putchar keeps the interrupt enables of its caller, and the receiver     *)
(* hears what was printed, for every set of bytes, every bit time and any  *)
(* interrupts and stalls in between.                                       *)
(***************************************************************************)
EXTENDS SoftUart, SequenceTheorems, TLAPS

USE BytesAssumption, PeriodAssumption

(* Before and after the status register has been written.                  *)
Early == {"frame", "saveSr", "mask"}
Late  == {"target", "mode", "write", "wait", "restore"}

Registers == [pc : Early \cup Late \cup {"handler"}, a0 : Int, t1 : Int,
              t2 : {0, 1}, t4 : SUBSET {"IEc", "IM2"}]

UartType ==
    /\ stack \in Seq(Registers)
    /\ critical \in BOOLEAN
    /\ timer \in [left : Int, irqFlag : {0, 1}]

IsHandler(i) == stack[i].pc = "handler"

(* The enables the caller of activation i has: those of a handler, or      *)
(* those of the program.                                                   *)
BaseOf(i) ==
    IF \E j \in 1 .. i - 1 : IsHandler(j) THEN {"IM2"}
    ELSE IF critical THEN {} ELSE Enabled

(* A handler runs only where the program has interrupts on, alone, and     *)
(* below it is at most one putchar that has not masked them yet.           *)
HandlerPart ==
    /\ \A i, j \in 1 .. Len(stack) : IsHandler(i) /\ IsHandler(j) => i = j
    /\ \A i \in 1 .. Len(stack) : IsHandler(i) => ~critical
    /\ \A i \in 1 .. Len(stack) - 1 :
          stack[i].pc \notin Late /\ (IsHandler(i) \/ IsHandler(i + 1))

(* What putchar has saved is what its caller had.                          *)
SavedPart ==
    \A i \in 1 .. Len(stack) :
        stack[i].pc \in {"mask"} \cup Late => stack[i].t4 = BaseOf(i)

EnablesPart ==
    LET n == Len(stack)
    IN  sr = IF n = 0 THEN BaseOf(1)
             ELSE IF IsHandler(n) THEN {"IM2"}
             ELSE IF stack[n].pc \in Late THEN {} ELSE BaseOf(n)

EnablesInv == UartType /\ HandlerPart /\ SavedPart /\ EnablesPart
-----------------------------------------------------------------------------
LEMMA Distinct ==
    /\ {"IEc", "IM2"} # {} /\ {"IEc", "IM2"} # {"IM2"} /\ {"IM2"} # {}
<1>1. "IEc" \in {"IEc", "IM2"} /\ "IEc" \notin {"IM2"} /\ "IM2" \in {"IM2"}
  OBVIOUS
<1> QED
  BY <1>1

(* What the three changes of the stack do to it.                           *)
LEMMA TopSet ==
    ASSUME UartType, stack # <<>>, NEW r \in Registers,
           SetRegs(r)
    PROVE  /\ stack' \in Seq(Registers)
           /\ Len(stack') = Len(stack) /\ Len(stack) \in Nat \ {0}
           /\ stack'[Len(stack)] = r
           /\ \A i \in 1 .. Len(stack) - 1 : stack'[i] = stack[i]
BY DEF SetRegs, UartType

LEMMA Pushed ==
    ASSUME UartType, NEW r \in Registers, stack' = Append(stack, r)
    PROVE  /\ stack' \in Seq(Registers)
           /\ Len(stack') = Len(stack) + 1 /\ Len(stack) \in Nat
           /\ stack'[Len(stack) + 1] = r
           /\ \A i \in 1 .. Len(stack) : stack'[i] = stack[i]
BY DEF UartType

LEMMA Popped ==
    ASSUME UartType, stack # <<>>, stack' = Front(stack)
    PROVE  /\ stack' \in Seq(Registers)
           /\ Len(stack') = Len(stack) - 1 /\ Len(stack) \in Nat \ {0}
           /\ \A i \in 1 .. Len(stack) - 1 : stack'[i] = stack[i]
<1>1. Len(stack) \in Nat \ {0} /\ stack \in Seq(Registers)
  BY DEF UartType
<1>2. \A i \in 1 .. Len(stack) - 1 : stack[i] \in Registers
  BY <1>1
<1>3. stack' = SubSeq(stack, 1, Len(stack) - 1)
  BY DEF Front
<1>4. PICK m \in Nat : m = Len(stack) - 1
  BY <1>1
<1>5. /\ SubSeq(stack, 1, m) \in Seq(Registers)
      /\ Len(SubSeq(stack, 1, m)) = IF 1 <= m THEN m - 1 + 1 ELSE 0
      /\ \A i \in 1 .. m - 1 + 1 : SubSeq(stack, 1, m)[i] = stack[1 + i - 1]
  BY <1>2, <1>4, SubSeqProperties
<1>6. Len(SubSeq(stack, 1, m)) = m
  BY <1>4, <1>5
<1>7. ASSUME NEW i \in 1 .. m
      PROVE  SubSeq(stack, 1, m)[i] = stack[i]
  <2>1. i \in 1 .. m - 1 + 1 /\ 1 + i - 1 = i
    BY <1>4
  <2> QED
    BY <1>5, <2>1
<1> QED
  BY <1>1, <1>3, <1>4, <1>5, <1>6, <1>7

LEMMA Top ==
    ASSUME UartType, stack # <<>>
    PROVE  Regs = stack[Len(stack)] /\ Regs \in Registers /\ Len(stack) \in Nat \ {0}
BY DEF UartType, Regs, Last

(* The timer keeps its type whatever it counts.                            *)
LEMMA ElapseType ==
    ASSUME NEW t \in [left : Int, irqFlag : {0, 1}], NEW j, Elapse(t, j)
    PROVE  timer' \in [left : Int, irqFlag : {0, 1}]
BY DEF Elapse, TimerTick
-----------------------------------------------------------------------------
(* A step of putchar short of its return: only its own registers change.   *)
LEMMA TopStep ==
    ASSUME EnablesInv, stack # <<>>, ~IsHandler(Len(stack)),
           NEW r \in Registers, SetRegs(r), r.pc # "handler",
           critical' = critical,
           timer' \in [left : Int, irqFlag : {0, 1}],
           r.pc \in {"mask"} \cup Late => r.t4 = BaseOf(Len(stack)),
           sr' = IF r.pc \in Late THEN {} ELSE BaseOf(Len(stack))
    PROVE  EnablesInv'
<1>0. PICK n : n = Len(stack)
  OBVIOUS
<1>1. /\ stack' \in Seq(Registers) /\ Len(stack') = n /\ n \in Nat \ {0}
      /\ stack'[n] = r
      /\ \A i \in 1 .. n - 1 : stack'[i] = stack[i]
  BY <1>0, TopSet DEF EnablesInv
<1>2. UartType'
  BY <1>1 DEF EnablesInv, UartType
<1>3. \A i \in 1 .. n : IsHandler(i)' <=> IsHandler(i)
  BY <1>0, <1>1 DEF IsHandler
<1>4. \A i \in 1 .. n : BaseOf(i)' = BaseOf(i)
  BY <1>0, <1>1, <1>3 DEF BaseOf
<1>5. HandlerPart'
  BY <1>0, <1>1, <1>3 DEF EnablesInv, HandlerPart
<1>6. SavedPart'
  BY <1>0, <1>1, <1>4 DEF EnablesInv, SavedPart
<1>7. EnablesPart'
  BY <1>0, <1>1, <1>4 DEF EnablesPart, IsHandler
<1> QED
  BY <1>2, <1>5, <1>6, <1>7 DEF EnablesInv

(* An activation is put on the stack.                                      *)
LEMMA PushStep ==
    ASSUME EnablesInv, NEW r \in Registers, stack' = Append(stack, r),
           critical' = critical,
           timer' \in [left : Int, irqFlag : {0, 1}],
           \/ /\ r.pc = "frame" /\ sr' = sr
              /\ stack = <<>> \/ IsHandler(Len(stack))
           \/ r.pc = "handler" /\ ~Masked(sr) /\ sr' = sr \ {"IEc"}
    PROVE  EnablesInv'
<1>0. PICK n : n = Len(stack)
  OBVIOUS
<1>1. /\ stack' \in Seq(Registers) /\ Len(stack') = n + 1 /\ n \in Nat
      /\ stack'[n + 1] = r
      /\ \A i \in 1 .. n : stack'[i] = stack[i]
  BY <1>0, Pushed DEF EnablesInv
<1>2. UartType'
  BY <1>1 DEF EnablesInv, UartType
<1>3. \A i \in 1 .. n : IsHandler(i)' <=> IsHandler(i)
  BY <1>1 DEF IsHandler
<1>4. \A i \in 1 .. n : BaseOf(i)' = BaseOf(i)
  BY <1>0, <1>1, <1>3 DEF BaseOf
<1>5. stack = <<>> => n = 0
  BY <1>0
<1>6. CASE r.pc = "frame"
  <2>1. sr' = BaseOf(n + 1)'
    <3>1. CASE n = 0
      BY <1>0, <1>1, <1>6, <3>1 DEF EnablesInv, EnablesPart, BaseOf
    <3>2. CASE n > 0
      <4>1. IsHandler(n) /\ sr' = {"IM2"}
        BY <1>0, <1>1, <1>5, <1>6, <3>2 DEF EnablesInv, EnablesPart
      <4>2. stack'[n].pc = "handler"
        BY <1>1, <3>2, <4>1 DEF IsHandler
      <4> QED
        BY <1>0, <1>1, <3>2, <4>1, <4>2 DEF BaseOf, IsHandler
    <3> QED
      BY <1>0, <1>1, <3>1, <3>2
  <2>2. HandlerPart'
    BY <1>0, <1>1, <1>3, <1>5, <1>6 DEF EnablesInv, HandlerPart, IsHandler, Late
  <2>3. SavedPart'
    BY <1>0, <1>1, <1>4, <1>6 DEF EnablesInv, SavedPart, Late
  <2>4. EnablesPart'
    BY <1>0, <1>1, <1>6, <2>1 DEF EnablesPart, IsHandler, Late
  <2> QED
    BY <1>2, <2>2, <2>3, <2>4 DEF EnablesInv
<1>7. CASE r.pc = "handler"
  <2>1. sr = Enabled /\ sr' = {"IM2"}
    BY <1>0, <1>1, <1>7 DEF EnablesInv, EnablesPart, BaseOf, Masked, Enabled
  <2>2. ~critical /\ \A i \in 1 .. n : ~IsHandler(i)
    <3>1. n > 0 => ~IsHandler(n) /\ stack[n].pc \notin Late
      BY <1>0, <1>1, <2>1, Distinct DEF EnablesInv, EnablesPart, Enabled, IsHandler
    <3>2. sr = IF n = 0 THEN BaseOf(1) ELSE BaseOf(n)
      BY <1>0, <1>1, <3>1 DEF EnablesInv, EnablesPart
    <3>3. ~critical
      BY <2>1, <3>2, Distinct DEF BaseOf, Enabled
    <3>4. n > 0 => \A j \in 1 .. n - 1 : ~IsHandler(j)
      BY <1>0, <1>1, <2>1, <3>2, Distinct DEF BaseOf, Enabled
    <3> QED
      BY <1>0, <1>1, <3>1, <3>3, <3>4
  <2>3. n > 0 => stack[n].pc \notin Late
    BY <1>0, <1>1, <2>1, Distinct DEF EnablesInv, EnablesPart, Enabled, IsHandler
  <2>4. HandlerPart'
    BY <1>0, <1>1, <1>3, <1>7, <2>2, <2>3 DEF EnablesInv, HandlerPart, IsHandler
  <2>5. SavedPart'
    BY <1>0, <1>1, <1>4, <1>7 DEF EnablesInv, SavedPart, Late
  <2>6. EnablesPart'
    BY <1>0, <1>1, <1>7, <2>1 DEF EnablesPart, IsHandler
  <2> QED
    BY <1>2, <2>4, <2>5, <2>6 DEF EnablesInv
<1> QED
  BY <1>6, <1>7

(* An activation is over.                                                  *)
LEMMA PopStep ==
    ASSUME EnablesInv, stack # <<>>, stack' = Front(stack),
           critical' = critical,
           timer' \in [left : Int, irqFlag : {0, 1}],
           \/ stack[Len(stack)].pc = "restore" /\ sr' = stack[Len(stack)].t4
           \/ IsHandler(Len(stack)) /\ sr' = sr \cup {"IEc"}
    PROVE  EnablesInv'
<1>0. PICK n : n = Len(stack)
  OBVIOUS
<1>1. /\ stack' \in Seq(Registers) /\ Len(stack') = n - 1 /\ n \in Nat \ {0}
      /\ \A i \in 1 .. n - 1 : stack'[i] = stack[i]
  BY <1>0, Popped DEF EnablesInv
<1>2. UartType'
  BY <1>1 DEF EnablesInv, UartType
<1>3. \A i \in 1 .. n - 1 : IsHandler(i)' <=> IsHandler(i)
  BY <1>1 DEF IsHandler
<1>4. \A i \in 1 .. n : BaseOf(i)' = BaseOf(i)
  BY <1>1, <1>3 DEF BaseOf
<1>5. HandlerPart'
  BY <1>0, <1>1, <1>3 DEF EnablesInv, HandlerPart
<1>6. SavedPart'
  BY <1>0, <1>1, <1>4 DEF EnablesInv, SavedPart
<1>7. CASE stack[n].pc = "restore" /\ sr' = stack[n].t4
  <2>1. sr' = BaseOf(n)
    BY <1>0, <1>1, <1>7 DEF EnablesInv, SavedPart, Late
  <2>2. CASE n = 1
    <3>1. Len(stack') = 0 /\ sr' = BaseOf(1)'
      BY <1>1, <1>4, <2>1, <2>2
    <3> QED
      BY <1>2, <1>5, <1>6, <3>1 DEF EnablesInv, EnablesPart
  <2>3. CASE n > 1
    <3>1. IsHandler(n - 1)
      <4>1. n - 1 \in 1 .. n - 1 /\ n - 1 + 1 = n
        BY <1>1, <2>3
      <4>2. ~IsHandler(n)
        BY <1>7 DEF IsHandler
      <4> QED
        BY <1>0, <4>1, <4>2 DEF EnablesInv, HandlerPart
    <3>2. sr' = {"IM2"}
      BY <1>1, <2>1, <2>3, <3>1 DEF BaseOf
    <3>3. Len(stack') = n - 1 /\ n - 1 # 0 /\ IsHandler(n - 1)'
      BY <1>1, <1>3, <2>3, <3>1
    <3> QED
      BY <1>2, <1>5, <1>6, <3>2, <3>3 DEF EnablesInv, EnablesPart
  <2> QED
    BY <1>1, <2>2, <2>3
<1>8. CASE IsHandler(n) /\ sr' = sr \cup {"IEc"}
  <2>1. sr' = Enabled
    BY <1>0, <1>1, <1>8 DEF EnablesInv, EnablesPart, Enabled
  <2>2. ~critical /\ \A i \in 1 .. n - 1 : ~IsHandler(i) /\ stack[i].pc \notin Late
    BY <1>0, <1>1, <1>8 DEF EnablesInv, HandlerPart
  <2>3. \A i \in 1 .. n : BaseOf(i)' = Enabled
    <3>1. \A i \in 1 .. n : BaseOf(i) = Enabled
      BY <1>1, <2>2 DEF BaseOf
    <3> QED
      BY <1>4, <3>1
  <2>4. CASE n = 1
    <3>1. Len(stack') = 0 /\ sr' = BaseOf(1)'
      BY <1>1, <2>1, <2>3, <2>4
    <3> QED
      BY <1>2, <1>5, <1>6, <3>1 DEF EnablesInv, EnablesPart
  <2>5. CASE n > 1
    <3>1. /\ Len(stack') = n - 1 /\ n - 1 # 0 /\ ~IsHandler(n - 1)'
          /\ stack'[n - 1].pc \notin Late /\ sr' = BaseOf(n - 1)'
      BY <1>1, <1>3, <2>1, <2>2, <2>3, <2>5
    <3> QED
      BY <1>2, <1>5, <1>6, <3>1 DEF EnablesInv, EnablesPart
  <2> QED
    BY <1>1, <2>4, <2>5
<1> QED
  BY <1>0, <1>2, <1>5, <1>6, <1>7, <1>8 DEF EnablesInv

(* Each step of putchar.                                                   *)
LEMMA PutcharKeeps ==
    ASSUME EnablesInv, PutcharStep, critical' = critical
    PROVE  EnablesInv'
<1>0. PICK n : n = Len(stack)
  OBVIOUS
<1>1. stack # <<>>
  BY DEF PutcharStep, Frame, SaveSr, Mask, Target, Mode, WriteBit, WriteWait,
         Restore, Running
<1>2. Regs = stack[n] /\ Regs \in Registers /\ n \in Nat \ {0}
  BY <1>0, <1>1, Top DEF EnablesInv
<1>3. /\ timer \in [left : Int, irqFlag : {0, 1}]
      /\ [left |-> Period, irqFlag |-> 1] \in [left : Int, irqFlag : {0, 1}]
  BY DEF EnablesInv, UartType
<1>4. Regs.pc # "handler" =>
         sr = IF Regs.pc \in Late THEN {} ELSE BaseOf(n)
  BY <1>0, <1>2 DEF EnablesInv, EnablesPart, IsHandler
<1>5. Regs.pc \in {"mask"} \cup Late => Regs.t4 = BaseOf(n)
  BY <1>0, <1>2 DEF EnablesInv, SavedPart
<1>6. BaseOf(n) \in SUBSET {"IEc", "IM2"}
  BY DEF BaseOf, Enabled
<1>7. CASE Frame
  <2>1. PICK r : r = [Regs EXCEPT !.pc = "saveSr", !.a0 = Framed(Regs.a0)[1],
                                  !.t1 = Framed(Regs.a0)[2]]
    OBVIOUS
  <2>2. Framed(Regs.a0)[1] \in Int /\ Framed(Regs.a0)[2] \in Int
    BY <1>2 DEF Framed, Registers, LF, CR
  <2>3. r \in Registers /\ r.pc = "saveSr"
    BY <1>2, <2>1, <2>2 DEF Registers, Early
  <2>4. SetRegs(r) /\ sr' = sr /\ Regs.pc = "frame" /\ ~IsHandler(n)
        /\ timer' \in [left : Int, irqFlag : {0, 1}]
    BY <1>2, <1>3, <1>7, <2>1, ElapseType DEF Frame, Running, IsHandler
  <2> QED
    BY <1>0, <1>1, <1>4, <2>3, <2>4, TopStep DEF Late
<1>8. CASE SaveSr
  <2>1. PICK r : r = [Regs EXCEPT !.pc = "mask", !.t4 = sr]
    OBVIOUS
  <2>2. SetRegs(r) /\ sr' = sr /\ Regs.pc = "saveSr" /\ ~IsHandler(n)
        /\ timer' \in [left : Int, irqFlag : {0, 1}]
    BY <1>2, <1>3, <1>8, <2>1, ElapseType DEF SaveSr, Running, IsHandler
  <2>3. sr = BaseOf(n)
    BY <1>4, <2>2 DEF Late
  <2>4. r \in Registers /\ r.pc = "mask" /\ r.t4 = BaseOf(n)
    BY <1>2, <1>6, <2>1, <2>3 DEF Registers, Early
  <2> QED
    BY <1>0, <1>1, <2>2, <2>3, <2>4, TopStep DEF Late
<1>9. CASE Mask
  <2>1. PICK r : r = [Regs EXCEPT !.pc = "target"]
    OBVIOUS
  <2>2. /\ SetRegs(r) /\ sr' = Regs.t4 \ {"IEc", "IM2"}
        /\ Regs.pc = "mask" /\ ~IsHandler(n)
        /\ timer' \in [left : Int, irqFlag : {0, 1}]
    BY <1>2, <1>3, <1>9, <2>1, ElapseType DEF Mask, Running, IsHandler
  <2>3. r \in Registers /\ r.pc = "target" /\ r.t4 = BaseOf(n)
    BY <1>2, <1>5, <2>1, <2>2 DEF Registers, Late
  <2>4. sr' = {}
    BY <1>5, <1>6, <2>2
  <2> QED
    BY <1>0, <1>1, <2>2, <2>3, <2>4, TopStep DEF Late
<1>10. CASE Target \/ Mode \/ WriteBit
  <2>1. PICK r : /\ SetRegs(r) /\ sr' = sr /\ Regs.pc \in Late
                 /\ r \in Registers /\ r.pc \in Late /\ r.t4 = Regs.t4
    <3>1. CASE Target
      BY <1>2, <3>1 DEF Target, Running, Registers, Late
    <3>2. CASE Mode
      <4>1. [Regs EXCEPT !.pc = "write", !.t2 = 1] \in Registers
        BY <1>2 DEF Registers, Late
      <4>2. /\ SetRegs([Regs EXCEPT !.pc = "write", !.t2 = 1])
            /\ sr' = sr /\ Regs.pc = "mode"
        BY <3>2 DEF Mode, Running
      <4>3. /\ [Regs EXCEPT !.pc = "write", !.t2 = 1].pc = "write"
            /\ [Regs EXCEPT !.pc = "write", !.t2 = 1].t4 = Regs.t4
        BY <1>2 DEF Registers
      <4> QED
        BY <4>1, <4>2, <4>3 DEF Late
    <3>3. CASE WriteBit
      <4>1. (Regs.a0 \div 2) \in Int /\ (Regs.t1 - 1) \in Int
        BY <1>2 DEF Registers
      <4>2. PICK r : r = [Regs EXCEPT !.pc = "wait", !.a0 = Regs.a0 \div 2,
                                      !.t1 = Regs.t1 - 1]
        OBVIOUS
      <4>3. r \in Registers /\ r.pc = "wait" /\ r.t4 = Regs.t4
        BY <1>2, <4>1, <4>2 DEF Registers, Late
      <4>4. SetRegs(r) /\ sr' = sr /\ Regs.pc = "write"
        BY <3>3, <4>2 DEF WriteBit, Running
      <4> QED
        BY <4>3, <4>4 DEF Late
    <3> QED
      BY <1>10, <3>1, <3>2, <3>3
  <2>2. timer' \in [left : Int, irqFlag : {0, 1}]
    BY <1>3, <1>10, ElapseType DEF Target, Mode, WriteBit
  <2>3. ~IsHandler(n) /\ sr = {} /\ r.t4 = BaseOf(n) /\ r.pc # "handler"
    BY <1>2, <1>4, <1>5, <2>1 DEF IsHandler, Late
  <2> QED
    BY <1>0, <1>1, <2>1, <2>2, <2>3, TopStep
<1>11. CASE WriteWait
  <2>1. timer' \in [left : Int, irqFlag : {0, 1}] /\ sr' = sr /\ Regs.pc = "wait"
    BY <1>3, <1>11, ElapseType DEF WriteWait, Running
  <2>2. CASE UNCHANGED stack
    BY <2>1, <2>2 DEF EnablesInv, UartType, HandlerPart, SavedPart, EnablesPart,
       BaseOf, IsHandler
  <2>3. CASE \E pc \in {"write", "restore"} :
                SetRegs([Regs EXCEPT !.t2 = timer.irqFlag, !.pc = pc])
    <3>1. PICK pc \in {"write", "restore"} :
             SetRegs([Regs EXCEPT !.t2 = timer.irqFlag, !.pc = pc])
      BY <2>3
    <3>2. PICK r : r = [Regs EXCEPT !.t2 = timer.irqFlag, !.pc = pc]
      OBVIOUS
    <3>3. r \in Registers /\ r.pc \in Late /\ r.t4 = Regs.t4
      BY <1>2, <1>3, <3>2 DEF Registers, Late
    <3>4. ~IsHandler(n) /\ sr = {} /\ r.t4 = BaseOf(n) /\ r.pc # "handler"
      BY <1>2, <1>4, <1>5, <2>1, <3>3 DEF IsHandler, Late
    <3> QED
      BY <1>0, <1>1, <2>1, <3>1, <3>2, <3>3, <3>4, TopStep
  <2> QED
    BY <1>11, <2>2, <2>3 DEF WriteWait
<1>12. CASE Restore
  <2>1. /\ stack' = Front(stack) /\ sr' = Regs.t4 /\ Regs.pc = "restore"
        /\ timer' \in [left : Int, irqFlag : {0, 1}]
    BY <1>3, <1>12, ElapseType DEF Restore, Running
  <2> QED
    BY <1>0, <1>1, <1>2, <2>1, PopStep
<1> QED
  BY <1>7, <1>8, <1>9, <1>10, <1>11, <1>12 DEF PutcharStep

(* Each step of those around it.                                           *)
LEMMA OthersKeep ==
    ASSUME EnablesInv, Call \/ Interrupt \/ HandlerReturn \/ ProgramStep \/ Stall
    PROVE  EnablesInv'
<1>1. timer \in [left : Int, irqFlag : {0, 1}]
  BY DEF EnablesInv, UartType
<1>2. timer' \in [left : Int, irqFlag : {0, 1}]
  BY <1>1, ElapseType DEF Call, Interrupt, HandlerReturn, ProgramStep, Stall
<1>3. stack # <<>> => Regs = stack[Len(stack)]
  BY Top DEF EnablesInv
<1>4. CASE Call
  <2>1. PICK c \in Bytes : stack' = Append(stack, Activation("frame", c))
    BY <1>4 DEF Call
  <2>2. PICK r : r = Activation("frame", c)
    OBVIOUS
  <2>3. r \in Registers /\ r.pc = "frame"
    BY <2>2 DEF Activation, Registers, Early
  <2>4. stack = <<>> \/ IsHandler(Len(stack))
    BY <1>3, <1>4 DEF Call, Handling, IsHandler
  <2>5. sr' = sr /\ critical' = critical
    BY <1>4 DEF Call
  <2> QED
    BY <1>2, <2>1, <2>2, <2>3, <2>4, <2>5, PushStep
<1>5. CASE Interrupt
  <2>1. PICK r : r = Activation("handler", 0)
    OBVIOUS
  <2>2. r \in Registers /\ r.pc = "handler"
    BY <2>1 DEF Activation, Registers
  <2>3. /\ stack' = Append(stack, r) /\ ~Masked(sr) /\ sr' = sr \ {"IEc"}
        /\ critical' = critical
    BY <1>5, <2>1 DEF Interrupt
  <2> QED
    BY <1>2, <2>2, <2>3, PushStep
<1>6. CASE HandlerReturn
  <2>1. /\ stack # <<>> /\ IsHandler(Len(stack)) /\ stack' = Front(stack)
        /\ sr' = sr \cup {"IEc"} /\ critical' = critical
    BY <1>3, <1>6 DEF HandlerReturn, Handling, IsHandler
  <2> QED
    BY <1>2, <2>1, PopStep
<1>7. CASE ProgramStep
  <2>1. stack = <<>> /\ stack' = <<>> /\ Len(stack) = 0 /\ Len(stack') = 0
    BY <1>7 DEF ProgramStep
  <2>2. critical \in BOOLEAN /\ critical' \in BOOLEAN
    BY <1>7 DEF ProgramStep, EnablesInv, UartType
  <2>3. UartType'
    BY <1>2, <2>1, <2>2 DEF EnablesInv, UartType
  <2>4. HandlerPart' /\ SavedPart'
    BY <2>1 DEF HandlerPart, SavedPart
  <2>5. sr = (IF critical THEN {} ELSE Enabled)
    BY <2>1 DEF EnablesInv, EnablesPart, BaseOf
  <2>6. sr' = IF critical' THEN {} ELSE Enabled
    <3>1. CASE critical' = ~critical /\ sr' = IF critical THEN Enabled ELSE {}
      BY <2>2, <3>1
    <3>2. CASE UNCHANGED <<critical, sr>>
      BY <2>5, <3>2
    <3> QED
      BY <1>7, <3>1, <3>2 DEF ProgramStep
  <2>7. EnablesPart'
    BY <2>1, <2>6 DEF EnablesPart, BaseOf
  <2> QED
    BY <2>3, <2>4, <2>7 DEF EnablesInv
<1>8. CASE Stall
  <2>1. UNCHANGED <<stack, sr, critical>>
    BY <1>8 DEF Stall
  <2> QED
    BY <1>2, <2>1 DEF EnablesInv, UartType, HandlerPart, SavedPart, EnablesPart,
       BaseOf, IsHandler
<1> QED
  BY <1>4, <1>5, <1>6, <1>7, <1>8

(* What the invariant says of the enables.                                 *)
LEMMA InvEnables == EnablesInv => EnablesKept
<1> SUFFICES ASSUME EnablesInv PROVE EnablesKept
  OBVIOUS
<1>1. stack \in Seq(Registers) /\ critical \in BOOLEAN
  BY DEF EnablesInv, UartType
<1>2. ASSUME stack = <<>>
      PROVE  Masked(sr) <=> critical
  <2>1. sr = IF critical THEN {} ELSE Enabled
    BY <1>2 DEF EnablesInv, EnablesPart, BaseOf
  <2> QED
    BY <1>1, <2>1 DEF Masked, Enabled
<1>3. ASSUME Handling
      PROVE  Masked(sr)
  <2>1. IsHandler(Len(stack)) /\ Len(stack) # 0
    BY <1>3, Top DEF Handling, EnablesInv, IsHandler
  <2>2. sr = {"IM2"}
    BY <2>1 DEF EnablesInv, EnablesPart
  <2> QED
    BY <2>2 DEF Masked, Enabled
<1>4. \A i, j \in DOMAIN stack :
         stack[i].pc = "handler" /\ stack[j].pc = "handler" => i = j
  <2>1. DOMAIN stack = 1 .. Len(stack)
    BY <1>1
  <2> QED
    BY <2>1 DEF EnablesInv, HandlerPart, IsHandler
<1> QED
  BY <1>2, <1>3, <1>4 DEF EnablesKept

LEMMA EnablesHold == Spec => []EnablesInv
<1>1. Init => EnablesInv
  <2> SUFFICES ASSUME Init PROVE EnablesInv
    OBVIOUS
  <2>1. stack = <<>> /\ Len(stack) = 0 /\ critical = FALSE /\ sr = Enabled
    BY DEF Init
  <2>2. UartType
    <3>1. timer = [left |-> Period, irqFlag |-> 1] /\ Period \in Int
      BY DEF Init
    <3>2. timer \in [left : Int, irqFlag : {0, 1}]
      BY <3>1
    <3>3. stack \in Seq(Registers)
      BY <2>1
    <3>4. critical \in BOOLEAN
      BY <2>1
    <3> QED
      BY <3>2, <3>3, <3>4 DEF UartType
  <2>3. HandlerPart /\ SavedPart
    BY <2>1 DEF HandlerPart, SavedPart
  <2>4. EnablesPart
    BY <2>1 DEF EnablesPart, BaseOf
  <2> QED
    BY <2>2, <2>3, <2>4 DEF EnablesInv
<1>2. EnablesInv /\ [Next]_vars => EnablesInv'
  <2> SUFFICES ASSUME EnablesInv, [Next]_vars PROVE EnablesInv'
    OBVIOUS
  <2>1. CASE Putchar
    BY <2>1, PutcharKeeps DEF Putchar
  <2>2. CASE Call \/ Interrupt \/ HandlerReturn \/ ProgramStep \/ Stall
    BY <2>2, OthersKeep
  <2>3. CASE UNCHANGED vars
    BY <2>3 DEF vars, EnablesInv, UartType, HandlerPart, SavedPart, EnablesPart,
       BaseOf, IsHandler
  <2> QED
    BY <2>1, <2>2, <2>3 DEF Next
<1> QED
  BY <1>1, <1>2, PTL DEF Spec

(* putchar leaves the enables as its caller had them, and no handler       *)
(* interrupts another (patch-uart.S:39-60, 116).                           *)
THEOREM PutcharKeepsEnables == Spec => []EnablesKept
BY EnablesHold, InvEnables, PTL
-----------------------------------------------------------------------------
(* What is heard.  A bit time runs from one toggle of the timer's flag to  *)
(* the next; Elapsed is how much of it has passed.                         *)
Half == Period \div 2

Elapsed == Period - timer.left

NextElapsed(e) == IF e = Period - 1 THEN 0 ELSE e + 1

LEMMA HalfBounds == Half \in Int /\ Half >= 3 /\ Half + 3 <= Period /\ Period \in Int
<1>1. \A p \in Nat : p >= 6 => p \div 2 \in Int /\ p \div 2 >= 3 /\ p \div 2 + 3 <= p
  OBVIOUS
<1> QED
  BY <1>1 DEF Half

LEMMA TimerTicks ==
    ASSUME timer \in [left : Int, irqFlag : {0, 1}], timer.left \in 1 .. Period,
           timer' = TimerTick(timer)
    PROVE  /\ timer'.left \in 1 .. Period /\ timer'.irqFlag \in {0, 1}
           /\ Elapsed \in 0 .. Period - 1
           /\ Elapsed' = NextElapsed(Elapsed)
           /\ timer'.irqFlag = IF Elapsed = Period - 1 THEN 1 - timer.irqFlag
                                                       ELSE timer.irqFlag
<1>1. CASE timer.left > 1
  <2>1. timer' = [timer EXCEPT !.left = timer.left - 1]
    BY <1>1 DEF TimerTick
  <2>2. timer'.left = timer.left - 1 /\ timer'.irqFlag = timer.irqFlag
    BY <2>1
  <2> QED
    BY <1>1, <2>2 DEF Elapsed, NextElapsed
<1>2. CASE ~(timer.left > 1)
  <2>1. timer' = [left |-> Period, irqFlag |-> 1 - timer.irqFlag]
    BY <1>2 DEF TimerTick
  <2>2. timer'.left = Period /\ timer'.irqFlag = 1 - timer.irqFlag /\ timer.left = 1
    BY <1>2, <2>1
  <2> QED
    BY <1>2, <2>2 DEF Elapsed, NextElapsed
<1> QED
  BY <1>1, <1>2

(* putchar keeps up with the timer: it is about to write a bit early in    *)
(* the bit time; it waits while the flag is the same as it has last seen,  *)
(* and has seen that it is not when two ticks have passed.                 *)
Clock(writing, same, e, held) ==
    IF writing THEN same /\ e \in 1 .. 3 /\ (held \/ e <= 2)
    ELSE \/ same /\ e \in 2 .. Period - 1
         \/ ~same /\ e \in 0 .. 1 /\ (e = 1 => held)

LEMMA ClockHeld ==
    ASSUME NEW w \in BOOLEAN, NEW same \in BOOLEAN, NEW e \in 0 .. Period - 1,
           Clock(w, same, e, FALSE)
    PROVE  Clock(w, IF e = Period - 1 THEN ~same ELSE same, NextElapsed(e), TRUE)
BY HalfBounds DEF Clock, NextElapsed

LEMMA ClockPolled ==
    ASSUME NEW e \in 0 .. Period - 1, NEW held \in BOOLEAN, Clock(FALSE, TRUE, e, held)
    PROVE  Clock(FALSE, IF e = Period - 1 THEN FALSE ELSE TRUE, NextElapsed(e), FALSE)
BY HalfBounds DEF Clock, NextElapsed

LEMMA ClockSeen ==
    ASSUME NEW e \in 0 .. Period - 1, NEW held \in BOOLEAN, Clock(FALSE, FALSE, e, held)
    PROVE  e # Period - 1 /\ Clock(TRUE, TRUE, NextElapsed(e), FALSE)
BY HalfBounds DEF Clock, NextElapsed

LEMMA ClockWritten ==
    ASSUME NEW e \in 0 .. Period - 1, NEW held \in BOOLEAN, Clock(TRUE, TRUE, e, held)
    PROVE  e # Period - 1 /\ Clock(FALSE, TRUE, NextElapsed(e), FALSE) /\ e \in 1 .. 3
BY HalfBounds DEF Clock, NextElapsed

(* The receiver reads each bit while it is on the wire: with m bits of a   *)
(* frame written and b read, the next is read in left ticks.  The start    *)
(* bit was put on the wire when s ticks of its bit time had passed.        *)
Phase(writing, same, e, m, b, s, left) ==
    /\ left \in 1 .. Period
    /\ \/ b = m /\ (writing \/ ~same) /\ left = s + Half - e
       \/ b = m /\ ~writing /\ same /\ left = Period + s + Half - e
       \/ b = m - 1 /\ ~writing /\ same /\ left = s + Half - e
       \/ b = m - 1 /\ ~writing /\ ~same /\ e = 0 /\ left = 1 /\ s + Half = Period + 1

(* A tick in which putchar writes nothing and sees no toggle.              *)
LEMMA PhaseTick ==
    ASSUME NEW w \in BOOLEAN, NEW same \in BOOLEAN, NEW e \in 0 .. Period - 1,
           NEW held \in BOOLEAN, ~held \/ (~w /\ same), Clock(w, same, e, held),
           NEW m \in Int, NEW b \in Int, NEW s \in 2 .. 4, NEW left \in Int,
           Phase(w, same, e, m, b, s, left)
    PROVE  LET now == IF e = Period - 1 THEN ~same ELSE same
           IN  /\ left > 1 => Phase(w, now, NextElapsed(e), m, b, s, left - 1)
               /\ left = 1 => b = m - 1 /\ Phase(w, now, NextElapsed(e), m, b + 1, s, Period)
BY HalfBounds DEF Clock, Phase, NextElapsed

LEMMA PhaseSeen ==
    ASSUME NEW e \in 0 .. Period - 1, NEW held \in BOOLEAN, Clock(FALSE, FALSE, e, held),
           NEW m \in Int, NEW b \in Int, NEW s \in 2 .. 4, NEW left \in Int,
           Phase(FALSE, FALSE, e, m, b, s, left)
    PROVE  left > 1 => b = m /\ Phase(TRUE, TRUE, NextElapsed(e), m, b, s, left - 1)
BY HalfBounds DEF Clock, Phase, NextElapsed

LEMMA PhaseSeenLast ==
    ASSUME NEW e \in 0 .. Period - 1, NEW held \in BOOLEAN, Clock(FALSE, FALSE, e, held),
           NEW m \in Int, NEW b \in Int, NEW s \in 2 .. 4, Phase(FALSE, FALSE, e, m, b, s, 1)
    PROVE  b = m - 1 /\ Phase(TRUE, TRUE, NextElapsed(e), m, b + 1, s, Period)
BY HalfBounds DEF Clock, Phase, NextElapsed

LEMMA PhaseWritten ==
    ASSUME NEW e \in 0 .. Period - 1, NEW held \in BOOLEAN, Clock(TRUE, TRUE, e, held),
           NEW m \in Int, NEW b \in Int, NEW s \in 2 .. 4, NEW left \in Int,
           Phase(TRUE, TRUE, e, m, b, s, left)
    PROVE  left > 1 /\ b = m /\ Phase(FALSE, TRUE, NextElapsed(e), m + 1, b, s, left - 1)
BY HalfBounds DEF Clock, Phase, NextElapsed

LEMMA PhaseStart ==
    ASSUME NEW e \in 1 .. 3
    PROVE  Phase(FALSE, TRUE, NextElapsed(e), 1, 0, e + 1, Half) /\ e + 1 \in 2 .. 4
BY HalfBounds DEF Phase, NextElapsed
-----------------------------------------------------------------------------
(* A register that is shifted right ten times.                             *)
Shifts(q, x) ==
    /\ q \in [0 .. 10 -> Nat]
    /\ q[0] = x
    /\ \A i \in 0 .. 9 : q[i + 1] = q[i] \div 2

LEMMA Halved ==
    ASSUME NEW x \in Nat
    PROVE  x \div 2 \in Nat /\ x % 2 \in {0, 1} /\ x = 2 * (x \div 2) + (x % 2)
<1>1. x \div 2 \in Nat
  OBVIOUS
<1>2. x % 2 \in {0, 1}
  OBVIOUS
<1>3. x = 2 * (x \div 2) + (x % 2)
  OBVIOUS
<1> QED
  BY <1>1, <1>2, <1>3

ShiftsTo(q, k, x) ==
    /\ q \in [0 .. k -> Nat]
    /\ q[0] = x
    /\ \A i \in 0 .. k - 1 : q[i + 1] = q[i] \div 2

LEMMA ShiftOnce ==
    ASSUME NEW x \in Nat, NEW k \in Nat, NEW q, ShiftsTo(q, k, x)
    PROVE  \E f : ShiftsTo(f, k + 1, x)
<1>1. q \in [0 .. k -> Nat] /\ q[0] = x /\ \A i \in 0 .. k - 1 : q[i + 1] = q[i] \div 2
  BY DEF ShiftsTo
<1>2. q[k] \in Nat /\ q[k] \div 2 \in Nat
  <2>1. k \in 0 .. k
    OBVIOUS
  <2>2. q[k] \in Nat
    BY <1>1, <2>1
  <2> QED
    BY <2>2, Halved
<1> DEFINE f == [i \in 0 .. k + 1 |-> IF i = k + 1 THEN q[k] \div 2 ELSE q[i]]
<1>3. /\ f \in [0 .. k + 1 -> Nat] /\ f[k + 1] = q[k] \div 2
      /\ \A i \in 0 .. k : f[i] = q[i]
  BY <1>1, <1>2
<1> HIDE DEF f
<1>4. f[0] = x /\ \A i \in 0 .. k : f[i + 1] = f[i] \div 2
  BY <1>1, <1>3
<1>5. k + 1 - 1 = k
  OBVIOUS
<1>6. \A i \in 0 .. k + 1 - 1 : f[i + 1] = f[i] \div 2
  BY <1>4, <1>5
<1>7. ShiftsTo(f, k + 1, x)
  BY <1>3, <1>4, <1>6 DEF ShiftsTo
<1> QED
  BY <1>7

LEMMA Shifting ==
    ASSUME NEW x \in Nat
    PROVE  \E q : Shifts(q, x)
<1> DEFINE Start(k) == \E q : ShiftsTo(q, k, x)
<1>1. Start(0)
  <2>1. ShiftsTo([i \in 0 .. 0 |-> x], 0, x)
    BY DEF ShiftsTo
  <2> QED
    BY <2>1
<1>2. ASSUME NEW k \in Nat, Start(k) PROVE Start(k + 1)
  BY <1>2, ShiftOnce
<1> HIDE DEF Start
<1>3. Start(1) /\ Start(2) /\ Start(3) /\ Start(4)
  BY <1>1, <1>2
<1>4. Start(5) /\ Start(6) /\ Start(7) /\ Start(8)
  BY <1>2, <1>3
<1>5. Start(10)
  BY <1>2, <1>4
<1>6. PICK q : ShiftsTo(q, 10, x)
  BY <1>5 DEF Start
<1>7. Shifts(q, x)
  <2>1. 10 - 1 = 9
    OBVIOUS
  <2> QED
    BY <1>6, <2>1 DEF ShiftsTo, Shifts
<1> QED
  BY <1>7

LEMMA ShiftStep ==
    ASSUME NEW q, NEW x, Shifts(q, x), NEW i \in 0 .. 9
    PROVE  /\ q[i] \in Nat /\ q[i + 1] \in Nat /\ q[i] % 2 \in {0, 1}
           /\ q[i] = 2 * q[i + 1] + (q[i] % 2)
<1>1. q[i] \in Nat /\ q[i + 1] = q[i] \div 2
  BY DEF Shifts
<1> QED
  BY <1>1, Halved

(* A register whose last ten bits are a framed byte.                       *)
StartsWith(w, v, x) ==
    v \in 0 .. 255 /\ x \in Nat /\ w = 2 * v + 512 + 1024 * x

(* The bits b of a register q, one by one.                                 *)
BitByBit(q, b) ==
    \A i \in 0 .. 9 : /\ q[i] \in Nat /\ q[i + 1] \in Nat /\ b[i] \in {0, 1}
                     /\ q[i] = 2 * q[i + 1] + b[i]

(* The bits of a byte between start and stop bit give the byte again.      *)
LEMMA Unframed ==
    ASSUME NEW v, NEW x, NEW q, NEW b, StartsWith(q[0], v, x), BitByBit(q, b)
    PROVE  /\ b[0] = 0 /\ b[9] = 1 /\ q[10] = x
           /\ v = b[1] + 2 * (b[2] + 2 * (b[3] + 2 * (b[4] + 2 * (b[5] + 2 * (b[6]
                       + 2 * (b[7] + 2 * b[8]))))))
<1> DEFINE u7 == b[7] + 2 * b[8]
           u5 == b[5] + 2 * (b[6] + 2 * u7)
           u3 == b[3] + 2 * (b[4] + 2 * u5)
           u1 == b[1] + 2 * (b[2] + 2 * u3)
<1>0. \A i \in 0 .. 9 : /\ q[i] \in Nat /\ q[i + 1] \in Nat /\ b[i] \in {0, 1}
                        /\ q[i] = 2 * q[i + 1] + b[i]
  BY DEF BitByBit
<1>1. u7 \in 0 .. 3 /\ q[7] = u7 + 4 * q[9]
  <2>1. /\ b[7] \in {0, 1} /\ q[7] = 2 * q[8] + b[7] /\ q[8] \in Nat
        /\ b[8] \in {0, 1} /\ q[8] = 2 * q[9] + b[8] /\ q[9] \in Nat /\ q[9] \in Nat
    BY <1>0
  <2> QED
    BY <2>1
<1> HIDE DEF u7
<1>2. u5 \in 0 .. 15 /\ q[5] = u5 + 16 * q[9]
  <2>1. /\ b[5] \in {0, 1} /\ q[5] = 2 * q[6] + b[5] /\ q[6] \in Nat
        /\ b[6] \in {0, 1} /\ q[6] = 2 * q[7] + b[6] /\ q[7] \in Nat /\ q[9] \in Nat
    BY <1>0
  <2>2. u5 = b[5] + 2 * b[6] + 4 * u7
    BY <1>1, <2>1
  <2>3. q[5] = b[5] + 2 * b[6] + 4 * q[7]
    BY <2>1
  <2> HIDE DEF u5
  <2>4. u5 \in 0 .. 15
    BY <1>1, <2>1, <2>2
  <2>5. q[5] = u5 + 4 * q[7] - 4 * u7
    BY <1>1, <2>1, <2>2, <2>3
  <2> QED
    BY <1>1, <2>1, <2>4, <2>5
<1> HIDE DEF u5
<1>3. u3 \in 0 .. 63 /\ q[3] = u3 + 64 * q[9]
  <2>1. /\ b[3] \in {0, 1} /\ q[3] = 2 * q[4] + b[3] /\ q[4] \in Nat
        /\ b[4] \in {0, 1} /\ q[4] = 2 * q[5] + b[4] /\ q[5] \in Nat /\ q[9] \in Nat
    BY <1>0
  <2>2. u3 = b[3] + 2 * b[4] + 4 * u5
    BY <1>2, <2>1
  <2>3. q[3] = b[3] + 2 * b[4] + 4 * q[5]
    BY <2>1
  <2> HIDE DEF u3
  <2>4. u3 \in 0 .. 63
    BY <1>2, <2>1, <2>2
  <2>5. q[3] = u3 + 4 * q[5] - 4 * u5
    BY <1>2, <2>1, <2>2, <2>3
  <2> QED
    BY <1>2, <2>1, <2>4, <2>5
<1> HIDE DEF u3
<1>4. u1 \in 0 .. 255 /\ q[1] = u1 + 256 * q[9]
  <2>1. /\ b[1] \in {0, 1} /\ q[1] = 2 * q[2] + b[1] /\ q[2] \in Nat
        /\ b[2] \in {0, 1} /\ q[2] = 2 * q[3] + b[2] /\ q[3] \in Nat /\ q[9] \in Nat
    BY <1>0
  <2>2. u1 = b[1] + 2 * b[2] + 4 * u3
    BY <1>3, <2>1
  <2>3. q[1] = b[1] + 2 * b[2] + 4 * q[3]
    BY <2>1
  <2> HIDE DEF u1
  <2>4. u1 \in 0 .. 255
    BY <1>3, <2>1, <2>2
  <2>5. q[1] = u1 + 4 * q[3] - 4 * u3
    BY <1>3, <2>1, <2>2, <2>3
  <2> QED
    BY <1>3, <2>1, <2>4, <2>5
<1> HIDE DEF u1
<1>5. b[0] = 0 /\ q[1] = v + 256 + 512 * x /\ v \in 0 .. 255 /\ x \in Nat
  <2>0. v \in 0 .. 255 /\ x \in Nat /\ q[0] = 2 * v + 512 + 1024 * x
    BY DEF StartsWith
  <2>1. b[0] \in {0, 1} /\ q[0] = 2 * q[1] + b[0] /\ q[1] \in Nat
    BY <1>0
  <2> QED
    BY <2>0, <2>1
<1>6. /\ q[9] \in Nat /\ q[10] \in Nat /\ b[9] \in {0, 1} /\ q[9] = 2 * q[10] + b[9]
      /\ v + 256 + 512 * x = u1 + 256 * q[9]
  BY <1>0, <1>4, <1>5
<1>7. PICK d \in Int : d = q[9] - 1 - 2 * x
  BY <1>5, <1>6
<1>8. v - u1 = 256 * d /\ v - u1 >= -255 /\ v - u1 <= 255
  BY <1>4, <1>5, <1>6, <1>7
<1>9. d = 0
  BY <1>8
<1>10. v = u1 /\ q[9] = 1 + 2 * x
  <2>1. v - u1 = 0 /\ u1 \in Int
    BY <1>4, <1>5, <1>8, <1>9
  <2>2. q[9] - 1 - 2 * x = 0 /\ q[9] \in Int
    BY <1>5, <1>6, <1>7, <1>9
  <2> QED
    BY <1>5, <2>1, <2>2
<1>11. b[9] = 1 /\ q[10] = x
  BY <1>5, <1>6, <1>10
<1> QED
  BY <1>5, <1>10, <1>11 DEF u1, u3, u5, u7

(* The ten bits a receiver has read of a register.                         *)
BitsOf(q, bits) == \A i \in 1 .. 10 : bits[i] = q[i - 1] % 2

LEMMA Decoded ==
    ASSUME NEW v, NEW x, NEW y, StartsWith(y, v, x), NEW q, Shifts(q, y),
           NEW bits, BitsOf(q, bits)
    PROVE  q[0] % 2 = 0 /\ q[9] % 2 = 1 /\ q[10] = x /\ Decode(bits) = v
<1> DEFINE b == [i \in 0 .. 9 |-> q[i] % 2]
<1>1. BitByBit(q, b)
  BY ShiftStep DEF BitByBit
<1>2. StartsWith(q[0], v, x)
  BY DEF Shifts, StartsWith
<1>3. /\ bits[1] = b[0] /\ bits[2] = b[1] /\ bits[3] = b[2] /\ bits[4] = b[3]
      /\ bits[5] = b[4] /\ bits[6] = b[5] /\ bits[7] = b[6] /\ bits[8] = b[7]
      /\ bits[9] = b[8] /\ bits[10] = b[9]
  <2>1. \A i \in 1 .. 10 : i - 1 \in 0 .. 9 /\ bits[i] = b[i - 1]
    BY DEF BitsOf
  <2> HIDE DEF b
  <2> QED
    BY <2>1
<1>4. b[0] = q[0] % 2 /\ b[9] = q[9] % 2
  OBVIOUS
<1> HIDE DEF b
<1>5. /\ b[0] = 0 /\ b[9] = 1 /\ q[10] = x
      /\ v = b[1] + 2 * (b[2] + 2 * (b[3] + 2 * (b[4] + 2 * (b[5] + 2 * (b[6]
                  + 2 * (b[7] + 2 * b[8]))))))
  BY <1>1, <1>2, Unframed
<1>6. Decode(bits) = v
  BY <1>3, <1>5 DEF Decode, FrameBits
<1> QED
  BY <1>4, <1>5, <1>6
-----------------------------------------------------------------------------
(* The bytes of a call that are still to be sent, and the registers that   *)
(* hold them: n bits in x.                                                 *)
Queue(rest, n, x) ==
    \/ rest = <<>> /\ n = 0 /\ x = 0
    \/ \E v \in 0 .. 255 : rest = <<v>> /\ n = 10 /\ x = 2 * v + 512
    \/ rest = <<13, 10>> /\ n = 20 /\ x = 538 + 1024 * 532

LEMMA QueueType ==
    ASSUME NEW rest, NEW n, NEW x, Queue(rest, n, x)
    PROVE  rest \in Seq(Int) /\ n \in {0, 10, 20} /\ x \in Nat /\ (n = 0 => rest = <<>> /\ x = 0)
<1>1. CASE rest = <<>> /\ n = 0 /\ x = 0
  BY <1>1
<1>2. CASE \E v \in 0 .. 255 : rest = <<v>> /\ n = 10 /\ x = 2 * v + 512
  <2>1. PICK v \in 0 .. 255 : rest = <<v>> /\ n = 10 /\ x = 2 * v + 512
    BY <1>2
  <2>2. <<v>> \in Seq(Int) /\ 2 * v + 512 \in Nat
    OBVIOUS
  <2> QED
    BY <2>1, <2>2
<1>3. CASE rest = <<13, 10>> /\ n = 20 /\ x = 538 + 1024 * 532
  BY <1>3
<1> QED
  BY <1>1, <1>2, <1>3 DEF Queue

LEMMA QueueNext ==
    ASSUME NEW rest, NEW n, NEW x, Queue(rest, n, x), n # 0
    PROVE  \E v, after, y : /\ StartsWith(x, v, y)
                            /\ rest = <<v>> \o after
                            /\ Queue(after, n - 10, y)
<1>1. CASE \E v \in 0 .. 255 : rest = <<v>> /\ n = 10 /\ x = 2 * v + 512
  <2>1. PICK v \in 0 .. 255 : rest = <<v>> /\ n = 10 /\ x = 2 * v + 512
    BY <1>1
  <2>2. rest = <<v>> \o <<>>
    <3>1. v \in Int /\ <<v>> \in Seq(Int)
      OBVIOUS
    <3> QED
      BY <2>1, <3>1, ConcatEmptySeq
  <2>3. StartsWith(x, v, 0)
    BY <2>1 DEF StartsWith
  <2>4. Queue(<<>>, n - 10, 0)
    BY <2>1 DEF Queue
  <2> QED
    BY <2>2, <2>3, <2>4
<1>2. CASE rest = <<13, 10>> /\ n = 20 /\ x = 538 + 1024 * 532
  <2>1. rest = <<13>> \o <<10>>
    BY <1>2
  <2>2. StartsWith(x, 13, 532)
    BY <1>2 DEF StartsWith
  <2>3. Queue(<<10>>, n - 10, 532)
    BY <1>2 DEF Queue
  <2> QED
    BY <2>1, <2>2, <2>3
<1>3. ~(rest = <<>> /\ n = 0 /\ x = 0)
  OBVIOUS
<1> QED
  BY <1>1, <1>2, <1>3 DEF Queue

(* What the frame has made of a byte.                                      *)
LEMMA QueueFramed ==
    ASSUME NEW c \in 0 .. 255, NEW r, r.a0 = Framed(c)[1], r.t1 = Framed(c)[2]
    PROVE  Queue(Payload(r), r.t1, r.a0) /\ r.t1 # 0
<1>1. c % 256 = c
  OBVIOUS
<1>2. CASE c = 10
  <2>1. Framed(c) = <<532 * 1024 + 13 * 2 + 512, 20>>
    BY <1>1, <1>2 DEF Framed, LF, CR
  <2>2. r.t1 = 20 /\ r.a0 = 538 + 1024 * 532
    BY <2>1
  <2>3. Payload(r) = <<13, 10>>
    BY <2>2 DEF Payload, LF, CR
  <2> QED
    BY <2>2, <2>3 DEF Queue
<1>3. CASE c # 10
  <2>1. Framed(c) = <<c * 2 + 512, 10>>
    BY <1>1, <1>3 DEF Framed, LF
  <2>2. r.t1 = 10 /\ r.a0 = 2 * c + 512
    BY <2>1
  <2>3. (2 * c + 512) \div 2 = c + 256 /\ (c + 256) % 256 = c
    OBVIOUS
  <2>4. Payload(r) = <<c>>
    BY <2>2, <2>3 DEF Payload
  <2> QED
    BY <2>2, <2>4 DEF Queue
<1> QED
  BY <1>2, <1>3

LEMMA FieldsOfRx ==
    ASSUME NEW r, r = [left |-> r.left, bits |-> r.bits, heard |-> r.heard], NEW b
    PROVE  /\ [r EXCEPT !.left = b] = [left |-> b, bits |-> r.bits, heard |-> r.heard]
           /\ [r EXCEPT !.bits = b] = [left |-> r.left, bits |-> b, heard |-> r.heard]
OBVIOUS

(* The receiver, case by case.                                             *)
LEMMA ListenCases ==
    ASSUME NEW r, r = [left |-> r.left, bits |-> r.bits, heard |-> r.heard],
           r.left \in Nat, Len(r.bits) \in 0 .. 9, r.bits \in Seq({0, 1}), NEW level \in {0, 1}
    PROVE  /\ r.left = 0 /\ level = 1 => Listen(r, level) = r
           /\ r.left = 0 /\ level = 0 =>
                Listen(r, level) = [left |-> Half, bits |-> r.bits, heard |-> r.heard]
           /\ r.left > 1 =>
                Listen(r, level) = [left |-> r.left - 1, bits |-> r.bits, heard |-> r.heard]
           /\ r.left = 1 /\ Len(r.bits) < 9 =>
                Listen(r, level) = [left |-> Period, bits |-> Append(r.bits, level),
                                    heard |-> r.heard]
           /\ r.left = 1 /\ Len(r.bits) = 9 =>
                Listen(r, level) = [left |-> 0, bits |-> <<>>,
                                    heard |-> Append(r.heard, Decode(Append(r.bits, level)))]
<1> DEFINE bits == Append(r.bits, level)
<1>1. Len(bits) = Len(r.bits) + 1 /\ FrameBits = 10
  BY DEF FrameBits
<1>2. Listen(r, level) =
        CASE r.left = 0 /\ level = 1 -> r
          [] r.left = 0 /\ level = 0 -> [r EXCEPT !.left = Half]
          [] r.left > 1 -> [r EXCEPT !.left = r.left - 1]
          [] r.left = 1 /\ Len(bits) < FrameBits -> [r EXCEPT !.left = Period, !.bits = bits]
          [] r.left = 1 /\ Len(bits) = FrameBits ->
               [left |-> 0, bits |-> <<>>, heard |-> Append(r.heard, Decode(bits))]
  BY DEF Listen, Half
<1> HIDE DEF bits
<1>3. CASE r.left = 0
  BY <1>2, <1>3
<1>4. CASE r.left > 1
  <2>1. Listen(r, level) = [r EXCEPT !.left = r.left - 1]
    BY <1>2, <1>4
  <2>2. Listen(r, level) = [left |-> r.left - 1, bits |-> r.bits, heard |-> r.heard]
    BY <2>1, FieldsOfRx
  <2> QED
    BY <1>4, <2>2
<1>5. CASE r.left = 1 /\ Len(r.bits) < 9
  <2>1. Listen(r, level) = [r EXCEPT !.left = Period, !.bits = bits]
    BY <1>1, <1>2, <1>5
  <2>2. [r EXCEPT !.left = Period, !.bits = bits]
          = [[r EXCEPT !.left = Period] EXCEPT !.bits = bits]
    OBVIOUS
  <2> DEFINE f == [r EXCEPT !.left = Period]
  <2>3. f = [left |-> Period, bits |-> r.bits, heard |-> r.heard]
    BY FieldsOfRx
  <2>4. [f EXCEPT !.bits = bits] = [left |-> Period, bits |-> bits, heard |-> r.heard]
    <3> HIDE DEF f
    <3>1. f = [left |-> f.left, bits |-> f.bits, heard |-> f.heard]
          /\ f.left = Period /\ f.heard = r.heard
      BY <2>3
    <3>2. [f EXCEPT !.bits = bits] = [left |-> f.left, bits |-> bits, heard |-> f.heard]
      BY <3>1, FieldsOfRx
    <3> QED
      BY <3>1, <3>2
  <2> QED
    BY <1>5, <2>1, <2>2, <2>4 DEF bits
<1>6. CASE r.left = 1 /\ Len(r.bits) = 9
  BY <1>1, <1>2, <1>6 DEF bits
<1> QED
  BY <1>3, <1>4, <1>5, <1>6
-----------------------------------------------------------------------------
(* A call of putchar that has the wire to itself.                          *)
Sending == stack # <<>> /\ Regs.pc \in Late

TimerType == timer \in [left : Int, irqFlag : {0, 1}] /\ timer.left \in 1 .. Period

RxType == rx \in [left : 0 .. Period, bits : Seq({0, 1}), heard : Seq(Int)]

(* Before it has the wire, a call holds a byte, or the frames made of it.  *)
HoldsByte(r) ==
    /\ r.pc = "frame" => r.a0 \in 0 .. 255
    /\ r.pc \in {"saveSr", "mask"} =>
         \E c \in 0 .. 255 : r.a0 = Framed(c)[1] /\ r.t1 = Framed(c)[2]

CallPart == \A i \in 1 .. Len(stack) : HoldsByte(stack[i])

Quiet == rx.left = 0 /\ rx.bits = <<>> /\ WireOf(joy) = 1

(* Between two frames the registers r hold the bytes not heard yet.        *)
Between(r) ==
    /\ Quiet
    /\ \E rest : spoken = rx.heard \o rest /\ Queue(rest, r.t1, r.a0)
    /\ r.pc = "restore" => r.t1 = 0
    /\ r.pc \in {"target", "mode", "write"} => r.t1 # 0

(* The bit of the register q that was written last, as the m-th.           *)
OutIs(q, m) == WireOf(joy) = q[m - 1] % 2

(* Of the frame of v, m bits have been written, and some of them read; the *)
(* register still holds the others, and the frames of rest above them.     *)
OnWire(r, v, rest, n, x, q, m) ==
    /\ Queue(rest, n, x) /\ Shifts(q, 2 * v + 512 + 1024 * x)
    /\ spoken = rx.heard \o (<<v>> \o rest)
    /\ r.t1 = n + 10 - m /\ r.a0 = q[m]
    /\ OutIs(q, m)
    /\ Len(rx.bits) \in 0 .. 9
    /\ \A i \in 1 .. Len(rx.bits) : rx.bits[i] = q[i - 1] % 2

InPhase(r, m, s) ==
    Phase(r.pc = "write", r.t2 = timer.irqFlag, Elapsed, m, Len(rx.bits), s, rx.left)

InFrame(r) ==
    /\ r.pc \in {"write", "wait"}
    /\ \E rest, n, x, q : \E v \in 0 .. 255, m \in 1 .. 10, s \in 2 .. 4 :
          OnWire(r, v, rest, n, x, q, m) /\ InPhase(r, m, s)

InTime(r) ==
    r.pc \in {"write", "wait"} =>
       Clock(r.pc = "write", r.t2 = timer.irqFlag, Elapsed, late)

(* Whoever has the wire has it alone, in time; nobody has it while it is   *)
(* not quiet, and then everything has been heard.                          *)
WireInv ==
    /\ TimerType /\ late \in BOOLEAN
    /\ RxType /\ spoken \in Seq(Int)
    /\ CallPart
    /\ ~Sending => Quiet /\ rx.heard = spoken
    /\ Sending => InTime(Regs) /\ (Between(Regs) \/ InFrame(Regs))

LEMMA WireBit == \A c : WireOf(c) \in {0, 1}
BY DEF WireOf

LEMMA WrittenBit ==
    ASSUME NEW a \in Nat
    PROVE  WireOf((1 - (a % 2)) * 8192 + 2) = a % 2
<1>1. a % 2 \in {0, 1}
  BY Halved
<1>2. CASE a % 2 = 0
  <2>1. (1 - (a % 2)) * 8192 + 2 = 8194
    BY <1>2
  <2>2. ((8194 \div 8192) % 2) = 1 /\ ((8194 \div 2) % 2) = 1
    OBVIOUS
  <2> QED
    BY <1>2, <2>1, <2>2 DEF WireOf
<1>3. CASE a % 2 = 1
  <2>1. (1 - (a % 2)) * 8192 + 2 = 2
    BY <1>3
  <2>2. ((2 \div 8192) % 2) = 0
    OBVIOUS
  <2> QED
    BY <1>3, <2>1, <2>2 DEF WireOf
<1> QED
  BY <1>1, <1>2, <1>3

LEMMA Moved ==
    ASSUME NEW h \in Seq(Int), NEW v \in Int, NEW rest \in Seq(Int)
    PROVE  /\ h \o (<<v>> \o rest) = Append(h, v) \o rest
           /\ Append(h, v) \in Seq(Int)
<1>1. <<v>> \in Seq(Int)
  OBVIOUS
<1>2. h \o (<<v>> \o rest) = (h \o <<v>>) \o rest
  BY <1>1, ConcatAssociative
<1>3. h \o <<v>> = Append(h, v)
  OBVIOUS
<1>4. Append(h, v) \in Seq(Int)
  OBVIOUS
<1> QED
  BY <1>2, <1>3, <1>4, Zenon

LEMMA RxFields ==
    ASSUME RxType
    PROVE  /\ rx = [left |-> rx.left, bits |-> rx.bits, heard |-> rx.heard]
           /\ rx.left \in Nat /\ rx.left \in 0 .. Period
           /\ rx.bits \in Seq({0, 1}) /\ Len(rx.bits) \in Nat
           /\ rx.heard \in Seq(Int)
<1>1. /\ rx = [left |-> rx.left, bits |-> rx.bits, heard |-> rx.heard]
      /\ rx.left \in 0 .. Period /\ rx.bits \in Seq({0, 1}) /\ rx.heard \in Seq(Int)
  BY DEF RxType
<1>2. rx.left \in Nat
  BY <1>1, HalfBounds
<1>3. Len(rx.bits) \in Nat
  BY <1>1
<1> QED
  BY <1>1, <1>2, <1>3

LEMMA RxMade ==
    ASSUME NEW l \in 0 .. Period, NEW bs \in Seq({0, 1}), NEW h \in Seq(Int),
           rx' = [left |-> l, bits |-> bs, heard |-> h]
    PROVE  RxType' /\ rx'.left = l /\ rx'.bits = bs /\ rx'.heard = h
BY DEF RxType

(* A quiet wire stays so, and nothing is heard, while it is left high.     *)
LEMMA StaysQuiet ==
    ASSUME RxType, Quiet, WireOf(joy') = 1, rx' = Listen(rx, WireOf(joy'))
    PROVE  rx' = rx /\ Quiet'
<1>1. rx.left = 0 /\ rx.bits = <<>>
  BY DEF Quiet
<1>2. Len(rx.bits) = 0 /\ 0 \in 0 .. 9 /\ 1 \in {0, 1}
  BY <1>1
<1>3. Listen(rx, 1) = rx
  <2>1. Len(rx.bits) \in 0 .. 9
    BY <1>2
  <2> QED
    BY <1>1, <1>2, <2>1, RxFields, ListenCases
<1>4. rx' = rx
  BY <1>3
<1> QED
  BY <1>1, <1>4 DEF Quiet

(* The registers a once k bits of the frame have been written.             *)
Written(a, n, q, k) ==
    /\ a.pc \in {"write", "wait", "restore"}
    /\ a.pc = "restore" => a.t1 = 0
    /\ a.pc = "write" => a.t1 # 0
    /\ a.t1 = n + 10 - k /\ a.a0 = q[k]

(* The receiver samples in time.                                           *)
Timely(a, k, s) ==
    /\ rx.left # 0
    /\ rx.left > 1 =>
         /\ a.pc # "restore"
         /\ Phase(a.pc = "write", a.t2 = timer'.irqFlag, Elapsed', k, Len(rx.bits), s,
                  rx.left - 1)
    /\ rx.left = 1 =>
         /\ Len(rx.bits) = k - 1
         /\ Len(rx.bits) < 9 =>
              Phase(a.pc = "write", a.t2 = timer'.irqFlag, Elapsed', k, Len(rx.bits) + 1, s,
                    Period)

(* A step of a frame after which k bits have been written.                 *)
LEMMA FrameStep ==
    ASSUME RxType, rx' = Listen(rx, WireOf(joy')), spoken' = spoken,
           NEW r, NEW v \in 0 .. 255, NEW rest, NEW n, NEW x, NEW q, NEW m,
           OnWire(r, v, rest, n, x, q, m),
           NEW a, NEW k \in 1 .. 10, Written(a, n, q, k), OutIs(q, k)',
           NEW s \in 2 .. 4, Timely(a, k, s)
    PROVE  RxType' /\ (Between(a)' \/ InFrame(a)')
<1>1. /\ rx = [left |-> rx.left, bits |-> rx.bits, heard |-> rx.heard]
      /\ rx.left \in Nat /\ rx.bits \in Seq({0, 1}) /\ rx.left \in 0 .. Period
      /\ rx.heard \in Seq(Int)
  BY RxFields
<1>2. WireOf(joy') \in {0, 1}
  BY WireBit
<1>3. Len(rx.bits) \in 0 .. 9
  BY DEF OnWire
<1>4. PICK level \in {0, 1} : level = WireOf(joy')
  BY <1>2
<1>5. rx' = Listen(rx, level)
  BY <1>4
<1>6. n \in {0, 10, 20} /\ x \in Nat /\ rest \in Seq(Int) /\ Queue(rest, n, x)
  BY QueueType DEF OnWire
<1>7. PICK b \in 0 .. 9 : b = Len(rx.bits)
  BY <1>3
<1>8. CASE rx.left > 1
  <2>1. rx' = [left |-> rx.left - 1, bits |-> rx.bits, heard |-> rx.heard]
    BY <1>1, <1>3, <1>5, <1>8, ListenCases
  <2>2. rx.left - 1 \in 0 .. Period
    BY <1>1, <1>8, HalfBounds
  <2>3. RxType' /\ rx'.left = rx.left - 1 /\ rx'.bits = rx.bits /\ rx'.heard = rx.heard
    BY <1>1, <2>1, <2>2, RxMade
  <2>4. OnWire(a, v, rest, n, x, q, k)'
    BY <2>3 DEF OnWire, Written
  <2>5. /\ a.pc \in {"write", "wait"}
        /\ InPhase(a, k, s)'
    BY <1>8, <2>3 DEF Timely, Written, InPhase
  <2>6. InFrame(a)'
    BY <2>4, <2>5 DEF InFrame
  <2> QED
    BY <2>3, <2>6
<1>9. CASE rx.left = 1 /\ b < 9
  <2>1. rx' = [left |-> Period, bits |-> Append(rx.bits, level), heard |-> rx.heard]
    BY <1>1, <1>3, <1>5, <1>7, <1>9, ListenCases
  <2>2. Append(rx.bits, level) \in Seq({0, 1})
    BY <1>1
  <2>3. Period \in 0 .. Period
    BY HalfBounds
  <2>4. /\ RxType' /\ rx'.left = Period /\ rx'.bits = Append(rx.bits, level)
        /\ rx'.heard = rx.heard
    BY <1>1, <2>1, <2>2, <2>3, RxMade
  <2>5. /\ Len(rx'.bits) = b + 1 /\ rx'.bits[b + 1] = level
        /\ \A i \in 1 .. b : rx'.bits[i] = rx.bits[i]
    <3>1. PICK bs \in Seq({0, 1}) : bs = rx.bits
      BY <1>1
    <3>2. /\ Len(Append(bs, level)) = Len(bs) + 1
          /\ Append(bs, level)[Len(bs) + 1] = level
          /\ \A i \in 1 .. Len(bs) : Append(bs, level)[i] = bs[i]
      OBVIOUS
    <3> QED
      BY <1>7, <2>4, <3>1, <3>2
  <2>6. b = k - 1
    BY <1>7, <1>9 DEF Timely
  <2>7. ASSUME NEW i \in 1 .. b + 1 PROVE rx'.bits[i] = q[i - 1] % 2
    <3>1. CASE i = b + 1
      <4>1. i = k
        BY <2>6, <3>1
      <4>2. rx'.bits[i] = level
        BY <2>5, <3>1
      <4> QED
        BY <1>4, <4>1, <4>2 DEF OutIs
    <3>2. CASE i \in 1 .. b
      <4>1. rx.bits[i] = q[i - 1] % 2
        BY <1>7, <3>2 DEF OnWire
      <4> QED
        BY <2>5, <3>2, <4>1
    <3> QED
      BY <1>7, <3>1, <3>2
  <2>8. OnWire(a, v, rest, n, x, q, k)'
    <3>0. b + 1 \in 0 .. 9
      BY <1>9
    <3>1. Len(rx'.bits) \in 0 .. 9
      BY <2>5, <3>0
    <3>2. \A i \in 1 .. Len(rx'.bits) : rx'.bits[i] = q[i - 1] % 2
      BY <2>5, <2>7
    <3> QED
      BY <2>4, <3>1, <3>2 DEF OnWire, Written
  <2>9. InPhase(a, k, s)'
    BY <1>7, <1>9, <2>4, <2>5 DEF Timely, InPhase
  <2>10. a.pc \in {"write", "wait"}
    <3>1. a.t1 = n + 10 - k /\ k <= 9
      BY <1>7, <1>9, <2>6 DEF Written
    <3>2. a.t1 # 0
      BY <1>6, <3>1
    <3> QED
      BY <3>2 DEF Written
  <2>11. InFrame(a)'
    BY <2>8, <2>9, <2>10 DEF InFrame
  <2> QED
    BY <2>4, <2>11
<1>10. CASE rx.left = 1 /\ b = 9
  <2>1. PICK bits : bits = Append(rx.bits, level)
    OBVIOUS
  <2>2. rx' = [left |-> 0, bits |-> <<>>, heard |-> Append(rx.heard, Decode(bits))]
    BY <1>1, <1>3, <1>5, <1>7, <1>10, <2>1, ListenCases
  <2>3. k = 10
    BY <1>7, <1>10 DEF Timely
  <2>4. level = q[9] % 2
    <3>1. k - 1 = 9
      BY <2>3
    <3> QED
      BY <1>4, <3>1 DEF OutIs
  <2>5. bits[10] = level /\ \A i \in 1 .. 9 : bits[i] = rx.bits[i]
    <3>1. PICK bs \in Seq({0, 1}) : bs = rx.bits
      BY <1>1
    <3>2. /\ Append(bs, level)[Len(bs) + 1] = level
          /\ \A i \in 1 .. Len(bs) : Append(bs, level)[i] = bs[i]
      OBVIOUS
    <3>3. Len(bs) = 9
      BY <1>7, <1>10, <3>1
    <3>4. bits = Append(bs, level) /\ rx.bits = bs
      BY <2>1, <3>1
    <3>5. /\ Append(bs, level)[9 + 1] = level
          /\ \A i \in 1 .. 9 : Append(bs, level)[i] = bs[i]
      BY <3>2, <3>3
    <3>6. 9 + 1 = 10
      OBVIOUS
    <3> QED
      BY <3>4, <3>5, <3>6
  <2>6. ASSUME NEW i \in 1 .. 10 PROVE bits[i] = q[i - 1] % 2
    <3>1. CASE i = 10
      BY <2>4, <2>5, <3>1
    <3>2. CASE i \in 1 .. 9
      <4>1. i \in 1 .. Len(rx.bits)
        BY <1>7, <1>10, <3>2
      <4>2. rx.bits[i] = q[i - 1] % 2
        BY <4>1 DEF OnWire
      <4> QED
        BY <2>5, <3>2, <4>2
    <3> QED
      BY <3>1, <3>2
  <2>7. /\ Shifts(q, 2 * v + 512 + 1024 * x)
        /\ spoken = rx.heard \o (<<v>> \o rest)
    BY DEF OnWire
  <2>8. Decode(bits) = v /\ q[10] = x /\ q[9] % 2 = 1
    <3>1. BitsOf(q, bits)
      BY <2>6 DEF BitsOf
    <3>2. PICK y : y = 2 * v + 512 + 1024 * x
      OBVIOUS
    <3>3. Shifts(q, y) /\ StartsWith(y, v, x)
      BY <1>6, <2>7, <3>2 DEF StartsWith
    <3> QED
      BY <3>1, <3>3, Decoded
  <2>9. v \in Int
    OBVIOUS
  <2>10. /\ rx.heard \o (<<v>> \o rest) = Append(rx.heard, v) \o rest
         /\ Append(rx.heard, v) \in Seq(Int)
    BY <1>1, <1>6, <2>9, Moved
  <2>11. 0 \in 0 .. Period /\ <<>> \in Seq({0, 1})
    BY HalfBounds
  <2>12. /\ RxType' /\ rx'.left = 0 /\ rx'.bits = <<>>
         /\ rx'.heard = Append(rx.heard, v)
    BY <2>2, <2>8, <2>10, <2>11, RxMade
  <2>13. Quiet'
    BY <1>4, <2>4, <2>8, <2>12 DEF Quiet
  <2>14. Queue(rest, a.t1, a.a0)
    <3>1. a.t1 = n + 10 - 10 /\ a.a0 = q[10]
      BY <2>3 DEF Written
    <3>2. a.t1 = n /\ a.a0 = x
      BY <1>6, <2>8, <3>1
    <3> QED
      BY <1>6, <3>2
  <2>15. spoken' = rx'.heard \o rest
    <3>1. spoken' = Append(rx.heard, v) \o rest
      BY <2>7, <2>10, Zenon
    <3> QED
      BY <2>12, <3>1, Zenon
  <2>16. Between(a)'
    BY <2>13, <2>14, <2>15 DEF Between, Written
  <2> QED
    BY <2>12, <2>16
<1>11. rx.left > 1 \/ rx.left = 1
  BY <1>1 DEF Timely
<1>12. b < 9 \/ b = 9
  OBVIOUS
<1> QED
  BY <1>8, <1>9, <1>10, <1>11, <1>12

(* What a tick does to the clock and to the receiver's time.               *)
LEMMA Ticks ==
    ASSUME TimerType, timer' = TimerTick(timer), NEW t \in {0, 1}
    PROVE  /\ TimerType'
           /\ Elapsed \in 0 .. Period - 1 /\ Elapsed' = NextElapsed(Elapsed)
           /\ (t = timer'.irqFlag) = IF Elapsed = Period - 1 THEN ~(t = timer.irqFlag)
                                                            ELSE t = timer.irqFlag
<1>1. /\ timer'.left \in 1 .. Period /\ timer'.irqFlag \in {0, 1}
      /\ Elapsed \in 0 .. Period - 1
      /\ Elapsed' = NextElapsed(Elapsed)
      /\ timer'.irqFlag = IF Elapsed = Period - 1 THEN 1 - timer.irqFlag
                                                  ELSE timer.irqFlag
  BY TimerTicks DEF TimerType
<1>2. timer' \in [left : Int, irqFlag : {0, 1}]
  BY HalfBounds DEF TimerType, TimerTick
<1>3. PICK f \in {0, 1} : f = timer.irqFlag
  BY DEF TimerType
<1>4. PICK g \in {0, 1} : g = timer'.irqFlag
  BY <1>1
<1>5. CASE Elapsed = Period - 1
  <2>1. g = 1 - f
    BY <1>1, <1>3, <1>4, <1>5
  <2>2. (t = g) = ~(t = f)
    BY <2>1
  <2> QED
    BY <1>1, <1>2, <1>3, <1>4, <1>5, <2>2 DEF TimerType
<1>6. CASE Elapsed # Period - 1
  <2>1. g = f
    BY <1>1, <1>3, <1>4, <1>6
  <2> QED
    BY <1>1, <1>2, <1>3, <1>4, <1>6, <2>1 DEF TimerType
<1> QED
  BY <1>5, <1>6

(* A call is held up, or polls the flag and finds it as before.            *)
LEMMA TimelyTick ==
    ASSUME TimerType, timer' = TimerTick(timer), RxType, late \in BOOLEAN,
           NEW r, r.pc \in {"write", "wait"}, r.t2 \in {0, 1}, InTime(r),
           ~late \/ (r.pc = "wait" /\ r.t2 = timer.irqFlag),
           NEW m \in 1 .. 10, NEW s \in 2 .. 4, InPhase(r, m, s)
    PROVE  Timely(r, m, s)
<1>1. PICK w \in BOOLEAN : w = (r.pc = "write")
  OBVIOUS
<1>2. PICK same \in BOOLEAN : same = (r.t2 = timer.irqFlag)
  OBVIOUS
<1>3. PICK e \in 0 .. Period - 1 : e = Elapsed
  BY Ticks
<1>4. PICK b \in Int : b = Len(rx.bits)
  BY RxFields
<1>5. PICK left \in Int : left = rx.left
  BY RxFields
<1>6. PICK held \in BOOLEAN : held = late
  OBVIOUS
<1>7. Clock(w, same, e, held)
  BY <1>1, <1>2, <1>3, <1>6 DEF InTime
<1>8. Phase(w, same, e, m, b, s, left)
  BY <1>1, <1>2, <1>3, <1>4, <1>5 DEF InPhase
<1>9. ~held \/ (~w /\ same)
  BY <1>1, <1>2, <1>6
<1>10. PICK now \in BOOLEAN : now = IF e = Period - 1 THEN ~same ELSE same
  OBVIOUS
<1>11. /\ left > 1 => Phase(w, now, NextElapsed(e), m, b, s, left - 1)
       /\ left = 1 => b = m - 1 /\ Phase(w, now, NextElapsed(e), m, b + 1, s, Period)
  BY <1>7, <1>8, <1>9, <1>10, PhaseTick
<1>12. now = (r.t2 = timer'.irqFlag) /\ Elapsed' = NextElapsed(e)
  BY <1>2, <1>3, <1>10, Ticks
<1>13. left # 0
  BY <1>8 DEF Phase
<1>14. r.pc # "restore"
  OBVIOUS
<1> QED
  BY <1>1, <1>4, <1>5, <1>11, <1>12, <1>13, <1>14 DEF Timely

(* A call sees the flag toggle: it goes on with registers a.               *)
Seen(a, n, m) ==
    /\ a.t1 = n + 10 - m /\ a.t2 = timer.irqFlag
    /\ a.pc = IF a.t1 # 0 THEN "write" ELSE "restore"

LEMMA TimelySeen ==
    ASSUME TimerType, timer' = TimerTick(timer), RxType, late \in BOOLEAN,
           NEW r, r.pc = "wait", r.t2 \in {0, 1}, r.t2 # timer.irqFlag, InTime(r),
           NEW m \in 1 .. 10, NEW s \in 2 .. 4, InPhase(r, m, s), Len(rx.bits) \in 0 .. 9,
           NEW a, NEW n \in {0, 10, 20}, Seen(a, n, m)
    PROVE  Timely(a, m, s)
<1>1. PICK e \in 0 .. Period - 1 : e = Elapsed
  BY Ticks
<1>2. PICK b \in 0 .. 9 : b = Len(rx.bits)
  OBVIOUS
<1>3. PICK left \in Int : left = rx.left
  BY RxFields
<1>4. PICK held \in BOOLEAN : held = late
  OBVIOUS
<1>5. (r.pc = "write") = FALSE /\ (r.t2 = timer.irqFlag) = FALSE
  OBVIOUS
<1>6. Clock(FALSE, FALSE, e, held)
  BY <1>1, <1>4, <1>5 DEF InTime
<1>7. Phase(FALSE, FALSE, e, m, b, s, left)
  BY <1>1, <1>2, <1>3, <1>5 DEF InPhase
<1>8. b \in Int /\ m \in Int
  OBVIOUS
<1>9. /\ left > 1 => b = m /\ Phase(TRUE, TRUE, NextElapsed(e), m, b, s, left - 1)
      /\ left = 1 => b = m - 1 /\ Phase(TRUE, TRUE, NextElapsed(e), m, b + 1, s, Period)
  <2>1. (left > 1 => b = m /\ Phase(TRUE, TRUE, NextElapsed(e), m, b, s, left - 1))
    BY <1>6, <1>7, <1>8, PhaseSeen
  <2>2. (left = 1 => b = m - 1 /\ Phase(TRUE, TRUE, NextElapsed(e), m, b + 1, s, Period))
    <3> SUFFICES ASSUME left = 1
                 PROVE  b = m - 1 /\ Phase(TRUE, TRUE, NextElapsed(e), m, b + 1, s, Period)
      OBVIOUS
    <3>1. Phase(FALSE, FALSE, e, m, b, s, 1)
      BY <1>7
    <3> QED
      BY <1>6, <1>8, <3>1, PhaseSeenLast
  <2> QED
    BY <2>1, <2>2
<1>10. e # Period - 1
  BY <1>6, ClockSeen
<1>11. timer.irqFlag \in {0, 1}
  BY DEF TimerType
<1>12. (a.t2 = timer'.irqFlag) = TRUE /\ Elapsed' = NextElapsed(e)
  <2>1. PICK t \in {0, 1} : t = a.t2 /\ t = timer.irqFlag
    BY <1>11 DEF Seen
  <2>2. (t = timer'.irqFlag) = (t = timer.irqFlag)
    BY <1>1, <1>10, Ticks
  <2> QED
    BY <1>1, <2>1, <2>2, Ticks
<1>13. left # 0
  BY <1>7 DEF Phase
<1>14. left > 1 \/ (left = 1 /\ b < 9) => (a.pc = "write") = TRUE /\ a.pc # "restore"
  <2>1. left > 1 \/ (left = 1 /\ b < 9) => m <= 9
    <3>1. left > 1 => b = m
      BY <1>9
    <3>2. left = 1 => b = m - 1
      BY <1>9
    <3> QED
      BY <3>1, <3>2
  <2>2. m <= 9 => n + 10 - m # 0
    OBVIOUS
  <2>3. m <= 9 => a.t1 # 0
    BY <2>2 DEF Seen
  <2> QED
    BY <2>1, <2>3 DEF Seen
<1> QED
  BY <1>2, <1>3, <1>9, <1>12, <1>13, <1>14 DEF Timely

(* A call writes the next bit.                                             *)
LEMMA TimelyWritten ==
    ASSUME TimerType, timer' = TimerTick(timer), RxType, late \in BOOLEAN,
           NEW r, r.pc = "write", r.t2 \in {0, 1}, InTime(r),
           NEW m \in 1 .. 10, NEW s \in 2 .. 4, InPhase(r, m, s), Len(rx.bits) \in 0 .. 9,
           NEW a, a.pc = "wait", a.t2 = r.t2
    PROVE  Timely(a, m + 1, s) /\ m + 1 \in 1 .. 10
<1>1. PICK e \in 0 .. Period - 1 : e = Elapsed
  BY Ticks
<1>2. PICK b \in 0 .. 9 : b = Len(rx.bits)
  OBVIOUS
<1>3. PICK left \in Int : left = rx.left
  BY RxFields
<1>4. PICK held \in BOOLEAN : held = late
  OBVIOUS
<1>5. PICK same \in BOOLEAN : same = (r.t2 = timer.irqFlag)
  OBVIOUS
<1>6. (r.pc = "write") = TRUE /\ (a.pc = "write") = FALSE
  OBVIOUS
<1>7. Clock(TRUE, same, e, held)
  BY <1>1, <1>4, <1>5, <1>6 DEF InTime
<1>8. same = TRUE
  BY <1>7 DEF Clock
<1>9. Phase(TRUE, TRUE, e, m, b, s, left)
  BY <1>1, <1>2, <1>3, <1>5, <1>6, <1>8 DEF InPhase
<1>10. b \in Int /\ m \in Int
  OBVIOUS
<1>11. left > 1 /\ b = m /\ Phase(FALSE, TRUE, NextElapsed(e), m + 1, b, s, left - 1)
  BY <1>7, <1>8, <1>9, <1>10, PhaseWritten
<1>12. e # Period - 1
  BY <1>7, <1>8, ClockWritten
<1>13. (a.t2 = timer'.irqFlag) = TRUE /\ Elapsed' = NextElapsed(e)
  <2>1. PICK t \in {0, 1} : t = r.t2
    OBVIOUS
  <2>2. (t = timer'.irqFlag) = (t = timer.irqFlag)
    BY <1>1, <1>12, Ticks
  <2> QED
    BY <1>1, <1>5, <1>8, <2>1, <2>2, Ticks
<1>14. m + 1 \in 1 .. 10
  BY <1>11
<1> QED
  <2>1. left # 0 /\ left # 1 /\ left > 1 /\ a.pc # "restore"
    BY <1>11
  <2>2. Phase(FALSE, TRUE, NextElapsed(e), m + 1, b, s, left - 1)
    BY <1>11
  <2> QED
    BY <1>2, <1>3, <1>6, <1>13, <1>14, <2>1, <2>2 DEF Timely
-----------------------------------------------------------------------------
(* Who has the wire is alone: nothing else can run.                        *)
LEMMA SendsAlone ==
    ASSUME EnablesInv, Sending
    PROVE  ~Handling /\ Masked(sr) /\ stack # <<>>
<1>1. Regs = stack[Len(stack)] /\ Len(stack) \in Nat \ {0} /\ stack # <<>>
  BY Top DEF EnablesInv, Sending
<1>2. Regs.pc # "handler" /\ Regs.pc \in Late
  BY DEF Sending, Late
<1>3. sr = {}
  BY <1>1, <1>2 DEF EnablesInv, EnablesPart, IsHandler
<1> QED
  BY <1>1, <1>2, <1>3 DEF Handling, Masked, Enabled

LEMMA SetCalls ==
    ASSUME UartType, CallPart, stack # <<>>, NEW r \in Registers, SetRegs(r), HoldsByte(r)
    PROVE  CallPart' /\ Regs' = r /\ stack' # <<>>
<1>1. PICK n \in Nat \ {0} : n = Len(stack)
  BY Top
<1>2. /\ Len(stack') = n /\ stack'[n] = r /\ stack' \in Seq(Registers)
      /\ \A i \in 1 .. n - 1 : stack'[i] = stack[i]
  BY <1>1, TopSet
<1>3. \A i \in 1 .. n : HoldsByte(stack'[i])
  <2>1. ASSUME NEW i \in 1 .. n - 1 PROVE HoldsByte(stack'[i])
    <3>1. i \in 1 .. Len(stack) /\ stack'[i] = stack[i]
      BY <1>1, <1>2
    <3> QED
      BY <3>1 DEF CallPart
  <2> QED
    BY <1>1, <1>2, <2>1
<1>4. CallPart'
  BY <1>2, <1>3 DEF CallPart
<1>5. stack' # <<>> /\ Regs' = stack'[n]
  BY <1>2 DEF Regs, Last
<1> QED
  BY <1>2, <1>4, <1>5

LEMMA PushedCalls ==
    ASSUME UartType, CallPart, NEW r \in Registers, stack' = Append(stack, r), HoldsByte(r)
    PROVE  CallPart' /\ Regs' = r /\ stack' # <<>>
<1>1. PICK n \in Nat : n = Len(stack)
  BY DEF UartType
<1>2. /\ Len(stack') = n + 1 /\ stack'[n + 1] = r /\ stack' \in Seq(Registers)
      /\ \A i \in 1 .. n : stack'[i] = stack[i]
  BY <1>1, Pushed
<1>3. \A i \in 1 .. n + 1 : HoldsByte(stack'[i])
  <2>1. ASSUME NEW i \in 1 .. n PROVE HoldsByte(stack'[i])
    BY <1>1, <1>2, <2>1 DEF CallPart
  <2> QED
    BY <1>1, <1>2, <2>1
<1>4. CallPart'
  BY <1>2, <1>3 DEF CallPart
<1>5. stack' # <<>> /\ Regs' = stack'[n + 1]
  BY <1>2 DEF Regs, Last
<1> QED
  BY <1>2, <1>4, <1>5

LEMMA PoppedCalls ==
    ASSUME EnablesInv, CallPart, stack # <<>>, stack' = Front(stack)
    PROVE  CallPart' /\ ~Sending'
<1>1. PICK n \in Nat \ {0} : n = Len(stack)
  BY Top DEF EnablesInv
<1>2. /\ Len(stack') = n - 1 /\ stack' \in Seq(Registers)
      /\ \A i \in 1 .. n - 1 : stack'[i] = stack[i]
  BY <1>1, Popped DEF EnablesInv
<1>3. CallPart'
  <2>1. ASSUME NEW i \in 1 .. n - 1 PROVE HoldsByte(stack'[i])
    <3>1. i \in 1 .. Len(stack) /\ stack'[i] = stack[i]
      BY <1>1, <1>2
    <3> QED
      BY <3>1 DEF CallPart
  <2> QED
    BY <1>2, <2>1 DEF CallPart
<1>4. ~Sending'
  <2>1. \A i \in 1 .. n - 1 : stack[i].pc \notin Late
    BY <1>1 DEF EnablesInv, HandlerPart
  <2>2. CASE n = 1
    <3>1. stack' = <<>>
      BY <1>2, <2>2
    <3> QED
      BY <3>1 DEF Sending
  <2>3. CASE n > 1
    <3>1. Regs' = stack'[n - 1] /\ n - 1 \in 1 .. n - 1
      BY <1>2, <2>3 DEF Regs, Last
    <3>2. Regs'.pc \notin Late
      BY <1>2, <2>1, <3>1
    <3> QED
      BY <3>2 DEF Sending
  <2> QED
    BY <2>2, <2>3
<1> QED
  BY <1>3, <1>4

(* Nobody has the wire, before and after.                                  *)
LEMMA QuietStep ==
    ASSUME WireInv, ~Sending, ~Sending', Elapse(timer, joy), spoken' = spoken,
           late' \in BOOLEAN, CallPart'
    PROVE  WireInv'
<1>1. timer' = TimerTick(timer) /\ joy' = joy /\ rx' = Listen(rx, WireOf(joy'))
  BY DEF Elapse
<1>2. Quiet /\ rx.heard = spoken /\ RxType /\ TimerType
  BY DEF WireInv
<1>3. WireOf(joy') = 1
  BY <1>1, <1>2 DEF Quiet
<1>4. rx' = rx /\ Quiet'
  BY <1>1, <1>2, <1>3, StaysQuiet
<1>5. TimerType'
  <2>1. 0 \in {0, 1}
    OBVIOUS
  <2> QED
    BY <1>1, <1>2, <2>1, Ticks
<1>6. RxType'
  BY <1>2, <1>4 DEF RxType
<1> QED
  BY <1>2, <1>4, <1>5, <1>6 DEF WireInv

(* Somebody has it afterwards, with registers a.                           *)
LEMMA SendStep ==
    ASSUME TimerType', late' \in BOOLEAN, RxType', spoken' \in Seq(Int), CallPart',
           NEW a, Regs' = a, stack' # <<>>, a.pc \in Late, InTime(a)',
           Between(a)' \/ InFrame(a)'
    PROVE  WireInv'
<1>1. Sending'
  BY DEF Sending
<1>2. InTime(Regs)'
  BY DEF InTime
<1>3. CASE Between(a)'
  <2>1. Between(Regs)'
    BY <1>3 DEF Between
  <2> QED
    BY <1>1, <1>2, <2>1 DEF WireInv
<1>4. CASE InFrame(a)'
  <2>1. PICK rest, n, x, q : \E v \in 0 .. 255, m \in 1 .. 10, s \in 2 .. 4 :
           OnWire(a, v, rest, n, x, q, m)' /\ InPhase(a, m, s)'
    BY <1>4 DEF InFrame
  <2>2. PICK v \in 0 .. 255, m \in 1 .. 10, s \in 2 .. 4 :
           OnWire(a, v, rest, n, x, q, m)' /\ InPhase(a, m, s)'
    BY <2>1
  <2>3. OnWire(Regs, v, rest, n, x, q, m)'
    BY <2>2 DEF OnWire
  <2>4. InPhase(Regs, m, s)'
    BY <2>2 DEF InPhase
  <2>5. Regs'.pc \in {"write", "wait"}
    BY <1>4 DEF InFrame
  <2>6. InFrame(Regs)'
    BY <2>3, <2>4, <2>5 DEF InFrame
  <2> QED
    BY <1>1, <1>2, <2>6 DEF WireInv
<1> QED
  BY <1>3, <1>4

(* The steps of a call that does not have the wire yet, and of others.     *)
LEMMA FrameHolds ==
    ASSUME EnablesInv, WireInv, Frame, late' \in BOOLEAN
    PROVE  WireInv'
<1>1. /\ stack # <<>> /\ Regs.pc = "frame" /\ spoken' = spoken /\ Elapse(timer, joy)
      /\ SetRegs([Regs EXCEPT !.pc = "saveSr", !.a0 = Framed(Regs.a0)[1],
                              !.t1 = Framed(Regs.a0)[2]])
  BY DEF Frame, Running
<1>2. Regs = stack[Len(stack)] /\ Regs \in Registers /\ Len(stack) \in Nat \ {0}
  BY <1>1, Top DEF EnablesInv
<1>3. PICK r : r = [Regs EXCEPT !.pc = "saveSr", !.a0 = Framed(Regs.a0)[1],
                                !.t1 = Framed(Regs.a0)[2]]
  OBVIOUS
<1>4. Framed(Regs.a0)[1] \in Int /\ Framed(Regs.a0)[2] \in Int
  BY <1>2 DEF Framed, Registers, LF, CR
<1>5. r \in Registers /\ r.pc = "saveSr"
  BY <1>2, <1>3, <1>4 DEF Registers, Early
<1>6. r.a0 = Framed(Regs.a0)[1] /\ r.t1 = Framed(Regs.a0)[2]
  BY <1>2, <1>3 DEF Registers
<1>7. Regs.a0 \in 0 .. 255
  <2>1. Len(stack) \in 1 .. Len(stack)
    BY <1>2
  <2> QED
    BY <1>1, <1>2, <2>1 DEF WireInv, CallPart, HoldsByte
<1>8. HoldsByte(r)
  BY <1>5, <1>6, <1>7 DEF HoldsByte
<1>9. SetRegs(r)
  BY <1>1, <1>3
<1>10. CallPart' /\ Regs' = r /\ stack' # <<>>
  BY <1>1, <1>5, <1>8, <1>9, SetCalls DEF EnablesInv, WireInv
<1>11. ~Sending /\ ~Sending'
  BY <1>1, <1>5, <1>10 DEF Sending, Late
<1> QED
  BY <1>1, <1>10, <1>11, QuietStep

LEMMA SaveSrHolds ==
    ASSUME EnablesInv, WireInv, SaveSr, late' \in BOOLEAN
    PROVE  WireInv'
<1>1. /\ stack # <<>> /\ Regs.pc = "saveSr" /\ spoken' = spoken /\ Elapse(timer, joy)
      /\ SetRegs([Regs EXCEPT !.pc = "mask", !.t4 = sr])
  BY DEF SaveSr, Running
<1>2. Regs = stack[Len(stack)] /\ Regs \in Registers /\ Len(stack) \in Nat \ {0}
  BY <1>1, Top DEF EnablesInv
<1>3. PICK r : r = [Regs EXCEPT !.pc = "mask", !.t4 = sr]
  OBVIOUS
<1>4. sr \in SUBSET {"IEc", "IM2"}
  BY DEF EnablesInv, EnablesPart, BaseOf, Enabled
<1>5. r \in Registers /\ r.pc = "mask" /\ r.a0 = Regs.a0 /\ r.t1 = Regs.t1
  BY <1>2, <1>3, <1>4 DEF Registers, Early
<1>6. \E c \in 0 .. 255 : Regs.a0 = Framed(c)[1] /\ Regs.t1 = Framed(c)[2]
  <2>1. Len(stack) \in 1 .. Len(stack)
    BY <1>2
  <2> QED
    BY <1>1, <1>2, <2>1 DEF WireInv, CallPart, HoldsByte
<1>7. HoldsByte(r)
  BY <1>5, <1>6 DEF HoldsByte
<1>8. SetRegs(r)
  BY <1>1, <1>3
<1>9. CallPart' /\ Regs' = r /\ stack' # <<>>
  BY <1>1, <1>5, <1>7, <1>8, SetCalls DEF EnablesInv, WireInv
<1>10. ~Sending /\ ~Sending'
  BY <1>1, <1>5, <1>9 DEF Sending, Late
<1> QED
  BY <1>1, <1>9, <1>10, QuietStep

LEMMA PushHolds ==
    ASSUME EnablesInv, WireInv, Call \/ Interrupt
    PROVE  WireInv'
<1>1. ~Sending
  BY SendsAlone DEF Call, Interrupt, Handling, Sending
<1>2. Elapse(timer, joy) /\ spoken' = spoken /\ late' \in BOOLEAN
  BY DEF Call, Interrupt
<1>3. \E r \in Registers : /\ stack' = Append(stack, r) /\ HoldsByte(r)
                           /\ r.pc \notin Late
  <2>1. CASE Call
    <3>1. PICK c \in Bytes : stack' = Append(stack, Activation("frame", c))
      BY <2>1 DEF Call
    <3>2. PICK r : r = Activation("frame", c)
      OBVIOUS
    <3>3. c \in 0 .. 255
      OBVIOUS
    <3>4. r \in Registers /\ r.pc = "frame" /\ r.a0 = c
      BY <3>2, <3>3 DEF Activation, Registers, Early
    <3> QED
      BY <3>1, <3>2, <3>3, <3>4 DEF HoldsByte, Late
  <2>2. CASE Interrupt
    <3>1. PICK r : r = Activation("handler", 0)
      OBVIOUS
    <3>2. r \in Registers /\ r.pc = "handler"
      BY <3>1 DEF Activation, Registers
    <3> QED
      BY <2>2, <3>1, <3>2 DEF Interrupt, HoldsByte, Late
  <2> QED
    BY <2>1, <2>2
<1>4. CallPart' /\ ~Sending'
  BY <1>3, PushedCalls DEF EnablesInv, WireInv, Sending
<1> QED
  BY <1>1, <1>2, <1>4, QuietStep

LEMMA HandlerReturnHolds ==
    ASSUME EnablesInv, WireInv, HandlerReturn
    PROVE  WireInv'
<1>1. stack # <<>> /\ stack' = Front(stack) /\ Regs.pc = "handler"
  BY DEF HandlerReturn, Handling
<1>2. ~Sending
  BY <1>1 DEF Sending, Late
<1>3. CallPart' /\ ~Sending'
  BY <1>1, PoppedCalls DEF WireInv
<1> QED
  BY <1>2, <1>3, QuietStep DEF HandlerReturn

LEMMA ProgramStepHolds ==
    ASSUME EnablesInv, WireInv, ProgramStep
    PROVE  WireInv'
<1>1. stack = <<>> /\ stack' = <<>>
  BY DEF ProgramStep
<1>2. ~Sending /\ ~Sending'
  BY <1>1 DEF Sending
<1>3. CallPart'
  BY <1>1 DEF CallPart
<1> QED
  BY <1>2, <1>3, QuietStep DEF ProgramStep

(* The call takes the wire.                                                *)
LEMMA MaskHolds ==
    ASSUME EnablesInv, WireInv, Mask, late' \in BOOLEAN
    PROVE  WireInv'
<1>1. /\ stack # <<>> /\ Regs.pc = "mask" /\ spoken' = spoken \o Payload(Regs)
      /\ Elapse(timer, joy) /\ SetRegs([Regs EXCEPT !.pc = "target"])
  BY DEF Mask, Running
<1>2. Regs = stack[Len(stack)] /\ Regs \in Registers /\ Len(stack) \in Nat \ {0}
  BY <1>1, Top DEF EnablesInv
<1>3. PICK a : a = [Regs EXCEPT !.pc = "target"]
  OBVIOUS
<1>4. a \in Registers /\ a.pc = "target" /\ a.a0 = Regs.a0 /\ a.t1 = Regs.t1
  BY <1>2, <1>3 DEF Registers, Late
<1>5. HoldsByte(a)
  BY <1>4 DEF HoldsByte
<1>6. CallPart' /\ Regs' = a /\ stack' # <<>>
  BY <1>1, <1>3, <1>4, <1>5, SetCalls DEF EnablesInv, WireInv
<1>7. PICK c \in 0 .. 255 : Regs.a0 = Framed(c)[1] /\ Regs.t1 = Framed(c)[2]
  <2>1. Len(stack) \in 1 .. Len(stack)
    BY <1>2
  <2> QED
    BY <1>1, <1>2, <2>1 DEF WireInv, CallPart, HoldsByte
<1>8. PICK rest : rest = Payload(Regs)
  OBVIOUS
<1>9. Queue(rest, a.t1, a.a0) /\ a.t1 # 0
  BY <1>4, <1>7, <1>8, QueueFramed
<1>10. rest \in Seq(Int)
  BY <1>9, QueueType
<1>11. ~Sending /\ Quiet /\ rx.heard = spoken /\ RxType /\ TimerType
  BY <1>1 DEF WireInv, Sending, Late
<1>12. timer' = TimerTick(timer) /\ joy' = joy /\ rx' = Listen(rx, WireOf(joy'))
  BY <1>1 DEF Elapse
<1>13. WireOf(joy') = 1
  BY <1>11, <1>12 DEF Quiet
<1>14. rx' = rx /\ Quiet' /\ RxType'
  BY <1>11, <1>12, <1>13, StaysQuiet DEF RxType
<1>15. TimerType'
  <2>1. 0 \in {0, 1}
    OBVIOUS
  <2> QED
    BY <1>11, <1>12, <2>1, Ticks
<1>16. spoken' = rx'.heard \o rest
  BY <1>1, <1>8, <1>11, <1>14
<1>17. spoken' \in Seq(Int)
  BY <1>1, <1>8, <1>10 DEF WireInv
<1>18. Between(a)'
  BY <1>4, <1>9, <1>14, <1>16 DEF Between
<1>19. InTime(a)' /\ a.pc \in Late
  BY <1>4 DEF InTime, Late
<1> QED
  BY <1>6, <1>14, <1>15, <1>17, <1>18, <1>19, SendStep
-----------------------------------------------------------------------------
(* The steps of the call that has the wire.                                *)
LEMMA Holder ==
    ASSUME EnablesInv, WireInv, Sending
    PROVE  \E r \in Registers : /\ r = Regs /\ r.pc \in Late /\ InTime(r)
                                /\ Between(r) \/ InFrame(r)
<1>1. Regs \in Registers /\ Regs.pc \in Late
  BY Top DEF EnablesInv, Sending
<1>2. InTime(Regs) /\ (Between(Regs) \/ InFrame(Regs))
  BY DEF WireInv
<1> QED
  BY <1>1, <1>2

(* What changes is the registers, which become a.                          *)
LEMMA Goes ==
    ASSUME EnablesInv, WireInv, stack # <<>>, NEW a \in Registers, a.pc \in Late, SetRegs(a)
    PROVE  CallPart' /\ Regs' = a /\ stack' # <<>>
<1>1. HoldsByte(a)
  BY DEF HoldsByte, Late
<1> QED
  BY <1>1, SetCalls DEF EnablesInv, WireInv

LEMMA BetweenStays ==
    ASSUME RxType, TimerType, Elapse(timer, joy), spoken' = spoken,
           NEW r, Between(r), NEW a, a.t1 = r.t1, a.a0 = r.a0,
           a.pc = "restore" => a.t1 = 0,
           a.pc \in {"target", "mode", "write"} => a.t1 # 0
    PROVE  Between(a)' /\ RxType'
<1>1. joy' = joy /\ rx' = Listen(rx, WireOf(joy'))
  BY DEF Elapse
<1>2. Quiet
  BY DEF Between
<1>3. WireOf(joy') = 1
  BY <1>1, <1>2 DEF Quiet
<1>4. rx' = rx /\ Quiet'
  BY <1>1, <1>2, <1>3, StaysQuiet
<1>5. PICK rest : spoken = rx.heard \o rest /\ Queue(rest, r.t1, r.a0)
  BY DEF Between
<1>6. spoken' = rx'.heard \o rest /\ Queue(rest, a.t1, a.a0)
  BY <1>4, <1>5
<1> QED
  BY <1>4, <1>6 DEF Between, RxType

LEMMA TargetHolds ==
    ASSUME EnablesInv, WireInv, Target, late' \in BOOLEAN
    PROVE  WireInv'
<1>1. /\ stack # <<>> /\ Regs.pc = "target" /\ spoken' = spoken /\ Elapse(timer, joy)
      /\ SetRegs([Regs EXCEPT !.pc = "mode"])
  BY DEF Target, Running
<1>2. Sending
  BY <1>1 DEF Sending, Late
<1>3. PICK r \in Registers : r = Regs /\ (Between(r) \/ InFrame(r))
  BY <1>2, Holder
<1>4. Between(r)
  BY <1>1, <1>3 DEF InFrame
<1>5. PICK a : a = [Regs EXCEPT !.pc = "mode"]
  OBVIOUS
<1>6. a \in Registers /\ a.pc = "mode" /\ a.a0 = r.a0 /\ a.t1 = r.t1
  BY <1>3, <1>5 DEF Registers, Late
<1>7. CallPart' /\ Regs' = a /\ stack' # <<>>
  BY <1>1, <1>5, <1>6, Goes DEF Late
<1>8. a.t1 # 0
  BY <1>1, <1>3, <1>4, <1>6 DEF Between
<1>9. RxType /\ TimerType /\ spoken \in Seq(Int)
  BY DEF WireInv
<1>10. Between(a)' /\ RxType'
  BY <1>1, <1>4, <1>6, <1>8, <1>9, BetweenStays
<1>11. TimerType'
  <2>1. 0 \in {0, 1}
    OBVIOUS
  <2> QED
    BY <1>1, <1>9, <2>1, Ticks DEF Elapse
<1>12. InTime(a)' /\ a.pc \in Late
  BY <1>6 DEF InTime, Late
<1> QED
  BY <1>1, <1>7, <1>9, <1>10, <1>11, <1>12, SendStep

LEMMA ModeHolds ==
    ASSUME EnablesInv, WireInv, Mode, late' \in BOOLEAN
    PROVE  WireInv'
<1>1. /\ stack # <<>> /\ Regs.pc = "mode" /\ spoken' = spoken
      /\ Elapse([left |-> Period, irqFlag |-> 1], joy)
      /\ SetRegs([Regs EXCEPT !.pc = "write", !.t2 = 1])
  BY DEF Mode, Running
<1>2. Sending
  BY <1>1 DEF Sending, Late
<1>3. PICK r \in Registers : r = Regs /\ (Between(r) \/ InFrame(r))
  BY <1>2, Holder
<1>4. Between(r)
  BY <1>1, <1>3 DEF InFrame
<1>5. PICK a : a = [Regs EXCEPT !.pc = "write", !.t2 = 1]
  OBVIOUS
<1>6. a \in Registers
  BY <1>3, <1>5 DEF Registers, Late
<1>7. a.pc = "write" /\ a.a0 = r.a0 /\ a.t1 = r.t1 /\ a.t2 = 1
  BY <1>3, <1>5 DEF Registers
<1>8. CallPart' /\ Regs' = a /\ stack' # <<>>
  BY <1>1, <1>5, <1>6, <1>7, Goes DEF Late
<1>9. a.t1 # 0
  BY <1>1, <1>3, <1>4, <1>7 DEF Between
<1>10. RxType /\ spoken \in Seq(Int)
  BY DEF WireInv
<1>11. timer' = [left |-> Period - 1, irqFlag |-> 1]
  <2>1. PICK t : t = [left |-> Period, irqFlag |-> 1]
    OBVIOUS
  <2>2. t.left > 1 /\ t.left = Period
    BY <2>1, HalfBounds
  <2>3. timer' = [t EXCEPT !.left = t.left - 1]
    BY <1>1, <2>1, <2>2 DEF Elapse, TimerTick
  <2> QED
    BY <2>1, <2>2, <2>3
<1>12. TimerType' /\ Elapsed' = 1
  <2>1. Period - 1 \in 1 .. Period /\ Period - (Period - 1) = 1 /\ Period - 1 \in Int
    BY HalfBounds
  <2>2. timer'.left = Period - 1
    BY <1>11
  <2> QED
    BY <1>11, <2>1, <2>2 DEF TimerType, Elapsed
<1>13. rx' = rx /\ Quiet'
  <2>1. joy' = joy /\ rx' = Listen(rx, WireOf(joy'))
    BY <1>1 DEF Elapse
  <2>2. Quiet
    BY <1>4 DEF Between
  <2>3. WireOf(joy') = 1
    BY <2>1, <2>2 DEF Quiet
  <2> QED
    BY <1>10, <2>1, <2>2, <2>3, StaysQuiet
<1>14. Between(a)'
  <2>1. PICK rest : spoken = rx.heard \o rest /\ Queue(rest, r.t1, r.a0)
    BY <1>4 DEF Between
  <2>2. spoken' = rx'.heard \o rest /\ Queue(rest, a.t1, a.a0)
    BY <1>1, <1>7, <1>13, <2>1
  <2> QED
    BY <1>7, <1>9, <1>13, <2>2 DEF Between
<1>15. InTime(a)'
  <2>1. a.pc = "write" /\ a.t2 = timer'.irqFlag
    BY <1>7, <1>11
  <2>2. Clock(TRUE, TRUE, 1, late')
    BY DEF Clock
  <2>3. (a.pc = "write") = TRUE /\ (a.t2 = timer'.irqFlag) = TRUE
    BY <2>1
  <2> QED
    BY <1>12, <2>2, <2>3 DEF InTime
<1>16. RxType'
  BY <1>10, <1>13 DEF RxType
<1>17. a.pc \in Late
  BY <1>7 DEF Late
<1> QED
  BY <1>1, <1>8, <1>10, <1>12, <1>14, <1>15, <1>16, <1>17, SendStep

(* It gives the wire back when all has been heard.                         *)
LEMMA RestoreHolds ==
    ASSUME EnablesInv, WireInv, Restore, late' \in BOOLEAN
    PROVE  WireInv'
<1>1. /\ stack # <<>> /\ Regs.pc = "restore" /\ spoken' = spoken /\ Elapse(timer, joy)
      /\ stack' = Front(stack)
  BY DEF Restore, Running
<1>2. Sending
  BY <1>1 DEF Sending, Late
<1>3. PICK r \in Registers : r = Regs /\ (Between(r) \/ InFrame(r))
  BY <1>2, Holder
<1>4. Between(r)
  BY <1>1, <1>3 DEF InFrame
<1>5. RxType /\ TimerType /\ spoken \in Seq(Int)
  BY DEF WireInv
<1>6. PICK rest : spoken = rx.heard \o rest /\ Queue(rest, r.t1, r.a0)
  BY <1>4 DEF Between
<1>7. r.t1 = 0
  BY <1>1, <1>3, <1>4 DEF Between
<1>8. rest = <<>>
  BY <1>6, <1>7, QueueType
<1>9. rx.heard \in Seq(Int)
  BY <1>5, RxFields
<1>10. spoken = rx.heard
  BY <1>6, <1>8, <1>9, ConcatEmptySeq
<1>11. timer' = TimerTick(timer) /\ joy' = joy /\ rx' = Listen(rx, WireOf(joy'))
  BY <1>1 DEF Elapse
<1>12. rx' = rx /\ Quiet'
  <2>1. Quiet
    BY <1>4 DEF Between
  <2>2. WireOf(joy') = 1
    BY <1>11, <2>1 DEF Quiet
  <2> QED
    BY <1>5, <1>11, <2>1, <2>2, StaysQuiet
<1>13. TimerType'
  <2>1. 0 \in {0, 1}
    OBVIOUS
  <2> QED
    BY <1>5, <1>11, <2>1, Ticks
<1>14. RxType'
  BY <1>5, <1>12 DEF RxType
<1>15. CallPart' /\ ~Sending'
  BY <1>1, PoppedCalls DEF WireInv
<1> QED
  BY <1>1, <1>5, <1>10, <1>12, <1>13, <1>14, <1>15 DEF WireInv

(* The next bit of a frame, or the first of the next frame.                *)
LEMMA StartsFrame ==
    ASSUME RxType, TimerType, timer' = TimerTick(timer), late \in BOOLEAN,
           NEW r \in Registers, r.pc = "write", InTime(r), Between(r), spoken' = spoken,
           rx' = Listen(rx, WireOf(joy')), WireOf(joy') = r.a0 % 2,
           NEW a, a.pc = "wait", a.t2 = r.t2, a.a0 = r.a0 \div 2, a.t1 = r.t1 - 1
    PROVE  RxType' /\ InFrame(a)'
<1>1. Quiet /\ r.t1 # 0
  BY DEF Between
<1>2. PICK rest : spoken = rx.heard \o rest /\ Queue(rest, r.t1, r.a0)
  BY DEF Between
<1>3. PICK v, after, y : /\ StartsWith(r.a0, v, y)
                         /\ rest = <<v>> \o after
                         /\ Queue(after, r.t1 - 10, y)
  BY <1>1, <1>2, QueueNext
<1>4. r.a0 \in Nat /\ r.t1 \in {10, 20}
  BY <1>1, <1>2, QueueType
<1>5. PICK q : Shifts(q, r.a0)
  BY <1>4, Shifting
<1>6. q[0] = r.a0 /\ q[1] = q[0] \div 2
  BY <1>5 DEF Shifts
<1>7. q[0] % 2 = 0
  <2>1. PICK bits : BitsOf(q, bits)
    <3>1. BitsOf(q, [i \in 1 .. 10 |-> q[i - 1] % 2])
      BY DEF BitsOf
    <3> QED
      BY <3>1
  <2> QED
    BY <1>3, <1>5, <2>1, Decoded
<1>8. WireOf(joy') = 0
  BY <1>6, <1>7
<1>9. rx.left = 0 /\ rx.bits = <<>> /\ Len(rx.bits) = 0
  BY <1>1 DEF Quiet
<1>10. rx' = [left |-> Half, bits |-> rx.bits, heard |-> rx.heard]
  <2>1. Len(rx.bits) \in 0 .. 9 /\ 0 \in {0, 1}
    BY <1>9
  <2>2. Listen(rx, 0) = [left |-> Half, bits |-> rx.bits, heard |-> rx.heard]
    BY <1>9, <2>1, RxFields, ListenCases
  <2> QED
    BY <1>8, <2>2
<1>11. Half \in 0 .. Period
  BY HalfBounds
<1>12. RxType' /\ rx'.left = Half /\ rx'.bits = rx.bits /\ rx'.heard = rx.heard
  BY <1>10, <1>11, RxFields, RxMade
<1>13. PICK n : n = r.t1 - 10
  OBVIOUS
<1>14. OnWire(a, v, after, n, y, q, 1)'
  <2>0. Queue(after, n, y)
    BY <1>3, <1>13
  <2>1. Shifts(q, 2 * v + 512 + 1024 * y)
    BY <1>3, <1>5 DEF StartsWith
  <2>2. a.a0 = q[1]
    BY <1>6
  <2>3. a.t1 = n + 10 - 1
    BY <1>4, <1>13
  <2>4. OutIs(q, 1)'
    <3>1. 1 - 1 = 0
      OBVIOUS
    <3> QED
      BY <1>7, <1>8, <3>1 DEF OutIs
  <2>5. Len(rx'.bits) = 0 /\ 0 \in 0 .. 9
    BY <1>9, <1>12
  <2>6. \A i \in 1 .. Len(rx'.bits) : rx'.bits[i] = q[i - 1] % 2
    BY <2>5
  <2>7. spoken' = rx'.heard \o (<<v>> \o after)
    BY <1>2, <1>3, <1>12
  <2> QED
    <3>1. Len(rx'.bits) \in 0 .. 9
      BY <2>5
    <3> QED
      BY <2>0, <2>1, <2>2, <2>3, <2>4, <2>6, <2>7, <3>1, Zenon DEF OnWire
<1>15. PICK e \in 0 .. Period - 1 : e = Elapsed
  BY Ticks DEF Registers
<1>16. PICK held \in BOOLEAN : held = late
  OBVIOUS
<1>17. PICK same \in BOOLEAN : same = (r.t2 = timer.irqFlag)
  OBVIOUS
<1>18. Clock(TRUE, same, e, held)
  <2>1. (r.pc = "write") = TRUE
    OBVIOUS
  <2> QED
    BY <1>15, <1>16, <1>17, <2>1 DEF InTime
<1>19. same = TRUE /\ e \in 1 .. 3
  BY <1>18 DEF Clock
<1>20. e # Period - 1
  BY <1>18, <1>19, ClockWritten
<1>21. (a.t2 = timer'.irqFlag) = TRUE /\ Elapsed' = NextElapsed(e)
  <2>1. PICK t \in {0, 1} : t = r.t2
    BY DEF Registers
  <2>2. (t = timer'.irqFlag) = (t = timer.irqFlag)
    BY <1>15, <1>20, Ticks
  <2> QED
    BY <1>15, <1>17, <1>19, <2>1, <2>2, Ticks
<1>22. Phase(FALSE, TRUE, NextElapsed(e), 1, 0, e + 1, Half) /\ e + 1 \in 2 .. 4
  BY <1>19, PhaseStart
<1>23. InPhase(a, 1, e + 1)'
  <2>1. (a.pc = "write") = FALSE /\ Len(rx'.bits) = 0
    BY <1>9, <1>12
  <2> QED
    BY <1>12, <1>21, <1>22, <2>1 DEF InPhase
<1>24. v \in 0 .. 255 /\ 1 \in 1 .. 10 /\ a.pc \in {"write", "wait"}
  BY <1>3 DEF StartsWith
<1>25. InFrame(a)'
  BY <1>22, <1>23, <1>24, <1>14 DEF InFrame
<1> QED
  BY <1>12, <1>25

LEMMA WriteBitHolds ==
    ASSUME EnablesInv, WireInv, WriteBit, late' = FALSE
    PROVE  WireInv'
<1>1. /\ stack # <<>> /\ Regs.pc = "write" /\ spoken' = spoken
      /\ Elapse(timer, (1 - (Regs.a0 % 2)) * 8192 + 2)
      /\ SetRegs([Regs EXCEPT !.pc = "wait", !.a0 = Regs.a0 \div 2, !.t1 = Regs.t1 - 1])
  BY DEF WriteBit, Running
<1>2. Sending
  BY <1>1 DEF Sending, Late
<1>3. PICK r \in Registers : r = Regs /\ InTime(r) /\ (Between(r) \/ InFrame(r))
  BY <1>2, Holder
<1>4. PICK a : a = [r EXCEPT !.pc = "wait", !.a0 = r.a0 \div 2, !.t1 = r.t1 - 1]
  OBVIOUS
<1>5. (r.a0 \div 2) \in Int /\ (r.t1 - 1) \in Int
  BY DEF Registers
<1>6. a \in Registers
  BY <1>4, <1>5 DEF Registers, Late
<1>7. a.pc = "wait" /\ a.a0 = r.a0 \div 2 /\ a.t1 = r.t1 - 1 /\ a.t2 = r.t2
  BY <1>4 DEF Registers
<1>8. SetRegs(a)
  BY <1>1, <1>3, <1>4
<1>9. CallPart' /\ Regs' = a /\ stack' # <<>>
  BY <1>1, <1>6, <1>7, <1>8, Goes DEF Late
<1>10. RxType /\ TimerType /\ spoken \in Seq(Int) /\ late \in BOOLEAN
  BY DEF WireInv
<1>11. timer' = TimerTick(timer) /\ rx' = Listen(rx, WireOf(joy'))
       /\ joy' = (1 - (r.a0 % 2)) * 8192 + 2
  BY <1>1, <1>3 DEF Elapse
<1>12. r.pc = "write" /\ r.t2 \in {0, 1} /\ timer' = TimerTick(timer)
  BY <1>1, <1>3, <1>11 DEF Registers
<1>13. TimerType'
  BY <1>10, <1>12, Ticks
<1>14. InTime(a)'
  <2>1. PICK e \in 0 .. Period - 1 : e = Elapsed
    BY <1>10, <1>12, Ticks
  <2>2. PICK held \in BOOLEAN : held = late
    BY <1>10
  <2>3. PICK same \in BOOLEAN : same = (r.t2 = timer.irqFlag)
    OBVIOUS
  <2>4. Clock(TRUE, same, e, held)
    <3>1. (r.pc = "write") = TRUE
      BY <1>12
    <3> QED
      BY <1>3, <1>12, <2>1, <2>2, <2>3, <3>1 DEF InTime
  <2>5. same = TRUE
    BY <2>4 DEF Clock
  <2>6. e # Period - 1 /\ Clock(FALSE, TRUE, NextElapsed(e), FALSE)
    BY <2>4, <2>5, ClockWritten
  <2>7. (a.t2 = timer'.irqFlag) = TRUE /\ Elapsed' = NextElapsed(e)
    <3>1. PICK t \in {0, 1} : t = r.t2
      BY <1>12
    <3>2. (t = timer'.irqFlag) = (t = timer.irqFlag)
      BY <1>10, <1>12, <2>1, <2>6, Ticks
    <3>3. t = a.t2 /\ t = timer.irqFlag
      BY <1>7, <2>3, <2>5, <3>1
    <3>4. Elapsed' = NextElapsed(e)
      BY <1>10, <1>12, <2>1, Ticks
    <3> QED
      BY <3>2, <3>3, <3>4
  <2>8. (a.pc = "write") = FALSE
    BY <1>7
  <2> QED
    BY <2>6, <2>7, <2>8 DEF InTime
<1>15. RxType' /\ (Between(a)' \/ InFrame(a)')
  <2>1. CASE Between(r)
    <3>1. r.a0 \in Nat
      <4>1. PICK rest : Queue(rest, r.t1, r.a0)
        BY <2>1 DEF Between
      <4> QED
        BY <4>1, QueueType
    <3>2. WireOf(joy') = r.a0 % 2
      BY <1>11, <3>1, WrittenBit
    <3> QED
      BY <1>1, <1>3, <1>7, <1>10, <1>11, <1>12, <2>1, <3>2, StartsFrame
  <2>2. CASE InFrame(r)
    <3>1. PICK rest, n, x, q : \E v \in 0 .. 255, m \in 1 .. 10, s \in 2 .. 4 :
             OnWire(r, v, rest, n, x, q, m) /\ InPhase(r, m, s)
      BY <2>2 DEF InFrame
    <3>2. PICK v \in 0 .. 255, m \in 1 .. 10, s \in 2 .. 4 :
             OnWire(r, v, rest, n, x, q, m) /\ InPhase(r, m, s)
      BY <3>1
    <3>3. Len(rx.bits) \in 0 .. 9
      BY <3>2 DEF OnWire
    <3>4. Timely(a, m + 1, s) /\ m + 1 \in 1 .. 10
      BY <1>3, <1>7, <1>10, <1>12, <3>2, <3>3, TimelyWritten
    <3>5. m \in 0 .. 9
      BY <3>4
    <3>6. PICK y : Shifts(q, y)
      BY <3>2 DEF OnWire
    <3>7. q[m] \in Nat /\ q[m + 1] = q[m] \div 2
      BY <3>5, <3>6, ShiftStep DEF Shifts
    <3>8. r.a0 = q[m] /\ r.t1 = n + 10 - m /\ n \in {0, 10, 20}
      BY <3>2, QueueType DEF OnWire
    <3>9. Written(a, n, q, m + 1)
      <4>1. a.t1 = n + 10 - (m + 1)
        BY <1>7, <3>8
      <4>2. a.a0 = q[m + 1]
        BY <1>7, <3>7, <3>8
      <4> QED
        BY <1>7, <4>1, <4>2 DEF Written
    <3>10. WireOf(joy') = q[m] % 2
      BY <1>11, <3>7, <3>8, WrittenBit
    <3>11. OutIs(q, m + 1)'
      <4>1. (m + 1) - 1 = m
        OBVIOUS
      <4> QED
        BY <3>10, <4>1 DEF OutIs
    <3>12. PICK k \in 1 .. 10 : k = m + 1
      BY <3>4
    <3>13. Timely(a, k, s) /\ Written(a, n, q, k) /\ OutIs(q, k)'
      BY <3>4, <3>9, <3>11, <3>12
    <3>14. OnWire(r, v, rest, n, x, q, m)
      BY <3>2
    <3>15. RxType /\ rx' = Listen(rx, WireOf(joy')) /\ spoken' = spoken
      BY <1>1, <1>10, <1>11
    <3> QED
      BY <3>13, <3>14, <3>15, FrameStep, Zenon
  <2> QED
    BY <1>3, <2>1, <2>2
<1>16. a.pc \in Late /\ late' \in BOOLEAN /\ spoken' \in Seq(Int)
  <2>1. a.pc \in Late
    BY <1>7 DEF Late
  <2>2. late' \in BOOLEAN
    OBVIOUS
  <2>3. spoken' \in Seq(Int)
    BY <1>1, <1>10
  <2> QED
    BY <2>1, <2>2, <2>3
<1> QED
  BY <1>9, <1>13, <1>14, <1>15, <1>16, SendStep

(* A frame goes on while the call waits, or is held up.                    *)
LEMMA FrameWaits ==
    ASSUME RxType, TimerType, Elapse(timer, joy), late \in BOOLEAN, spoken' = spoken,
           NEW r \in Registers, InTime(r), InFrame(r),
           ~late \/ (r.pc = "wait" /\ r.t2 = timer.irqFlag)
    PROVE  RxType' /\ (Between(r)' \/ InFrame(r)')
<1>1. PICK rest, n, x, q : \E v \in 0 .. 255, m \in 1 .. 10, s \in 2 .. 4 :
         OnWire(r, v, rest, n, x, q, m) /\ InPhase(r, m, s)
  BY DEF InFrame
<1>2. PICK v \in 0 .. 255, m \in 1 .. 10, s \in 2 .. 4 :
         OnWire(r, v, rest, n, x, q, m) /\ InPhase(r, m, s)
  BY <1>1
<1>3. r.pc \in {"write", "wait"} /\ r.t2 \in {0, 1}
  BY DEF InFrame, Registers
<1>4. timer' = TimerTick(timer) /\ joy' = joy /\ rx' = Listen(rx, WireOf(joy'))
  BY DEF Elapse
<1>5. Timely(r, m, s)
  BY <1>2, <1>3, <1>4, TimelyTick
<1>6. r.t1 = n + 10 - m /\ r.a0 = q[m] /\ OutIs(q, m)
  BY <1>2 DEF OnWire
<1>7. OutIs(q, m)'
  BY <1>4, <1>6 DEF OutIs
<1>8. Written(r, n, q, m)
  <2>1. r.pc = "write" => r.t1 # 0
    <3>1. PICK b \in 0 .. 9 : b = Len(rx.bits)
      <4>1. Len(rx.bits) \in 0 .. 9
        BY <1>2 DEF OnWire
      <4> QED
        BY <4>1
    <3>2. n \in {0, 10, 20}
      BY <1>2, QueueType DEF OnWire
    <3>3. ASSUME r.pc = "write" PROVE r.t1 # 0
      <4>1. (r.pc = "write") = TRUE
        BY <3>3
      <4>2. Phase(TRUE, r.t2 = timer.irqFlag, Elapsed, m, b, s, rx.left)
        BY <1>2, <3>1, <4>1 DEF InPhase
      <4>3. b = m
        BY <4>2 DEF Phase
      <4>4. n + 10 - m # 0
        BY <3>1, <3>2, <4>3
      <4> QED
        BY <1>6, <4>4
    <3> QED
      BY <3>3
  <2>2. r.pc # "restore"
    BY <1>3
  <2> QED
    BY <1>3, <1>6, <2>1, <2>2 DEF Written
<1>9. RxType /\ rx' = Listen(rx, WireOf(joy')) /\ spoken' = spoken
  BY <1>4
<1>10. OnWire(r, v, rest, n, x, q, m)
  BY <1>2
<1> QED
  BY <1>5, <1>7, <1>8, <1>9, <1>10, FrameStep, Zenon

(* The clock while the call waits, or is held up.                          *)
LEMMA ClockWaits ==
    ASSUME TimerType, timer' = TimerTick(timer), late \in BOOLEAN, late' \in BOOLEAN,
           NEW r \in Registers, InTime(r),
           \/ ~late /\ late'
           \/ r.pc = "wait" /\ r.t2 = timer.irqFlag /\ ~late'
    PROVE  InTime(r)' /\ TimerType'
<1>1. r.t2 \in {0, 1}
  BY DEF Registers
<1>2. TimerType'
  BY <1>1, Ticks
<1>3. SUFFICES ASSUME r.pc \in {"write", "wait"}
               PROVE  Clock(r.pc = "write", r.t2 = timer'.irqFlag, Elapsed', late')
  BY <1>2 DEF InTime
<1>4. PICK w \in BOOLEAN : w = (r.pc = "write")
  OBVIOUS
<1>5. PICK same \in BOOLEAN : same = (r.t2 = timer.irqFlag)
  OBVIOUS
<1>6. PICK e \in 0 .. Period - 1 : e = Elapsed
  BY <1>1, Ticks
<1>7. PICK held \in BOOLEAN : held = late
  OBVIOUS
<1>8. PICK now \in BOOLEAN : now = IF e = Period - 1 THEN ~same ELSE same
  OBVIOUS
<1>9. Clock(w, same, e, held)
  BY <1>3, <1>4, <1>5, <1>6, <1>7 DEF InTime
<1>10. now = (r.t2 = timer'.irqFlag) /\ Elapsed' = NextElapsed(e)
  BY <1>1, <1>5, <1>6, <1>8, Ticks
<1>11. CASE ~late /\ late'
  <2>1. held = FALSE /\ late' = TRUE
    BY <1>7, <1>11
  <2>2. Clock(w, now, NextElapsed(e), TRUE)
    BY <1>8, <1>9, <2>1, ClockHeld
  <2> QED
    BY <1>4, <1>10, <2>1, <2>2
<1>12. CASE r.pc = "wait" /\ r.t2 = timer.irqFlag /\ ~late'
  <2>1. w = FALSE /\ same = TRUE /\ late' = FALSE
    BY <1>4, <1>5, <1>12
  <2>2. Clock(FALSE, TRUE, e, held)
    BY <1>9, <2>1
  <2>3. now = IF e = Period - 1 THEN FALSE ELSE TRUE
    BY <1>8, <2>1
  <2>4. Clock(w, now, NextElapsed(e), FALSE)
    BY <2>1, <2>2, <2>3, ClockPolled
  <2> QED
    BY <1>4, <1>10, <2>1, <2>4
<1> QED
  BY <1>11, <1>12

LEMMA Stays ==
    ASSUME EnablesInv, WireInv, Sending, stack' = stack, spoken' = spoken,
           Elapse(timer, joy), late' \in BOOLEAN,
           \/ ~late /\ late'
           \/ Regs.pc = "wait" /\ Regs.t2 = timer.irqFlag /\ ~late'
    PROVE  WireInv'
<1>1. PICK r \in Registers : /\ r = Regs /\ r.pc \in Late /\ InTime(r)
                             /\ Between(r) \/ InFrame(r)
  BY Holder
<1>2. RxType /\ TimerType /\ spoken \in Seq(Int) /\ late \in BOOLEAN /\ CallPart
  BY DEF WireInv
<1>3. \/ ~late /\ late'
      \/ r.pc = "wait" /\ r.t2 = timer.irqFlag /\ ~late'
  BY <1>1
<1>4. timer' = TimerTick(timer)
  BY DEF Elapse
<1>5. InTime(r)' /\ TimerType'
  BY <1>1, <1>2, <1>3, <1>4, ClockWaits
<1>6. RxType' /\ (Between(r)' \/ InFrame(r)')
  <2>1. CASE Between(r)
    <3>1. /\ r.pc = "restore" => r.t1 = 0
          /\ r.pc \in {"target", "mode", "write"} => r.t1 # 0
      BY <2>1 DEF Between
    <3> QED
      BY <1>2, <2>1, <3>1, BetweenStays
  <2>2. CASE InFrame(r)
    BY <1>1, <1>2, <1>3, <2>2, FrameWaits
  <2> QED
    BY <1>1, <2>1, <2>2
<1>7. Regs' = r /\ stack' # <<>> /\ CallPart'
  BY <1>1, <1>2 DEF Sending, CallPart, Regs
<1>8. spoken' \in Seq(Int)
  BY <1>2
<1> QED
  BY <1>1, <1>5, <1>6, <1>7, <1>8, SendStep

LEMMA StallHolds ==
    ASSUME EnablesInv, WireInv, Stall
    PROVE  WireInv'
<1>1. /\ ~late /\ late' = TRUE /\ stack' = stack /\ spoken' = spoken
      /\ Elapse(timer, joy)
  BY DEF Stall
<1>2. CASE Sending
  BY <1>1, <1>2, Stays
<1>3. CASE ~Sending
  <2>1. ~Sending' /\ CallPart'
    BY <1>1, <1>3 DEF Sending, Regs, CallPart, WireInv
  <2>2. late' \in BOOLEAN
    BY <1>1
  <2> QED
    BY <1>1, <1>3, <2>1, <2>2, QuietStep
<1> QED
  BY <1>2, <1>3

LEMMA WriteWaitHolds ==
    ASSUME EnablesInv, WireInv, WriteWait, late' = FALSE
    PROVE  WireInv'
<1>1. /\ stack # <<>> /\ Regs.pc = "wait" /\ spoken' = spoken /\ Elapse(timer, joy)
  BY DEF WriteWait, Running
<1>2. Sending
  BY <1>1 DEF Sending, Late
<1>3. CASE timer.irqFlag = Regs.t2
  <2>1. stack' = stack
    BY <1>3 DEF WriteWait
  <2>2. late' \in BOOLEAN
    OBVIOUS
  <2> QED
    BY <1>1, <1>2, <1>3, <2>1, <2>2, Stays
<1>4. CASE timer.irqFlag # Regs.t2
  <2>1. PICK r \in Registers : /\ r = Regs /\ r.pc \in Late /\ InTime(r)
                               /\ Between(r) \/ InFrame(r)
    BY <1>2, Holder
  <2>2. RxType /\ TimerType /\ spoken \in Seq(Int) /\ late \in BOOLEAN /\ CallPart
    BY DEF WireInv
  <2>3. timer' = TimerTick(timer) /\ joy' = joy /\ rx' = Listen(rx, WireOf(joy'))
    BY <1>1 DEF Elapse
  <2>4. PICK pc : pc = IF r.t1 # 0 THEN "write" ELSE "restore"
    OBVIOUS
  <2>5. PICK a : a = [r EXCEPT !.t2 = timer.irqFlag, !.pc = pc]
    OBVIOUS
  <2>6. SetRegs(a)
    BY <1>4, <2>1, <2>4, <2>5 DEF WriteWait
  <2>7. timer.irqFlag \in {0, 1} /\ pc \in {"write", "restore"}
    BY <2>2, <2>4 DEF TimerType
  <2>8. /\ a.pc = pc /\ a.t2 = timer.irqFlag /\ a.t1 = r.t1 /\ a.a0 = r.a0
        /\ a \in Registers
    BY <2>5, <2>7 DEF Registers, Late
  <2>9. a.pc \in Late
    BY <2>7, <2>8 DEF Late
  <2>10. CallPart' /\ Regs' = a /\ stack' # <<>>
    BY <1>1, <2>6, <2>8, <2>9, Goes
  <2>11. r.pc = "wait" /\ r.t2 # timer.irqFlag /\ r.t2 \in {0, 1}
    BY <1>1, <1>4, <2>1 DEF Registers
  <2>12. TimerType'
    BY <2>2, <2>3, <2>11, Ticks
  <2>13. InTime(a)'
    <3>1. PICK e \in 0 .. Period - 1 : e = Elapsed
      BY <2>2, <2>3, <2>11, Ticks
    <3>2. PICK held \in BOOLEAN : held = late
      BY <2>2
    <3>3. Clock(FALSE, FALSE, e, held)
      <4>1. (r.pc = "write") = FALSE /\ (r.t2 = timer.irqFlag) = FALSE
        BY <2>11
      <4> QED
        BY <2>1, <2>11, <3>1, <3>2, <4>1 DEF InTime
    <3>4. e # Period - 1 /\ Clock(TRUE, TRUE, NextElapsed(e), FALSE)
      BY <3>3, ClockSeen
    <3>5. (a.t2 = timer'.irqFlag) = TRUE /\ Elapsed' = NextElapsed(e)
      <4>1. PICK t \in {0, 1} : t = a.t2 /\ t = timer.irqFlag
        BY <2>7, <2>8
      <4>2. (t = timer'.irqFlag) = (t = timer.irqFlag)
        BY <2>2, <2>3, <3>1, <3>4, Ticks
      <4> QED
        BY <2>2, <2>3, <3>1, <4>1, <4>2, Ticks
    <3>6. CASE pc = "write"
      <4>1. (a.pc = "write") = TRUE
        BY <2>8, <3>6
      <4> QED
        BY <3>4, <3>5, <4>1 DEF InTime
    <3>7. CASE pc = "restore"
      BY <2>8, <3>7 DEF InTime
    <3> QED
      BY <2>7, <3>6, <3>7
  <2>14. /\ a.pc = "restore" => a.t1 = 0
         /\ a.pc \in {"target", "mode", "write"} => a.t1 # 0
    BY <2>4, <2>8
  <2>15. RxType' /\ (Between(a)' \/ InFrame(a)')
    <3>1. CASE Between(r)
      BY <1>1, <2>2, <2>8, <2>14, <3>1, BetweenStays
    <3>2. CASE InFrame(r)
      <4>1. PICK rest, n, x, q : \E v \in 0 .. 255, m \in 1 .. 10, s \in 2 .. 4 :
               OnWire(r, v, rest, n, x, q, m) /\ InPhase(r, m, s)
        BY <3>2 DEF InFrame
      <4>2. PICK v \in 0 .. 255, m \in 1 .. 10, s \in 2 .. 4 :
               OnWire(r, v, rest, n, x, q, m) /\ InPhase(r, m, s)
        BY <4>1
      <4>3. /\ r.t1 = n + 10 - m /\ r.a0 = q[m] /\ OutIs(q, m)
            /\ n \in {0, 10, 20} /\ Len(rx.bits) \in 0 .. 9
        BY <4>2, QueueType DEF OnWire
      <4>4. OutIs(q, m)'
        BY <2>3, <4>3 DEF OutIs
      <4>5. Seen(a, n, m)
        BY <2>4, <2>8, <4>3 DEF Seen
      <4>6. Timely(a, m, s)
        BY <2>1, <2>2, <2>3, <2>11, <4>2, <4>3, <4>5, TimelySeen
      <4>7. Written(a, n, q, m)
        <5>1. a.pc \in {"write", "wait", "restore"}
          BY <2>7, <2>8
        <5> QED
          BY <2>8, <2>14, <4>3, <5>1 DEF Written
      <4>8. RxType /\ rx' = Listen(rx, WireOf(joy')) /\ spoken' = spoken
        BY <1>1, <2>2, <2>3
      <4>9. OnWire(r, v, rest, n, x, q, m)
        BY <4>2
      <4> QED
        BY <4>4, <4>6, <4>7, <4>8, <4>9, FrameStep, Zenon
    <3> QED
      BY <2>1, <3>1, <3>2
  <2>16. late' \in BOOLEAN /\ spoken' \in Seq(Int)
    BY <1>1, <2>2
  <2> QED
    BY <2>9, <2>10, <2>12, <2>13, <2>15, <2>16, SendStep
<1> QED
  BY <1>3, <1>4

(* What the invariant says of the receiver.                                *)
LEMMA InvHeard == WireInv => HeardAsSpoken
<1> SUFFICES ASSUME WireInv PROVE HeardAsSpoken
  OBVIOUS
<1>1. rx.heard \in Seq(Int) /\ spoken \in Seq(Int)
  BY RxFields DEF WireInv
<1>2. \E rest \in Seq(Int) : spoken = rx.heard \o rest
  <2>1. CASE ~Sending
    <3>1. spoken = rx.heard \o <<>>
      BY <1>1, <2>1, ConcatEmptySeq DEF WireInv
    <3>2. <<>> \in Seq(Int)
      OBVIOUS
    <3> QED
      BY <3>1, <3>2
  <2>2. CASE Sending /\ Between(Regs)
    <3>1. PICK rest : spoken = rx.heard \o rest /\ Queue(rest, Regs.t1, Regs.a0)
      BY <2>2 DEF Between
    <3> QED
      BY <3>1, QueueType
  <2>3. CASE Sending /\ InFrame(Regs)
    <3>1. PICK rest, n, x, q : \E v \in 0 .. 255, m \in 1 .. 10, s \in 2 .. 4 :
             OnWire(Regs, v, rest, n, x, q, m) /\ InPhase(Regs, m, s)
      BY <2>3 DEF InFrame
    <3>2. PICK v \in 0 .. 255, m \in 1 .. 10, s \in 2 .. 4 : OnWire(Regs, v, rest, n, x, q, m)
      BY <3>1
    <3>3. spoken = rx.heard \o (<<v>> \o rest) /\ rest \in Seq(Int)
      BY <3>2, QueueType DEF OnWire
    <3>4. <<v>> \o rest \in Seq(Int)
      <4>1. v \in Int /\ <<v>> \in Seq(Int)
        OBVIOUS
      <4> QED
        BY <3>3, <4>1
    <3> QED
      BY <3>3, <3>4
  <2> QED
    BY <2>1, <2>2, <2>3 DEF WireInv
<1>3. IsPrefix(rx.heard, spoken)
  BY <1>2 DEF IsPrefix
<1>4. stack = <<>> /\ rx.left = 0 => rx.heard = spoken
  BY DEF WireInv, Sending
<1> QED
  BY <1>3, <1>4 DEF HeardAsSpoken

(* The receiver hears what was printed, byte for byte, whoever printed it  *)
(* and whatever interrupted it (patch-uart.S:19-113): each bit is sampled  *)
(* while it is on the wire, at every bit time from six ticks on, with one  *)
(* stall before each step.                                                 *)
THEOREM ReceiverHears == Spec => []HeardAsSpoken
<1>1. Init => WireInv
  <2> SUFFICES ASSUME Init PROVE WireInv
    OBVIOUS
  <2>1. /\ stack = <<>> /\ joy = 0 /\ late = FALSE /\ spoken = <<>>
        /\ timer = [left |-> Period, irqFlag |-> 1]
        /\ rx = [left |-> 0, bits |-> <<>>, heard |-> <<>>]
    BY DEF Init
  <2>2. ~Sending
    BY <2>1 DEF Sending
  <2>3. TimerType
    <3>1. Period \in Int /\ Period \in 1 .. Period
      BY HalfBounds
    <3> QED
      BY <2>1, <3>1 DEF TimerType
  <2>4. RxType
    <3>1. 0 \in 0 .. Period
      BY HalfBounds
    <3> QED
      BY <2>1, <3>1 DEF RxType
  <2>5. CallPart
    BY <2>1 DEF CallPart
  <2>6. Quiet
    <3>1. WireOf(joy) = 1
      <4>1. ((0 \div 8192) % 2) = 0
        OBVIOUS
      <4> QED
        BY <2>1, <4>1 DEF WireOf
    <3> QED
      BY <2>1, <3>1 DEF Quiet
  <2> QED
    <3>1. late \in BOOLEAN
      BY <2>1
    <3>2. spoken \in Seq(Int)
      BY <2>1
    <3>3. rx.heard = spoken
      BY <2>1
    <3> QED
      BY <2>2, <2>3, <2>4, <2>5, <2>6, <3>1, <3>2, <3>3 DEF WireInv
<1>2. EnablesInv /\ WireInv /\ [Next]_vars => WireInv'
  <2> SUFFICES ASSUME EnablesInv, WireInv, [Next]_vars PROVE WireInv'
    OBVIOUS
  <2>1. CASE Putchar
    <3>1. PutcharStep /\ late' = FALSE /\ late' \in BOOLEAN
      BY <2>1 DEF Putchar
    <3> QED
      BY <3>1, FrameHolds, SaveSrHolds, MaskHolds, TargetHolds, ModeHolds, WriteBitHolds,
         WriteWaitHolds, RestoreHolds DEF PutcharStep
  <2>2. CASE Call \/ Interrupt \/ HandlerReturn \/ ProgramStep \/ Stall
    BY <2>2, PushHolds, HandlerReturnHolds, ProgramStepHolds, StallHolds
  <2>3. CASE UNCHANGED vars
    <3>1. UNCHANGED <<stack, timer, joy, late, spoken, rx>>
      BY <2>3 DEF vars
    <3>2. TimerType' /\ RxType' /\ CallPart' /\ late' \in BOOLEAN /\ spoken' \in Seq(Int)
      BY <3>1 DEF WireInv, TimerType, RxType, CallPart
    <3>3. CASE ~Sending
      <4>1. ~Sending' /\ Quiet' /\ rx'.heard = spoken'
        BY <3>1, <3>3 DEF WireInv, Sending, Regs, Quiet
      <4> QED
        BY <3>2, <4>1 DEF WireInv
    <3>4. CASE Sending
      <4>1. PICK r \in Registers : /\ r = Regs /\ r.pc \in Late /\ InTime(r)
                                   /\ Between(r) \/ InFrame(r)
        BY <3>4, Holder
      <4>2. Regs' = r /\ stack' # <<>>
        BY <3>1, <3>4, <4>1 DEF Sending, Regs
      <4>3. InTime(r)'
        BY <3>1, <4>1 DEF InTime, Elapsed
      <4>4. Between(r) => Between(r)'
        BY <3>1 DEF Between, Quiet
      <4>5. ASSUME InFrame(r) PROVE InFrame(r)'
        <5>1. PICK rest, n, x, q : \E v \in 0 .. 255, m \in 1 .. 10, s \in 2 .. 4 :
                 OnWire(r, v, rest, n, x, q, m) /\ InPhase(r, m, s)
          BY <4>5 DEF InFrame
        <5>2. PICK v \in 0 .. 255, m \in 1 .. 10, s \in 2 .. 4 :
                 OnWire(r, v, rest, n, x, q, m) /\ InPhase(r, m, s)
          BY <5>1
        <5>3. OnWire(r, v, rest, n, x, q, m)'
          BY <3>1, <5>2 DEF OnWire, OutIs
        <5>4. InPhase(r, m, s)'
          BY <3>1, <5>2 DEF InPhase, Elapsed
        <5>5. r.pc \in {"write", "wait"}
          BY <4>5 DEF InFrame
        <5> QED
          BY <5>3, <5>4, <5>5 DEF InFrame
      <4> QED
        BY <3>2, <4>1, <4>2, <4>3, <4>4, <4>5, SendStep
    <3> QED
      BY <3>3, <3>4
  <2> QED
    BY <2>1, <2>2, <2>3 DEF Next
<1>3. Spec => []EnablesInv
  BY EnablesHold
<1> QED
  BY <1>1, <1>2, <1>3, InvHeard, PTL DEF Spec
=============================================================================
