------------------------------ MODULE SoftUart ------------------------------
(***************************************************************************)
(* The replacement for std_out_putchar (loader/patch-uart.S): a byte is    *)
(* clocked out bit by bit on the /JOY pin of port 2, timed by timer 0.     *)
(*                                                                         *)
(* Around it: the interrupts, whose handlers may print as well; the        *)
(* program that prints, inside and outside of critical sections; and the   *)
(* serial receiver at the other end of the wire, which knows nothing but   *)
(* the bit time.  Time has no clock: each step lets one tick pass, which   *)
(* the timer and the receiver count.                                       *)
(***************************************************************************)
EXTENDS Integers, Sequences, SequencesExt

CONSTANTS Bytes,        \* what is printed
          Period,       \* ticks from one timer interrupt to the next
          MaxPrints     \* bound on the calls made

ASSUME BytesAssumption == Bytes \subseteq 0 .. 255
ASSUME PeriodAssumption == Period \in Nat /\ Period >= 6
ASSUME MaxPrintsAssumption == MaxPrints \in Nat

CR == 13
LF == 10
FrameBits == 10         \* start bit, eight data bits, stop bit

VARIABLES
    stack,    \* activations of putchar and of the interrupt handler, with
              \* the registers of each; below them is the program
    sr,       \* the bits of the COP0 status register that let interrupts in
    critical, \* the program is in a critical section
    timer,    \* timer 0: ticks to its next interrupt, bit 10 of its mode
    joy,      \* JOY_CTRL
    late,     \* the processor has been held up since its last step
    spoken,   \* bytes handed to the wire, in order
    rx        \* the receiver: ticks to its next sample, 0 when waiting for
              \* a start bit; the bits of this frame; the bytes it has heard

vars == <<stack, sr, critical, timer, joy, late, spoken, rx>>

Enabled == {"IEc", "IM2"}

Masked(s) == Enabled \ s # {}

Init ==
    /\ stack = <<>>
    /\ sr = Enabled
    /\ critical = FALSE
    /\ timer = [left |-> Period, irqFlag |-> 1]
    /\ joy = 0
    /\ late = FALSE
    /\ spoken = <<>>
    /\ rx = [left |-> 0, bits |-> <<>>, heard |-> <<>>]
-----------------------------------------------------------------------------
(* The hardware                                                            *)

(* JOY_CTRL.13 selects the port, JOY_CTRL.1 pulls its /JOY pin low.        *)
WireOf(ctrl) == IF ((ctrl \div 8192) % 2) = 1 /\ ((ctrl \div 2) % 2) = 1 THEN 0 ELSE 1

(* Free running, reset on target, the flag toggled by each interrupt.      *)
TimerTick(t) ==
    IF t.left > 1 THEN [t EXCEPT !.left = @ - 1]
    ELSE [left |-> Period, irqFlag |-> 1 - t.irqFlag]

FramingError == 256

(* The least significant bit comes first.                                  *)
Decode(bits) ==
    IF bits[1] = 0 /\ bits[FrameBits] = 1
    THEN bits[2] + 2 * (bits[3] + 2 * (bits[4] + 2 * (bits[5] + 2 * (bits[6]
             + 2 * (bits[7] + 2 * (bits[8] + 2 * bits[9]))))))
    ELSE FramingError

(* A falling edge starts a frame; every bit is read in its middle.         *)
Listen(r, level) ==
    LET bits == Append(r.bits, level)
    IN  CASE r.left = 0 /\ level = 1 -> r
          [] r.left = 0 /\ level = 0 -> [r EXCEPT !.left = Period \div 2]
          [] r.left > 1 -> [r EXCEPT !.left = @ - 1]
          [] r.left = 1 /\ Len(bits) < FrameBits ->
               [r EXCEPT !.left = Period, !.bits = bits]
          [] r.left = 1 /\ Len(bits) = FrameBits ->
               [left |-> 0, bits |-> <<>>, heard |-> Append(r.heard, Decode(bits))]

(* A step that leaves the timer counting as t and the register at j.       *)
Elapse(t, j) ==
    /\ timer' = TimerTick(t)
    /\ joy' = j
    /\ rx' = Listen(rx, WireOf(j))
-----------------------------------------------------------------------------
(* putchar                                                                 *)
Regs == Last(stack)

Running(pc) == stack # <<>> /\ Regs.pc = pc

SetRegs(r) == stack' = [stack EXCEPT ![Len(stack)] = r]

(* Seeded fault: no stop bit is waited for.                                *)
FramedNineBits(c) == <<(c % 256) * 2 + 512, 9>>

(* Start and stop bit around the byte; a newline is preceded by a CR.      *)
Framed(c) ==
    LET byte == (c % 256) * 2 + 512
    IN  IF byte = LF * 2 + 512 THEN <<byte * 1024 + CR * 2 + 512, 20>>
        ELSE <<byte, 10>>

Frame ==
    /\ Running("frame")
    /\ SetRegs([Regs EXCEPT !.pc = "saveSr", !.a0 = Framed(@)[1],
                            !.t1 = Framed(Regs.a0)[2]])
    /\ Elapse(timer, joy)
    /\ UNCHANGED <<sr, spoken>>

SaveSr ==
    /\ Running("saveSr")
    /\ SetRegs([Regs EXCEPT !.pc = "mask", !.t4 = sr])
    /\ Elapse(timer, joy)
    /\ UNCHANGED <<sr, spoken>>

(* The bytes of this call, as the registers hold them.                     *)
Payload(r) == IF r.t1 = 20 THEN <<CR, LF>> ELSE <<(r.a0 \div 2) % 256>>

(* From here on the wire is ours.                                          *)
Mask ==
    /\ Running("mask")
    /\ SetRegs([Regs EXCEPT !.pc = "target"])
    /\ sr' = Regs.t4 \ {"IEc", "IM2"}
    /\ spoken' = spoken \o Payload(Regs)
    /\ Elapse(timer, joy)

Target ==
    /\ Running("target")
    /\ SetRegs([Regs EXCEPT !.pc = "mode"])
    /\ Elapse(timer, joy)
    /\ UNCHANGED <<sr, spoken>>

(* Writing the mode starts the timer anew and sets its flag.               *)
Mode ==
    /\ Running("mode")
    /\ SetRegs([Regs EXCEPT !.pc = "write", !.t2 = 1])
    /\ Elapse([left |-> Period, irqFlag |-> 1], joy)
    /\ UNCHANGED <<sr, spoken>>

WriteBit ==
    /\ Running("write")
    /\ SetRegs([Regs EXCEPT !.pc = "wait", !.a0 = @ \div 2, !.t1 = @ - 1])
    /\ Elapse(timer, (1 - (Regs.a0 % 2)) * 8192 + 2)
    /\ UNCHANGED <<sr, spoken>>

(* Seeded fault: a bit is polled that always reads 0.                      *)
WriteWaitOtherBit ==
    /\ Running("wait")
    /\ IF Regs.t2 = 0 THEN UNCHANGED stack
       ELSE SetRegs([Regs EXCEPT !.t2 = 0,
                                 !.pc = IF Regs.t1 # 0 THEN "write" ELSE "restore"])
    /\ Elapse(timer, joy)
    /\ UNCHANGED <<sr, spoken>>

(* One turn of the polling loop.                                           *)
WriteWait ==
    /\ Running("wait")
    /\ IF timer.irqFlag = Regs.t2 THEN UNCHANGED stack
       ELSE SetRegs([Regs EXCEPT !.t2 = timer.irqFlag,
                                 !.pc = IF Regs.t1 # 0 THEN "write" ELSE "restore"])
    /\ Elapse(timer, joy)
    /\ UNCHANGED <<sr, spoken>>

(* Seeded fault: interrupts are turned on rather than restored.            *)
RestoreEnables ==
    /\ Running("restore")
    /\ stack' = Front(stack)
    /\ sr' = Enabled
    /\ Elapse(timer, joy)
    /\ UNCHANGED spoken

Restore ==
    /\ Running("restore")
    /\ stack' = Front(stack)
    /\ sr' = Regs.t4
    /\ Elapse(timer, joy)
    /\ UNCHANGED spoken

PutcharStep ==
    \/ Frame \/ SaveSr \/ Mask \/ Target \/ Mode \/ WriteBit \/ WriteWait \/ Restore

Putchar == PutcharStep /\ late' = FALSE /\ UNCHANGED critical
-----------------------------------------------------------------------------
(* Who prints: the program, or an interrupt handler.                       *)
Handling == stack # <<>> /\ Regs.pc = "handler"

Activation(pc, c) == [pc |-> pc, a0 |-> c, t1 |-> 0, t2 |-> 0, t4 |-> {}]

Call ==
    /\ stack = <<>> \/ Handling
    /\ Len(spoken) < MaxPrints
    /\ \E c \in Bytes : stack' = Append(stack, Activation("frame", c))
    /\ late' = FALSE
    /\ Elapse(timer, joy)
    /\ UNCHANGED <<sr, critical, spoken>>

(* The exception pushes the interrupt enable; the handler saves and        *)
(* restores every register.                                                *)
Interrupt ==
    /\ ~Masked(sr)
    /\ Len(stack) < 4
    /\ stack' = Append(stack, Activation("handler", 0))
    /\ sr' = sr \ {"IEc"}
    /\ late' = FALSE
    /\ Elapse(timer, joy)
    /\ UNCHANGED <<critical, spoken>>

HandlerReturn ==
    /\ Handling
    /\ stack' = Front(stack)
    /\ sr' = sr \cup {"IEc"}
    /\ late' = FALSE
    /\ Elapse(timer, joy)
    /\ UNCHANGED <<critical, spoken>>

(* EnterCriticalSection and ExitCriticalSection, or any other work.        *)
ProgramStep ==
    /\ stack = <<>>
    /\ \/ critical' = ~critical /\ sr' = IF critical THEN Enabled ELSE {}
       \/ UNCHANGED <<critical, sr>>
    /\ late' = FALSE
    /\ Elapse(timer, joy)
    /\ UNCHANGED <<stack, spoken>>

(* The bus or a refresh holds the processor up.                            *)
Stall ==
    /\ stack # <<>>
    /\ ~late
    /\ late' = TRUE
    /\ Elapse(timer, joy)
    /\ UNCHANGED <<stack, sr, critical, spoken>>

Next == Putchar \/ Call \/ Interrupt \/ HandlerReturn \/ ProgramStep \/ Stall

Spec == Init /\ [][Next]_vars

(* Interrupts leave the processor time to work between them.               *)
Fairness == SF_vars(Putchar) /\ WF_vars(HandlerReturn)

FairSpec == Spec /\ Fairness
-----------------------------------------------------------------------------
(* The receiver hears what was printed, byte for byte, in frames that are  *)
(* well formed, with the CR before each LF, whoever printed it and         *)
(* whatever interrupted it (patch-uart.S:19-113).                          *)
HeardAsSpoken ==
    /\ IsPrefix(rx.heard, spoken)
    /\ stack = <<>> /\ rx.left = 0 => rx.heard = spoken

(* putchar leaves the interrupt enables as its caller had them: a program  *)
(* in a critical section stays in it, and no handler interrupts a handler  *)
(* (patch-uart.S:39-55, 57-60, 116).                                       *)
EnablesKept ==
    /\ stack = <<>> => (Masked(sr) <=> critical)
    /\ Handling => Masked(sr)
    /\ \A i, j \in DOMAIN stack :
          stack[i].pc = "handler" /\ stack[j].pc = "handler" => i = j

(* Every call comes back, for each byte and from each caller.              *)
PutcharReturns == stack # <<>> ~> stack = <<>>
=============================================================================
