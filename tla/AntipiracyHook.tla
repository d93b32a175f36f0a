--------------------------- MODULE AntipiracyHook ---------------------------
(***************************************************************************)
(* The generic antipiracy patch at work (loader/patch-ap.S): every         *)
(* EnterCriticalSection of the running game passes through the hook, which *)
(* looks at the caller's stack and either lets the call through or returns *)
(* to ap_check in the place of ap_failed.                                  *)
(*                                                                         *)
(* The game is not part of the source: it is a machine that calls and      *)
(* returns, with the stack the patch's comments describe for the known     *)
(* modules.  Memory is counted in words; a function saves its return       *)
(* address in the last but one word of its frame.                          *)
(***************************************************************************)
EXTENDS Integers, Sequences, SequencesExt

CONSTANTS Modules,              \* antipiracy modules the games may have
          RamEnd,               \* words of RAM, the stack starts at the end
          MaxDepth,             \* bound: calls nested in each other
          Habits                \* what the games' functions do to locals

(* A word that is no return address: "data" is no word-aligned address of  *)
(* the RAM, "pointer" is one, a zero among them, and "edge" one less than  *)
(* 0x78 bytes below the end of the RAM.                                    *)
LocalWords == {"data", "pointer", "edge"}

ASSUME ModulesAssumption == Modules \subseteq {"none", "v1", "v15", "v2"}
ASSUME BoundsAssumption == RamEnd \in Nat /\ RamEnd >= 8 /\ MaxDepth \in Nat
ASSUME HabitsAssumption == Habits \subseteq SUBSET (LocalWords \cup {"unwritten"})

Functions == {"main", "draw", "load", "StopCallback", "disable_ints",
              "ap_check", "ap_failed"}

(* Where the code can be: in a function or, for two of them, behind the    *)
(* call they make.                                                         *)
Points == Functions \cup {"stopped", "stopping"}
Words == Points \cup LocalWords

VARIABLES
    module,  \* the game's antipiracy module
    habit,   \* the words its functions write into their locals, "unwritten"
             \* among them if they may leave them as they were
    at,      \* the point being executed, "trap" in EnterCriticalSection,
             \* "crashed" once the hook has read beyond the RAM
    sp,      \* the stack pointer
    mem,     \* the stack: return addresses and other data
    again,   \* s0 and s1 of ap_check: its state machine goes on
    irq,     \* interrupts enabled
    calls,   \* history: who has called whom, innermost last, and where the
             \* stack pointer was in each
    failed   \* history: a check has failed

vars == <<module, habit, at, sp, mem, again, irq, calls, failed>>

Owner(point) ==
    CASE point = "stopped" -> "StopCallback"
      [] point = "stopping" -> "ap_failed"
      [] point \notin {"stopped", "stopping"} -> point

ReturnPoint(f) ==
    CASE f = "StopCallback" -> "stopped"
      [] f = "ap_failed" -> "stopping"
      [] f \notin {"StopCallback", "ap_failed"} -> f

(* The return address of StopCallback lies 0x28 bytes up the stack, that   *)
(* of ap_failed 0xE8 or 0x120.                                             *)
FrameSize(f) ==
    CASE f \in {"main", "ap_check"} -> 8
      [] f \in {"draw", "StopCallback", "disable_ints"} -> 6
      [] f = "ap_failed" -> IF module = "v1" THEN 48 ELSE 62
      [] f = "load" -> 82

Frame(f, base) == [f |-> f, sp |-> base]

(* The RAM holds what the loader has left of it, zeros, or main has        *)
(* written its locals.                                                     *)
Init ==
    /\ module \in Modules
    /\ habit \in Habits
    /\ at = "main"
    /\ sp = RamEnd - 8
    /\ \E word \in (habit \ {"unwritten"}) \cup {"pointer"} :
          mem = [a \in 0 .. RamEnd - 1 |-> word]
    /\ again = FALSE
    /\ irq = TRUE
    /\ calls = <<Frame("main", sp)>>
    /\ failed = FALSE
-----------------------------------------------------------------------------
(* The game: calls, returns and critical sections                          *)

(* A function enters its frame, saves the return address and writes its    *)
(* locals, one word standing for all of them, or leaves them as they were. *)
(* disable_ints begins with EnterCriticalSection.                          *)
Push(f, local) ==
    LET base == sp - FrameSize(f)
    IN  /\ base >= 0
        /\ sp' = base
        /\ mem' = [a \in DOMAIN mem |->
                      IF a = sp - 2 THEN ReturnPoint(at)
                      ELSE IF a \in base .. sp - 1 /\ local # "unwritten" THEN local
                      ELSE mem[a]]
        /\ at' = IF f = "disable_ints" THEN "trap" ELSE f
        /\ calls' = Append(calls, Frame(f, base))
        /\ UNCHANGED <<module, habit, irq>>

Callees(f) ==
    CASE f = "main" -> {"draw", "load", "StopCallback"}
      [] f = "load" -> {"draw", "StopCallback"}
      [] f \in {"draw", "ap_failed"} -> {"StopCallback"}
      [] f = "StopCallback" -> {"disable_ints"}
      [] f \notin {"main", "load", "draw", "ap_failed", "StopCallback"} -> {}

Call ==
    /\ Len(calls) < MaxDepth
    /\ \E f \in Callees(at), local \in habit : Push(f, local)
    /\ UNCHANGED <<again, failed>>

(* The game checks its disc now and then, and may find it out.             *)
CheckDisc ==
    /\ at = "main" /\ module # "none"
    /\ \E local \in habit : Push("ap_check", local)
    /\ again' = TRUE
    /\ UNCHANGED failed

CheckPasses ==
    /\ at = "ap_check" /\ again
    /\ again' = FALSE
    /\ UNCHANGED <<module, habit, at, sp, mem, irq, calls, failed>>

CheckFails ==
    /\ at = "ap_check" /\ again
    /\ \E local \in habit : Push("ap_failed", local)
    /\ failed' = TRUE
    /\ UNCHANGED again

Return ==
    /\ \/ at \in {"draw", "load", "disable_ints", "stopped"}
       \/ at = "ap_check" /\ ~again
    /\ sp' = sp + FrameSize(Owner(at))
    /\ at' = mem[sp' - 2]
    /\ calls' = Front(calls)
    /\ UNCHANGED <<module, habit, mem, again, irq, failed>>

EnterCriticalSection ==
    /\ at \in {"main", "draw", "load"}
    /\ at' = "trap"
    /\ UNCHANGED <<module, habit, sp, mem, again, irq, calls, failed>>

ExitCriticalSection ==
    /\ at \in {"main", "draw", "load"} /\ ~irq
    /\ irq' = TRUE
    /\ UNCHANGED <<module, habit, at, sp, mem, again, calls, failed>>

(* A thread the hook has taken off its way is not followed any further.    *)
Derailed == calls = <<>>

Game ==
    /\ ~Derailed
    /\ \/ Call \/ CheckDisc \/ CheckPasses \/ CheckFails \/ Return
       \/ EnterCriticalSection \/ ExitCriticalSection
-----------------------------------------------------------------------------
(* The hook                                                                *)

(* SP + 0x28 lies beyond the RAM SP is in.                                 *)
CrossesRam == sp + 10 >= RamEnd

Word(a) == IF a \in DOMAIN mem THEN mem[a] ELSE "data"

(* Seeded fault: what is found is taken for an address.                    *)
MaskNever(word) == TRUE

(* The mask: a word-aligned address in KUSEG or KSEG0.                     *)
PassesMask(word) == word # "data"

(* SP + 0x28 is looked at and could hold an address.                       *)
Considered == ~CrossesRam /\ PassesMask(Word(sp + 10))

(* A load leads out of the RAM: that of the word itself, or, if it passes  *)
(* for an address, that of the first opcode to compare, 0x74 bytes on.     *)
Faults ==
    \/ ~CrossesRam /\ sp + 10 \notin DOMAIN mem
    \/ Considered /\ Word(sp + 10) \notin Points \cup {"pointer"}

(* Seeded fault: one of the modules is not recognised.                     *)
SignatureV1(version) ==
    Considered /\ Word(sp + 10) = "stopping" /\ module = version /\ version = "v1"

(* The opcodes at fixed distances behind that address are in no code but   *)
(* that of ap_failed: it draws the stop screen or mutes the sound, each    *)
(* module differently.                                                     *)
Signature(version) ==
    Considered /\ Word(sp + 10) = "stopping" /\ module = version

Recognised == \E version \in {"v1", "v15", "v2"} : Signature(version)

(* Where the call comes from, which the hook can only guess.               *)
FromApFailed ==
    /\ Len(calls) > 3
    /\ calls[Len(calls) - 2].f = "ap_failed"
    /\ calls[Len(calls) - 1].f = "StopCallback"
    /\ calls[Len(calls)].f = "disable_ints"

(* Seeded fault: the offsets of the first variant for every module.        *)
AdjustShort == 60

(* ap_failed's frame and the two below it.                                 *)
Adjust == IF Signature("v1") THEN 60 ELSE 74

(* Back from ap_failed.                                                    *)
Unwound == IF FromApFailed THEN SubSeq(calls, 1, Len(calls) - 3) ELSE <<>>

(* Seeded fault: s0 and s1 are left alone.                                 *)
DefuseKeepingState ==
    /\ at = "trap"
    /\ Recognised
    /\ sp' = sp + Adjust
    /\ at' = Word(sp' - 2)
    /\ calls' = Unwound
    /\ UNCHANGED <<module, habit, mem, irq, again, failed>>

(* The thread goes on where ap_failed would have returned to, through the  *)
(* kernel's code for syscall(0), which does nothing.                       *)
Defuse ==
    /\ at = "trap"
    /\ Recognised
    /\ sp' = sp + Adjust
    /\ at' = Word(sp' - 2)
    /\ again' = FALSE
    /\ calls' = Unwound
    /\ UNCHANGED <<module, habit, mem, irq, failed>>

(* The kernel's own code for syscall(1).                                   *)
Skip ==
    /\ at = "trap"
    /\ ~Faults /\ ~Recognised
    /\ at' = Last(calls).f
    /\ irq' = FALSE
    /\ UNCHANGED <<module, habit, sp, mem, again, calls, failed>>

(* A word that cannot be read stops the console.                           *)
Crash ==
    /\ at = "trap"
    /\ Faults
    /\ at' = "crashed"
    /\ UNCHANGED <<module, habit, sp, mem, again, irq, calls, failed>>

Idle == (Derailed \/ at = "crashed") /\ UNCHANGED vars

Next == Game \/ Defuse \/ Skip \/ Crash \/ Idle

(* Time passes: neither the game nor the kernel waits for anything.        *)
Fairness == WF_vars(Next)

Spec == Init /\ [][Next]_vars /\ Fairness
-----------------------------------------------------------------------------
TypeOK ==
    /\ module \in Modules /\ habit \in Habits
    /\ at \in Words \cup {"trap", "crashed"}
    /\ sp \in Nat
    /\ mem \in [0 .. RamEnd - 1 -> Words]
    /\ again \in BOOLEAN /\ irq \in BOOLEAN /\ failed \in BOOLEAN
    /\ calls \in Seq([f : Functions, sp : 0 .. RamEnd])

(* The return address of a failed check can only be taken for one that is  *)
(* to be answered once a check has failed, in a game that leaves locals    *)
(* unwritten.                                                              *)
Leftovers == failed /\ "unwritten" \in habit

(* Whatever the hook has done, the game goes on in the function that was   *)
(* called last and has not returned, with the stack pointer that function  *)
(* had: ap_failed, StopCallback and disable_ints are taken off the stack   *)
(* completely, and nothing else is; nor does any other call take the game  *)
(* off its way, unless the stack can have leftovers of a failed check.     *)
ControlIntact ==
    /\ Derailed => Leftovers
    /\ ~Derailed /\ at \notin {"trap", "crashed"} =>
          Owner(at) = Last(calls).f /\ sp = Last(calls).sp

(* The stop screen, which ap_failed goes on to once StopCallback has       *)
(* returned to it, never comes, whichever module the game has.             *)
StopScreenNever == ~Derailed => at # "stopping"

Enters == at' = Last(calls).f /\ sp' = sp /\ ~irq' /\ again' = again

(* The word at SP + 0x28 is a pointer to the last bytes of the RAM.        *)
OutOfRam == sp + 10 \in DOMAIN mem /\ mem[sp + 10] = "edge"

(* An EnterCriticalSection of anyone but ap_failed enters its critical     *)
(* section and returns to its caller, however close to the end of the RAM  *)
(* the stack is and whatever words are on it, stale ones included, as long *)
(* as no check has failed; afterwards too in a game that writes its        *)
(* locals.  Only a pointer to the last bytes of the RAM at SP + 0x28 is    *)
(* beyond the hook (patch-ap.S:27-64, patch-ap.S:98).                      *)
OrdinaryCallsEnter ==
    [][at = "trap" /\ ~FromApFailed /\ ~Leftovers /\ ~OutOfRam => Enters]_vars

(* The comment at patcher.c:59: the original code is used "if the call was *)
(* not originated from an antipiracy module".                              *)
OthersUseOriginalCode == [][at = "trap" /\ ~FromApFailed => Enters]_vars

(* An antipiracy check ends and the game goes on, even if it fails every   *)
(* time it is made: after the hook ap_check's state machine is over.       *)
CheckEnds == at = "ap_check" /\ ~Derailed ~> at = "main"
=============================================================================
